--------------------------- MODULE OutcomeProofs ---------------------------
(***************************************************************************)
(* What becomes of an accepted job: that its render can be canceled, that  *)
(* its record is never stranded, that a completed one has its PDF and that *)
(* its callback says what GetJob says.  With these the whole inductive     *)
(* invariant of module ServiceInv is proved.                               *)
(***************************************************************************)
EXTENDS ServiceProofs, FiniteSetTheorems

\* What the outcome of jobs depends on.
outcomeVars == <<storeVars, queueVars, cancels, workerVars, spc, reply>>

\* A step is one of a worker or of SubmitJob, the write of a canceller, or
\* does not concern the outcome of jobs.
LEMMA OutcomeSteps ==
  ASSUME [Next]_vars
  PROVE  \/ UNCHANGED outcomeVars
         \/ \E w \in Workers : WorkerStep(w) /\ UNCHANGED apiVars
         \/ \E j \in Jobs, req \in Requests :
              SubmitReserve(j, req) \/ SubmitIdempotent(j, req)
         \/ \E j \in Jobs : SubmitStep(j)
         \/ \E c \in Cancellers : CancelWrite(c)
<1> USE DEF outcomeVars, storeVars, queueVars, registryVars, workerVars,
            apiVars, poolVars, vars
<1>1. CASE \E req \in Requests : SubmitInvalid(req)
  BY <1>1 DEF SubmitInvalid
<1>2. CASE NewCancel \/ \E c \in Cancellers : CancelSignal(c)
  BY <1>2 DEF NewCancel, CancelRead, CancelSignal, CancelContext
<1>3. CASE \/ Quit \/ ShutdownDone \/ ShutdownTimeout \/ WaitDone
           \/ WaitTimeout \/ UNCHANGED vars
  BY <1>3 DEF Quit, ShutdownDone, ShutdownTimeout, WaitDone, WaitTimeout
<1> QED
  BY <1>1, <1>2, <1>3
     DEF Next, NewSubmit, SubmitAct, CancelAct, CancelStep, WorkerAct, Exited

-----------------------------------------------------------------------------
(* The cancellation registry.                                              *)

\* The part of processJob between Register and Unregister.
Registered == InJob \ {"check", "mark", "register"}

\* Worker w moves without entering or leaving that part.
MovesOn(w) ==
  /\ \E to \in InJob \cup {"pop", "stopped"} :
       /\ wpc' = [wpc EXCEPT ![w] = to]
       /\ to \in Registered <=> wpc[w] \in Registered
  /\ UNCHANGED <<wjob, cancels>>

\* A worker's step takes a job, drops one before it is registered, enters or
\* leaves the registry, or does not concern it.
LEMMA RegistrySteps ==
  ASSUME TypeOK, HoldsJob, NEW w \in Workers, WorkerStep(w)
  PROVE  \/ MovesOn(w)
         \/ PopJob(w) \/ CheckSkip(w) \/ RegisterJob(w) \/ Finish(w)
<1> USE DEF MovesOn, Registered, InJob, Goto, registryVars
<1>1. CASE PopStop(w) \/ CheckGo(w) \/ MarkProcessing(w)
  BY <1>1 DEF PopStop, CheckGo, MarkProcessing
<1>2. CASE \/ RenderOK(w) \/ RenderGiveUp(w) \/ RenderRetry(w)
           \/ BackoffElapsed(w) \/ BackoffCanceled(w)
  <2>1. CASE RenderOK(w) \/ RenderGiveUp(w)
    BY <2>1 DEF RenderOK, RenderGiveUp
  <2>2. CASE RenderRetry(w)
    BY <2>2 DEF RenderRetry
  <2>3. CASE BackoffElapsed(w)
    BY <2>3 DEF BackoffElapsed
  <2>4. CASE BackoffCanceled(w)
    <3>1. /\ wpc[w] = "backoff" /\ wpc' = [wpc EXCEPT ![w] = "errcheck"]
          /\ UNCHANGED <<wjob, cancels>>
      BY <2>4 DEF BackoffCanceled
    <3> QED
      BY <3>1
  <2> QED
    BY <1>2, <2>1, <2>2, <2>3, <2>4
<1>3. CASE ErrCanceled(w) \/ ErrFailed(w) \/ MarkFailed(w)
  BY <1>3 DEF ErrCanceled, Discard, ErrFailed, MarkFailed
<1>4. CASE \/ OkCanceled(w) \/ OkStore(w) \/ PutOK(w) \/ PutFailed(w)
           \/ MarkCompleted(w) \/ Notify(w)
  BY <1>4 DEF OkCanceled, Discard, OkStore, PutOK, PutFailed, MarkCompleted,
              Notify
<1> QED
  BY <1>1, <1>2, <1>3, <1>4 DEF WorkerStep

\* The registry follows the worker that holds the job: nobody else holds it,
\* so Unregister removes no other worker's entry.
LEMMA NextRegistry ==
  ASSUME TypeOK, HoldsJob, HeldOnce, RenderIsCancelable, [Next]_vars
  PROVE  RenderIsCancelable'
<1> USE DEF storeVars, queueVars, registryVars, workerVars, apiVars, poolVars,
            vars
<1>1. /\ cancels \in [Jobs -> Workers \cup {NoWorker}]
      /\ wpc \in [Workers -> InJob \cup {"pop", "stopped"}]
      /\ wjob \in [Workers -> Jobs \cup {NoJob}]
  BY DEF TypeOK, RegistryTypeOK, PoolTypeOK
<1>2. CASE UNCHANGED <<cancels, wpc, wjob>>
  BY <1>2 DEF RenderIsCancelable
<1>3. ASSUME NEW w \in Workers, MovesOn(w) PROVE RenderIsCancelable'
  BY <1>1, <1>3 DEF MovesOn, Registered, RenderIsCancelable
<1>4. ASSUME NEW w \in Workers, NEW j \in Jobs, Take(w, j), UNCHANGED cancels
      PROVE  RenderIsCancelable'
  BY <1>1, <1>4 DEF Take, Goto, RenderIsCancelable, InJob
<1>5. ASSUME NEW w \in Workers, CheckSkip(w) PROVE RenderIsCancelable'
  BY <1>1, <1>5, NoJobAssumption DEF CheckSkip, Goto, RenderIsCancelable, InJob
<1>6. ASSUME NEW w \in Workers, RegisterJob(w) PROVE RenderIsCancelable'
  <2>1. /\ wpc[w] = "register" /\ wpc' = [wpc EXCEPT ![w] = "render"]
        /\ wjob' = wjob /\ wjob[w] \in Jobs
        /\ cancels' = [cancels EXCEPT ![wjob[w]] = w]
    BY <1>6 DEF RegisterJob, Register, Goto, HoldsJob, InJob
  <2>2. \A v \in Workers \ {w} : wjob[v] # wjob[w]
    BY <2>1 DEF HeldOnce
  <2> QED
    BY <1>1, <2>1, <2>2 DEF RenderIsCancelable, InJob
<1>7. ASSUME NEW w \in Workers, Finish(w) PROVE RenderIsCancelable'
  <2>1. /\ wpc[w] = "finish" /\ wpc' = [wpc EXCEPT ![w] = "pop"]
        /\ wjob' = [wjob EXCEPT ![w] = NoJob] /\ wjob[w] \in Jobs
        /\ cancels' = [cancels EXCEPT ![wjob[w]] = NoWorker]
    BY <1>7 DEF Finish, Unregister, Goto, HoldsJob, InJob
  <2>2. \A v \in Workers \ {w} : wjob[v] # wjob[w]
    BY <2>1 DEF HeldOnce
  <2> QED
    BY <1>1, <2>1, <2>2, NoWorkerAssumption, NoJobAssumption
       DEF RenderIsCancelable, InJob
<1>8. ASSUME NEW j \in Jobs, SubmitStep(j) PROVE RenderIsCancelable'
  <2>1. CASE \E w \in Workers : SubmitHandoff(j, w)
    BY <1>4, <2>1 DEF SubmitHandoff
  <2>2. CASE \/ SubmitInit(j) \/ SubmitPush(j) \/ SubmitQueueFull(j)
             \/ SubmitRollback(j) \/ SubmitAccept(j)
    BY <1>2, <2>2 DEF SubmitInit, SubmitPush, SubmitQueueFull, SubmitRollback,
                      SubmitAccept
  <2> QED
    BY <1>8, <2>1, <2>2 DEF SubmitStep
<1>9. ASSUME NEW j \in Jobs, NEW req \in Requests,
             SubmitReserve(j, req) \/ SubmitIdempotent(j, req)
      PROVE  RenderIsCancelable'
  BY <1>2, <1>9 DEF SubmitReserve, SubmitIdempotent
<1>10. ASSUME NEW c \in Cancellers, CancelWrite(c) PROVE RenderIsCancelable'
  BY <1>2, <1>10 DEF CancelWrite
<1>11. CASE UNCHANGED outcomeVars
  BY <1>2, <1>11 DEF outcomeVars
<1> QED
  BY <1>3, <1>4, <1>5, <1>6, <1>7, <1>8, <1>9, <1>10, <1>11, RegistrySteps,
     OutcomeSteps DEF PopJob

-----------------------------------------------------------------------------
(* Completed jobs and their PDFs.                                          *)

\* What the three writes of processJob leave in the store.
LEMMA MarkRecord ==
  ASSUME TypeOK, HoldsJob, Placement, Recorded, NEW w \in Workers,
         MarkProcessing(w) \/ MarkFailed(w) \/ MarkCompleted(w)
  PROVE  /\ wjob[w] \in Jobs /\ Accepted(wjob[w])
         /\ \A j \in Jobs \ {wjob[w]} : results'[j] = results[j]
         /\ \/ MarkProcessing(w) /\ results'[wjob[w]].status = "processing"
            \/ MarkFailed(w) /\ results'[wjob[w]].status = "failed"
            \/ /\ MarkCompleted(w) /\ results'[wjob[w]].status = "completed"
               /\ results'[wjob[w]].pdfKey = wjob[w]
<1>1. wjob[w] \in Jobs /\ werr[w] \in Errors
  BY DEF MarkProcessing, MarkFailed, MarkCompleted, Goto, HoldsJob, InJob,
         TypeOK, PoolTypeOK
<1>2. /\ "" \in Errors
      /\ {"processing", "failed", "completed"} \subseteq Status
  BY DEF Status, Terminal, Errors
<1>3. CASE MarkProcessing(w)
  BY <1>1, <1>2, <1>3, WorkerRecord DEF MarkProcessing
<1>4. CASE MarkFailed(w)
  BY <1>1, <1>2, <1>4, WorkerRecord DEF MarkFailed
<1>5. CASE MarkCompleted(w)
  BY <1>1, <1>2, <1>5, WorkerRecord DEF MarkCompleted
<1> QED
  BY <1>3, <1>4, <1>5

\* Put comes before "completed", no worker but the one that put it writes
\* "completed", and no blob is removed.
LEMMA NextBlobFirst ==
  ASSUME TypeOK, HoldsJob, Placement, Records, BlobFirst, [Next]_vars
  PROVE  BlobFirst'
<1> USE DEF storeVars, queueVars, registryVars, workerVars
<1>1. /\ wpc \in [Workers -> InJob \cup {"pop", "stopped"}]
      /\ wjob \in [Workers -> Jobs \cup {NoJob}]
  BY DEF TypeOK, PoolTypeOK
<1>2. Recorded
  BY DEF Records
<1>3. ASSUME UNCHANGED results, blobs \subseteq blobs',
             \A w \in Workers : wpc'[w] = "complete" =>
               \/ wpc[w] = "complete" /\ wjob'[w] = wjob[w]
               \/ wjob'[w] \in blobs'
      PROVE  BlobFirst'
  BY <1>3 DEF BlobFirst
<1>4. ASSUME UNCHANGED <<wpc, wjob, blobs>>,
             \A j \in Jobs : results'[j].status = "completed"
               => results'[j] = results[j]
      PROVE  BlobFirst'
  BY <1>4 DEF BlobFirst
<1>5. ASSUME NEW w \in Workers, WorkerStep(w) PROVE BlobFirst'
  <2> USE DEF Goto
  <2>1. CASE PopJob(w) \/ PopStop(w) \/ CheckSkip(w) \/ CheckGo(w) \/ RegisterJob(w)
    BY <1>1, <1>3, <2>1 DEF PopJob, Take, PopStop, CheckSkip, CheckGo, RegisterJob
  <2>2. CASE \/ RenderOK(w) \/ RenderGiveUp(w) \/ RenderRetry(w)
             \/ BackoffElapsed(w) \/ BackoffCanceled(w)
    BY <1>1, <1>3, <2>2 DEF RenderOK, RenderGiveUp, RenderRetry,
                            BackoffElapsed, BackoffCanceled
  <2>3. CASE ErrCanceled(w) \/ ErrFailed(w) \/ OkCanceled(w) \/ OkStore(w)
    BY <1>1, <1>3, <2>3 DEF ErrCanceled, OkCanceled, Discard, ErrFailed, OkStore
  <2>4. CASE PutOK(w) \/ PutFailed(w)
    BY <1>1, <1>3, <2>4 DEF PutOK, PutFailed, PutBlob
  <2>5. CASE Notify(w) \/ Finish(w)
    BY <1>1, <1>3, <2>5 DEF Notify, Finish
  <2>6. CASE MarkProcessing(w) \/ MarkFailed(w) \/ MarkCompleted(w)
    <3>1. /\ wjob[w] \in Jobs
          /\ \A j \in Jobs \ {wjob[w]} : results'[j] = results[j]
          /\ \/ results'[wjob[w]].status \in {"processing", "failed"}
             \/ /\ wpc[w] = "complete"
                /\ results'[wjob[w]].status = "completed"
                /\ results'[wjob[w]].pdfKey = wjob[w]
      BY <1>2, <2>6, MarkRecord DEF MarkCompleted
    <3>2. /\ wpc'[w] # "complete" /\ \A v \in Workers \ {w} : wpc'[v] = wpc[v]
          /\ UNCHANGED <<wjob, blobs>>
      BY <1>1, <2>6 DEF MarkProcessing, MarkFailed, MarkCompleted
    <3> QED
      BY <3>1, <3>2 DEF BlobFirst
  <2> QED
    BY <1>5, <2>1, <2>2, <2>3, <2>4, <2>5, <2>6 DEF WorkerStep
<1>6. ASSUME NEW j \in Jobs, SubmitStep(j) PROVE BlobFirst'
  <2>1. CASE SubmitInit(j)
    <3>1. \A i \in Jobs : results'[i].status = "completed" => results'[i] = results[i]
      BY <1>2, <2>1, InitRecord
    <3> QED
      BY <1>4, <2>1, <3>1 DEF SubmitInit
  <2>2. CASE SubmitRollback(j)
    <3>1. \A i \in Jobs : results'[i].status = "completed" => results'[i] = results[i]
      BY <2>2, DeleteRecord DEF SubmitRollback, TypeOK
    <3> QED
      BY <1>4, <2>2, <3>1 DEF SubmitRollback
  <2>3. CASE SubmitPush(j) \/ SubmitQueueFull(j) \/ SubmitAccept(j)
    BY <1>4, <2>3 DEF SubmitPush, SubmitQueueFull, SubmitAccept
  <2>4. CASE \E w \in Workers : SubmitHandoff(j, w)
    BY <1>1, <1>3, <2>4 DEF SubmitHandoff, Take, Goto
  <2> QED
    BY <1>6, <2>1, <2>2, <2>3, <2>4 DEF SubmitStep
<1>7. ASSUME NEW j \in Jobs, NEW req \in Requests,
             SubmitReserve(j, req) \/ SubmitIdempotent(j, req)
      PROVE  BlobFirst'
  BY <1>4, <1>7 DEF SubmitReserve, ReserveIdempotencyKey, SubmitIdempotent
<1>8. ASSUME NEW c \in Cancellers, CancelWrite(c) PROVE BlobFirst'
  <2>1. \A i \in Jobs : results'[i].status = "completed" => results'[i] = results[i]
    BY <1>2, <1>8, CancelRecord
  <2> QED
    BY <1>4, <1>8, <2>1 DEF CancelWrite
<1>9. CASE UNCHANGED outcomeVars
  BY <1>4, <1>9 DEF outcomeVars
<1> QED
  BY <1>5, <1>6, <1>7, <1>8, <1>9, OutcomeSteps

-----------------------------------------------------------------------------
(* Unfinished records.                                                     *)

\* Worker w moves from one point of processJob to another and keeps its job;
\* it lets go of an unfinished record only when that is canceled.
Carries(w) ==
  /\ \E from, to \in InJob \cup {"pop", "stopped"} :
       /\ Goto(w, from, to)
       /\ from \in {"check", "mark"} => to \in {"check", "mark"}
       /\ from \in InJob \ {"check", "mark", "notify", "finish"} =>
            \/ to \in InJob \ {"check", "mark", "notify", "finish"}
            \/ IsCanceled(wjob[w])
  /\ UNCHANGED <<results, jobs, spc, wjob>>

\* The steps of a worker as an unfinished record sees them.
LEMMA CarrySteps ==
  ASSUME NEW w \in Workers, WorkerStep(w), UNCHANGED apiVars
  PROVE  \/ Carries(w)
         \/ PopJob(w) \/ CheckSkip(w) \/ Finish(w)
         \/ MarkProcessing(w) \/ MarkFailed(w) \/ MarkCompleted(w)
<1> USE DEF Carries, Goto, InJob, storeVars, queueVars, apiVars
<1>1. CASE PopStop(w) \/ CheckGo(w) \/ RegisterJob(w)
  BY <1>1 DEF PopStop, CheckGo, RegisterJob
<1>2. CASE \/ RenderOK(w) \/ RenderGiveUp(w) \/ RenderRetry(w)
           \/ BackoffElapsed(w) \/ BackoffCanceled(w)
  <2>1. CASE RenderOK(w) \/ RenderGiveUp(w)
    BY <2>1 DEF RenderOK, RenderGiveUp
  <2>2. CASE RenderRetry(w)
    BY <2>2 DEF RenderRetry
  <2>3. CASE BackoffElapsed(w)
    BY <2>3 DEF BackoffElapsed
  <2>4. CASE BackoffCanceled(w)
    <3>1. /\ wpc[w] = "backoff" /\ wpc' = [wpc EXCEPT ![w] = "errcheck"]
          /\ UNCHANGED <<results, jobs, spc, wjob>>
      BY <2>4 DEF BackoffCanceled
    <3> QED
      BY <3>1
  <2> QED
    BY <1>2, <2>1, <2>2, <2>3, <2>4
<1>3. CASE ErrCanceled(w) \/ ErrFailed(w) \/ OkCanceled(w) \/ OkStore(w)
  <2>1. CASE ErrCanceled(w) \/ OkCanceled(w)
    BY <2>1 DEF ErrCanceled, OkCanceled, Discard
  <2>2. CASE ErrFailed(w)
    BY <2>2 DEF ErrFailed
  <2>3. CASE OkStore(w)
    BY <2>3 DEF OkStore
  <2> QED
    BY <1>3, <2>1, <2>2, <2>3
<1>4. CASE PutOK(w) \/ PutFailed(w) \/ Notify(w)
  BY <1>4 DEF PutOK, PutFailed, Notify
<1> QED
  BY <1>1, <1>2, <1>3, <1>4 DEF WorkerStep

\* Whoever has an unfinished record in hand passes it on or finishes it.
LEMMA NextNoStrandedJob ==
  ASSUME TypeOK, HoldsJob, Placement, Records, NoStrandedJob, [Next]_vars
  PROVE  NoStrandedJob'
<1> USE DEF storeVars, queueVars, registryVars, workerVars, apiVars
<1>1. /\ wpc \in [Workers -> InJob \cup {"pop", "stopped"}]
      /\ wjob \in [Workers -> Jobs \cup {NoJob}]
      /\ spc \in [Jobs -> {"idle", "init", "push", "rollback", "count", "done"}]
      /\ jobs \in Seq(Jobs)
  BY DEF TypeOK, PoolTypeOK, ApiTypeOK, QueueTypeOK
<1>2. Recorded /\ HeldOnce
  BY DEF Records, Placement
<1>3. CASE UNCHANGED <<results, jobs, spc, wpc, wjob>>
  BY <1>3 DEF NoStrandedJob, InQueue, WorkingOn
<1>4. ASSUME NEW w \in Workers, Carries(w) PROVE NoStrandedJob'
  BY <1>1, <1>4 DEF Carries, Goto, IsCanceled, NoStrandedJob, InQueue, WorkingOn
<1>5. ASSUME NEW w \in Workers, PopJob(w), UNCHANGED apiVars
      PROVE  NoStrandedJob'
  <2>1. PICK j \in Jobs : Receive(j) /\ Take(w, j)
    BY <1>5 DEF PopJob
  <2>2. /\ wpc[w] = "pop" /\ wpc' = [wpc EXCEPT ![w] = "check"]
        /\ wjob' = [wjob EXCEPT ![w] = j] /\ UNCHANGED <<results, spc>>
    BY <1>5, <2>1 DEF PopJob, Take, Goto
  <2>3. \A i \in Jobs : InQueue(i) => i = j \/ InQueue(i)'
    <3> SUFFICES ASSUME NEW i \in Jobs, InQueue(i), i # j PROVE InQueue(i)'
      OBVIOUS
    <3>1. PICK n \in 1..Len(jobs) : jobs[n] = i
      BY DEF InQueue
    <3>2. n # 1 /\ Len(jobs') = Len(jobs) - 1 /\ Len(jobs) \in Nat
      BY <1>1, <2>1, <3>1, ReceiveHead
    <3>3. n - 1 \in 1..Len(jobs') /\ (n - 1) + 1 = n
      BY <3>1, <3>2
    <3>4. jobs'[n - 1] = i
      BY <1>1, <2>1, <3>1, <3>3, ReceiveHead
    <3> QED
      BY <3>3, <3>4 DEF InQueue
  <2>4. wjob[w] \notin Jobs
    BY <2>2 DEF HoldsJob, InJob
  <2> HIDE DEF InQueue
  <2> QED
    BY <1>1, <2>2, <2>3, <2>4 DEF NoStrandedJob, WorkingOn
<1>6. ASSUME NEW w \in Workers, CheckSkip(w) \/ Finish(w), UNCHANGED apiVars
      PROVE  NoStrandedJob'
  BY <1>1, <1>6 DEF CheckSkip, Finish, Goto, IsCanceled, NoStrandedJob, InQueue,
                    WorkingOn
<1>7. ASSUME NEW w \in Workers, UNCHANGED apiVars,
             MarkProcessing(w) \/ MarkFailed(w) \/ MarkCompleted(w)
      PROVE  NoStrandedJob'
  <2>1. /\ wjob[w] \in Jobs
        /\ \A j \in Jobs \ {wjob[w]} : results'[j] = results[j]
        /\ \/ results'[wjob[w]].status = "processing" /\ wpc'[w] = "register"
           \/ results'[wjob[w]].status \in {"failed", "completed"}
    BY <1>1, <1>2, <1>7, MarkRecord DEF MarkProcessing, Goto
  <2>2. /\ \A v \in Workers \ {w} : wpc'[v] = wpc[v]
        /\ UNCHANGED <<jobs, spc, wjob>>
    BY <1>1, <1>7 DEF MarkProcessing, MarkFailed, MarkCompleted, Goto
  <2>3. \A j \in Jobs : InQueue(j)' <=> InQueue(j)
    BY <2>2 DEF InQueue
  <2> QED
    BY <2>1, <2>2, <2>3 DEF NoStrandedJob, WorkingOn, InJob
<1>8. ASSUME NEW j \in Jobs, SubmitStep(j) PROVE NoStrandedJob'
  <2>1. CASE SubmitInit(j)
    <3>1. /\ \A i \in Jobs \ {j} : results'[i] = results[i] /\ spc'[i] = spc[i]
          /\ results'[j].status = "pending" /\ spc'[j] = "push"
          /\ UNCHANGED <<jobs, wpc, wjob>>
      BY <1>1, <1>2, <2>1, InitRecord DEF SubmitInit, SubmitGoto
    <3> QED
      BY <3>1 DEF NoStrandedJob, InQueue, WorkingOn
  <2>2. CASE SubmitRollback(j)
    <3>1. /\ \A i \in Jobs \ {j} : results'[i] = results[i] /\ spc'[i] = spc[i]
          /\ results'[j].status = "none" /\ UNCHANGED <<jobs, wpc, wjob>>
      BY <1>1, <2>2, DeleteRecord DEF SubmitRollback, SubmitGoto, TypeOK
    <3> QED
      BY <3>1 DEF NoStrandedJob, InQueue, WorkingOn
  <2>3. CASE SubmitPush(j)
    <3>1. /\ \A i \in Jobs \ {j} : spc'[i] = spc[i]
          /\ UNCHANGED <<results, wpc, wjob>>
      BY <1>1, <2>3 DEF SubmitPush, SubmitGoto
    <3>2. InQueue(j)' /\ \A i \in Jobs : InQueue(i) => InQueue(i)'
      BY <1>1, <2>3, PushLast DEF SubmitPush, InQueue
    <3>3. results[j].status # "processing" \/
            \E w \in Workers : WorkingOn(w, j) /\ wpc[w] \notin {"check", "mark"}
      BY DEF NoStrandedJob
    <3> QED
      BY <3>1, <3>2, <3>3 DEF NoStrandedJob, WorkingOn
  <2>4. CASE SubmitQueueFull(j) \/ SubmitAccept(j)
    BY <1>1, <2>4 DEF SubmitQueueFull, SubmitAccept, SubmitGoto, NoStrandedJob,
                      InQueue, WorkingOn
  <2>5. ASSUME NEW w \in Workers, SubmitHandoff(j, w) PROVE NoStrandedJob'
    <3>1. /\ wpc[w] = "pop" /\ wpc' = [wpc EXCEPT ![w] = "check"]
          /\ wjob' = [wjob EXCEPT ![w] = j]
          /\ spc' = [spc EXCEPT ![j] = "count"]
          /\ UNCHANGED <<results, jobs>>
      BY <2>5 DEF SubmitHandoff, SubmitGoto, Take, Goto
    <3>2. wjob[w] \notin Jobs
      BY <3>1 DEF HoldsJob, InJob
    <3> QED
      BY <1>1, <3>1, <3>2 DEF NoStrandedJob, InQueue, WorkingOn
  <2> QED
    BY <1>8, <2>1, <2>2, <2>3, <2>4, <2>5 DEF SubmitStep
<1>9. ASSUME NEW j \in Jobs, NEW req \in Requests,
             SubmitReserve(j, req) \/ SubmitIdempotent(j, req)
      PROVE  NoStrandedJob'
  <2>1. /\ spc[j] = "idle" /\ \A i \in Jobs \ {j} : spc'[i] = spc[i]
        /\ UNCHANGED <<results, jobs, wpc, wjob>>
    BY <1>1, <1>9 DEF SubmitReserve, ReserveIdempotencyKey, SubmitIdempotent,
                      SubmitGoto
  <2> QED
    BY <2>1 DEF NoStrandedJob, InQueue, WorkingOn
<1>10. ASSUME NEW c \in Cancellers, CancelWrite(c) PROVE NoStrandedJob'
  <2>1. /\ cjob[c] \in Jobs /\ results'[cjob[c]].status = "canceled"
        /\ \A i \in Jobs \ {cjob[c]} : results'[i] = results[i]
        /\ UNCHANGED <<jobs, spc, wpc, wjob>>
    BY <1>2, <1>10, CancelRecord DEF CancelWrite
  <2> QED
    BY <2>1 DEF NoStrandedJob, InQueue, WorkingOn
<1>11. CASE UNCHANGED outcomeVars
  BY <1>3, <1>11 DEF outcomeVars
<1> QED
  BY <1>4, <1>5, <1>6, <1>7, <1>8, <1>9, <1>10, <1>11, CarrySteps, OutcomeSteps

-----------------------------------------------------------------------------
(* Callbacks.                                                              *)

Reports == Reported /\ WebhookAgrees

\* Worker w goes on without a word; it has an error to report exactly when
\* its render or its Put failed.
Silent(w) ==
  /\ \E to \in (InJob \ {"notify"}) \cup {"pop", "stopped"} :
       /\ wpc' = [wpc EXCEPT ![w] = to]
       /\ to \in InJob => wpc[w] \in InJob /\ wjob'[w] = wjob[w]
       /\ to # "finish" => wpc[w] # "finish" \/ to \notin InJob
       /\ werr'[w] = "" <=> to \notin {"errcheck", "fail"}
  /\ \A v \in Workers \ {w} : werr'[v] = werr[v] /\ wjob'[v] = wjob[v]
  /\ UNCHANGED <<results, jobs, payload, hooks, spc, reply>>

\* The steps of a worker as the callback URL sees them.
LEMMA ReportSteps ==
  ASSUME TypeOK, HoldsJob, Reported, NEW w \in Workers, WorkerStep(w),
         UNCHANGED apiVars
  PROVE  \/ Silent(w) \/ PopJob(w) \/ Notify(w)
         \/ MarkProcessing(w) \/ MarkFailed(w) \/ MarkCompleted(w)
<1> USE DEF Silent, Goto, InJob, storeVars, queueVars, apiVars
<1>1. /\ wjob \in [Workers -> Jobs \cup {NoJob}]
      /\ werr \in [Workers -> Errors]
  BY DEF TypeOK, PoolTypeOK
<1>2. /\ wpc[w] \in {"errcheck", "fail"} => werr[w] # ""
      /\ wpc[w] \notin {"errcheck", "fail", "notify"} => werr[w] = ""
  BY DEF Reported, ReportsTruly
<1>3. CASE PopStop(w) \/ CheckGo(w) \/ RegisterJob(w)
  BY <1>2, <1>3 DEF PopStop, CheckGo, RegisterJob
<1>4. CASE CheckSkip(w) \/ Finish(w)
  <2>1. /\ wpc[w] \in {"check", "finish"} /\ wpc' = [wpc EXCEPT ![w] = "pop"]
        /\ wjob' = [wjob EXCEPT ![w] = NoJob] /\ werr' = werr
        /\ UNCHANGED <<results, jobs, payload, hooks, spc, reply>>
    BY <1>4 DEF CheckSkip, Finish
  <2>2. werr'[w] = "" /\ \A v \in Workers \ {w} : wjob'[v] = wjob[v]
    BY <1>1, <1>2, <2>1
  <2>3. "pop" \notin InJob /\ "pop" \notin {"errcheck", "fail"}
    OBVIOUS
  <2> HIDE DEF InJob
  <2> QED
    BY <2>1, <2>2, <2>3
<1>5. CASE RenderOK(w) \/ RenderRetry(w) \/ BackoffElapsed(w)
  BY <1>2, <1>5 DEF RenderOK, RenderRetry, BackoffElapsed
<1>6. CASE RenderGiveUp(w) \/ BackoffCanceled(w)
  <2>1. CASE RenderGiveUp(w)
    BY <1>1, <2>1 DEF RenderGiveUp, RenderErrors
  <2>2. CASE BackoffCanceled(w)
    BY <1>1, <2>2 DEF BackoffCanceled
  <2> QED
    BY <1>6, <2>1, <2>2
<1>7. CASE ErrCanceled(w) \/ OkCanceled(w)
  <2>1. /\ wpc[w] \in {"errcheck", "okcheck"} /\ wpc' = [wpc EXCEPT ![w] = "finish"]
        /\ wjob' = wjob /\ werr' = [werr EXCEPT ![w] = ""]
        /\ UNCHANGED <<results, jobs, payload, hooks, spc, reply>>
    BY <1>7 DEF ErrCanceled, OkCanceled, Discard
  <2>2. werr'[w] = "" /\ \A v \in Workers \ {w} : werr'[v] = werr[v]
    BY <1>1, <2>1
  <2>3. /\ "finish" \in InJob \ {"notify"} /\ "finish" \notin {"errcheck", "fail"}
        /\ wpc[w] \in InJob
    BY <2>1
  <2> HIDE DEF InJob
  <2> QED
    BY <2>1, <2>2, <2>3
<1>8. CASE ErrFailed(w)
  BY <1>1, <1>2, <1>8 DEF ErrFailed, StatusErr
<1>9. CASE OkStore(w) \/ PutOK(w)
  BY <1>2, <1>9 DEF OkStore, PutOK
<1>10. CASE PutFailed(w)
  BY <1>1, <1>10 DEF PutFailed
<1> QED
  BY <1>3, <1>4, <1>5, <1>6, <1>7, <1>8, <1>9, <1>10 DEF WorkerStep

\* The one event of a job is sent after its last write by the worker that
\* made it, and nobody but a canceller writes to that record again.
LEMMA NextReports ==
  ASSUME TypeOK, HoldsJob, Placement, Records, Reports, [Next]_vars
  PROVE  Reports'
<1> USE DEF storeVars, queueVars, registryVars, workerVars, apiVars
<1>1. /\ wpc \in [Workers -> InJob \cup {"pop", "stopped"}]
      /\ wjob \in [Workers -> Jobs \cup {NoJob}]
      /\ werr \in [Workers -> Errors]
      /\ hooks \in [Jobs -> Seq({"completed", "failed"})]
      /\ spc \in [Jobs -> {"idle", "init", "push", "rollback", "count", "done"}]
      /\ reply \in [Jobs -> Reply]
      /\ jobs \in Seq(Jobs) /\ payload \in [Jobs -> Payload]
  BY DEF TypeOK, PoolTypeOK, ApiTypeOK, QueueTypeOK
<1>2. Recorded /\ HeldOnce /\ Placed /\ Replied /\ Reported /\ WebhookAgrees
  BY DEF Records, Placement, Reports
<1>3. \A w \in Workers : wpc[w] \in InJob => wjob[w] \in Jobs
  BY DEF HoldsJob
<1>4. CASE UNCHANGED <<results, jobs, payload, hooks, spc, reply, wpc, wjob, werr>>
  BY <1>4 DEF Reports, Reported, ReportsTruly, WebhookAgrees, InQueue, Accepted,
              Unreported, NotifiedStatus
<1>5. ASSUME NEW w \in Workers, Silent(w) PROVE Reports'
  <2>1. UNCHANGED <<results, jobs, payload, hooks, spc, reply>>
    BY <1>5 DEF Silent
  <2>2. WebhookAgrees'
    BY <1>2, <2>1 DEF WebhookAgrees
  <2>3. \A j \in Jobs : ~Accepted(j)' \/ InQueue(j)' => hooks'[j] = <<>>
    BY <1>2, <2>1 DEF Reported, InQueue, Accepted
  <2>4. \A v \in Workers \ {w} :
          wpc'[v] = wpc[v] /\ wjob'[v] = wjob[v] /\ werr'[v] = werr[v]
    BY <1>1, <1>5 DEF Silent
  <2>5. /\ wpc'[w] # "notify"
        /\ Unreported(w)' => Unreported(w) /\ wjob'[w] = wjob[w]
        /\ werr'[w] = "" <=> wpc'[w] \notin {"errcheck", "fail"}
    BY <1>1, <1>5 DEF Silent, Unreported, InJob
  <2>6. ReportsTruly(w)'
    BY <1>2, <2>1, <2>5 DEF Reported, ReportsTruly
  <2>7. \A v \in Workers \ {w} : ReportsTruly(v)'
    BY <1>2, <2>1, <2>4 DEF Reported, ReportsTruly, Unreported, NotifiedStatus
  <2> QED
    BY <2>2, <2>3, <2>6, <2>7 DEF Reports, Reported
<1>6. ASSUME NEW w \in Workers, NEW j \in Jobs, Take(w, j), hooks[j] = <<>>,
             UNCHANGED <<results, payload>>,
             \A i \in Jobs : ~Accepted(i)' \/ InQueue(i)' => hooks[i] = <<>>
      PROVE  Reports'
  <2>1. /\ wpc[w] = "pop" /\ wpc' = [wpc EXCEPT ![w] = "check"]
        /\ wjob' = [wjob EXCEPT ![w] = j]
        /\ UNCHANGED <<werr, hooks>>
    BY <1>6 DEF Take, Goto
  <2>2. WebhookAgrees'
    BY <1>2, <1>6, <2>1 DEF WebhookAgrees
  <2>3. ReportsTruly(w)'
    <3>1. werr[w] = ""
      BY <1>2, <2>1 DEF Reported, ReportsTruly
    <3>2. wpc'[w] = "check" /\ wjob'[w] = j
      BY <1>1, <2>1
    <3> QED
      BY <1>6, <2>1, <3>1, <3>2 DEF ReportsTruly, Unreported
  <2>4. ASSUME NEW v \in Workers \ {w}
        PROVE  ReportsTruly(v)'
    <3>1. wpc'[v] = wpc[v] /\ wjob'[v] = wjob[v]
      BY <1>1, <2>1
    <3>2. ReportsTruly(v)
      BY <1>2 DEF Reported
    <3> QED
      BY <1>6, <2>1, <3>1, <3>2 DEF ReportsTruly, Unreported, NotifiedStatus
  <2>5. \A i \in Jobs : ~Accepted(i)' \/ InQueue(i)' => hooks'[i] = <<>>
    BY <1>6, <2>1
  <2> QED
    BY <2>2, <2>3, <2>4, <2>5 DEF Reports, Reported
<1>7. ASSUME NEW w \in Workers, PopJob(w), UNCHANGED apiVars PROVE Reports'
  <2>1. PICK j \in Jobs : Receive(j) /\ Take(w, j)
    BY <1>7 DEF PopJob
  <2>2. InQueue(j) /\ \A i \in Jobs : InQueue(i)' => InQueue(i)
    <3>1. jobs \in Seq(Jobs) /\ Len(jobs) \in Nat
      BY <1>1
    <3>2. /\ InQueue(j) /\ Len(jobs') = Len(jobs) - 1
          /\ \A n \in 1..Len(jobs') : jobs'[n] = jobs[n + 1]
      BY <2>1, <3>1, ReceiveHead
    <3>3. \A n \in 1..Len(jobs') : n + 1 \in 1..Len(jobs)
      BY <3>1, <3>2
    <3> QED
      BY <3>2, <3>3 DEF InQueue
  <2>3. \A i \in Jobs : Accepted(i)' <=> Accepted(i)
    BY <1>7 DEF Accepted
  <2> QED
    BY <1>2, <1>6, <1>7, <2>1, <2>2, <2>3 DEF PopJob, Reported
<1>8. ASSUME NEW w \in Workers, UNCHANGED apiVars,
             MarkProcessing(w) \/ MarkFailed(w) \/ MarkCompleted(w)
      PROVE  Reports'
  <2>1. /\ wjob[w] \in Jobs
        /\ \A j \in Jobs \ {wjob[w]} : results'[j] = results[j]
        /\ \/ wpc'[w] = "register" /\ wpc[w] = "mark"
           \/ /\ wpc'[w] = "notify" /\ wpc[w] = "fail"
              /\ results'[wjob[w]].status = "failed"
           \/ /\ wpc'[w] = "notify" /\ wpc[w] = "complete"
              /\ results'[wjob[w]].status = "completed"
    BY <1>1, <1>2, <1>8, MarkRecord
       DEF MarkProcessing, MarkFailed, MarkCompleted, Goto
  <2>2. /\ \A v \in Workers \ {w} : wpc'[v] = wpc[v] /\ wjob[v] # wjob[w]
        /\ UNCHANGED <<jobs, payload, spc, reply, wjob, werr, hooks>>
    BY <1>1, <1>2, <1>8, <2>1
       DEF MarkProcessing, MarkFailed, MarkCompleted, Goto, HeldOnce
  <2>3. hooks[wjob[w]] = <<>>
    BY <1>2, <2>1 DEF Reported, ReportsTruly, Unreported, InJob
  <2>4. WebhookAgrees'
    BY <1>2, <2>1, <2>2, <2>3 DEF WebhookAgrees
  <2>5. \A j \in Jobs : ~Accepted(j)' \/ InQueue(j)' => hooks'[j] = <<>>
    BY <1>2, <2>2 DEF Reported, InQueue, Accepted
  <2>6. ReportsTruly(w)'
    BY <1>2, <2>1, <2>2, <2>3 DEF Reported, ReportsTruly, NotifiedStatus
  <2>7. ASSUME NEW v \in Workers \ {w}
        PROVE  ReportsTruly(v)'
    <3>1. wpc'[v] = wpc[v] /\ wjob'[v] = wjob[v] /\ werr'[v] = werr[v] /\ hooks' = hooks
      BY <2>2
    <3>2. wpc[v] = "notify" => results'[wjob[v]] = results[wjob[v]]
      BY <1>3, <2>1, <2>2 DEF InJob
    <3>3. ReportsTruly(v)
      BY <1>2 DEF Reported
    <3> QED
      BY <3>1, <3>2, <3>3 DEF ReportsTruly, Unreported, NotifiedStatus
  <2> QED
    BY <2>4, <2>5, <2>6, <2>7 DEF Reports, Reported
<1>9. ASSUME NEW w \in Workers, UNCHANGED apiVars, Notify(w) PROVE Reports'
  <2>1. /\ wpc[w] = "notify" /\ wpc' = [wpc EXCEPT ![w] = "finish"]
        /\ werr' = [werr EXCEPT ![w] = ""]
        /\ UNCHANGED <<results, jobs, payload, spc, reply, wjob>>
    BY <1>9 DEF Notify, Goto
  <2>2. wjob[w] \in Jobs /\ hooks[wjob[w]] = <<>>
    BY <1>2, <1>3, <2>1 DEF Reported, ReportsTruly, Unreported, InJob
  <2>3. /\ \A j \in Jobs \ {wjob[w]} : hooks'[j] = hooks[j]
        /\ \/ hooks'[wjob[w]] = <<>>
           \/ /\ payload[wjob[w]].callback
              /\ hooks'[wjob[w]] = <<NotifiedStatus(w)>>
    <3>1. Append(<<>>, NotifiedStatus(w)) = <<NotifiedStatus(w)>>
      OBVIOUS
    <3> QED
      BY <1>1, <1>9, <2>2, <3>1 DEF Notify, PostEvent
  <2>4. results[wjob[w]].status \in {NotifiedStatus(w), "canceled"}
    BY <1>2, <2>1 DEF Reported, ReportsTruly
  <2>5. WebhookAgrees'
    <3> SUFFICES ASSUME NEW j \in Jobs
                 PROVE  /\ Len(hooks'[j]) <= (IF payload[j].callback THEN 1 ELSE 0)
                        /\ hooks'[j] # <<>> =>
                             results[j].status \in {Head(hooks'[j]), "canceled"}
      BY <2>1 DEF WebhookAgrees
    <3>1. CASE hooks'[j] = hooks[j]
      BY <1>2, <3>1 DEF WebhookAgrees
    <3>2. CASE /\ j = wjob[w] /\ payload[j].callback
               /\ hooks'[j] = <<NotifiedStatus(w)>>
      BY <2>4, <3>2
    <3> QED
      BY <2>2, <2>3, <3>1, <3>2
  <2>6. Accepted(wjob[w]) /\ ~InQueue(wjob[w])
    BY <1>2, <2>2 DEF Placed, HeldOnce
  <2>7. \A j \in Jobs : ~Accepted(j)' \/ InQueue(j)' => hooks'[j] = <<>>
    <3>1. \A j \in Jobs : (Accepted(j)' <=> Accepted(j)) /\ (InQueue(j)' <=> InQueue(j))
      BY <2>1 DEF InQueue, Accepted
    <3> QED
      BY <1>2, <2>3, <2>6, <3>1 DEF Reported
  <2>8. \A v \in Workers \ {w} :
          wpc'[v] = wpc[v] /\ werr'[v] = werr[v] /\ wjob[v] # wjob[w]
    BY <1>1, <1>2, <2>1, <2>2 DEF HeldOnce
  <2>9. wpc'[w] = "finish" /\ werr'[w] = ""
    BY <1>1, <2>1
  <2>10. ReportsTruly(w)'
    BY <2>9 DEF ReportsTruly, Unreported
  <2>11. \A v \in Workers \ {w} : ReportsTruly(v)'
    <3> SUFFICES ASSUME NEW v \in Workers \ {w} PROVE ReportsTruly(v)'
      OBVIOUS
    <3>1. wpc'[v] = wpc[v] /\ werr'[v] = werr[v] /\ wjob'[v] = wjob[v]
      BY <2>1, <2>8
    <3>2. wpc[v] \in InJob => wjob[v] \in Jobs /\ hooks'[wjob[v]] = hooks[wjob[v]]
      BY <1>3, <2>3, <2>8
    <3>3. ReportsTruly(v)
      BY <1>2 DEF Reported
    <3> QED
      BY <2>1, <3>1, <3>2, <3>3 DEF ReportsTruly, Unreported, NotifiedStatus
  <2> QED
    BY <2>5, <2>7, <2>10, <2>11 DEF Reports, Reported
<1>10. ASSUME NEW j \in Jobs, hooks[j] = <<>>, \A w \in Workers : wjob[w] # j,
              \A i \in Jobs \ {j} : results'[i] = results[i] /\ payload'[i] = payload[i],
              UNCHANGED <<hooks, wpc, wjob, werr>>,
              \A i \in Jobs : ~Accepted(i)' \/ InQueue(i)' => hooks[i] = <<>>
       PROVE  Reports'
  <2>1. WebhookAgrees'
    <3>1. Len(hooks'[j]) = 0 /\ hooks'[j] = <<>>
      BY <1>10
    <3> QED
      BY <1>2, <1>10, <3>1 DEF WebhookAgrees
  <2> QED
    BY <1>2, <1>3, <1>10, <2>1
       DEF Reports, Reported, ReportsTruly, Unreported, NotifiedStatus, InJob
<1>11. ASSUME NEW j \in Jobs, SubmitStep(j) PROVE Reports'
  <2>1. CASE SubmitAccept(j)
    <3>1. \A i \in Jobs : Accepted(i)' => Accepted(i)
      BY <1>1, <2>1 DEF SubmitAccept, SubmitGoto, Answer, Accepted
    <3>2. \A i \in Jobs : Accepted(i) => Accepted(i)'
      BY <1>1, <2>1 DEF SubmitAccept, SubmitGoto, Answer, Accepted
    <3> QED
      BY <1>2, <2>1, <3>1, <3>2
         DEF SubmitAccept, Reports, Reported, ReportsTruly, WebhookAgrees,
             InQueue, Unreported, NotifiedStatus
  <2>2. CASE ~SubmitAccept(j)
    <3>1. spc[j] \in {"init", "push", "rollback"} /\ ~Accepted(j)
      BY <1>2, <1>11, <2>2
         DEF SubmitStep, SubmitInit, SubmitPush, SubmitHandoff, SubmitQueueFull,
             SubmitRollback, SubmitGoto, Replied, Accepted
    <3>2. hooks[j] = <<>> /\ \A w \in Workers : wjob[w] # j
      BY <1>2, <3>1 DEF Reported, Placed
    <3>3. \A i \in Jobs \ {j} : Accepted(i)' <=> Accepted(i)
      BY <1>1, <1>11, <2>2
         DEF SubmitStep, SubmitInit, SubmitPush, SubmitHandoff, SubmitQueueFull,
             SubmitRollback, SubmitGoto, Answer, Accepted
    <3>4. \A i \in Jobs \ {j} : InQueue(i)' => InQueue(i)
      <4>1. CASE SubmitPush(j)
        <5>1. Push(j)
          BY <4>1 DEF SubmitPush
        <5> QED
          BY <1>1, <5>1, PushLast DEF InQueue
      <4>2. CASE ~SubmitPush(j)
        BY <1>11, <2>2, <4>2
           DEF SubmitStep, SubmitInit, SubmitHandoff, SubmitQueueFull,
               SubmitRollback, InQueue
      <4> QED
        BY <4>1, <4>2
    <3>5. \A i \in Jobs : ~Accepted(i)' \/ InQueue(i)' => hooks[i] = <<>>
      BY <1>2, <3>2, <3>3, <3>4 DEF Reported
    <3>6. CASE \E w \in Workers : SubmitHandoff(j, w)
      BY <1>6, <3>2, <3>5, <3>6 DEF SubmitHandoff
    <3>7. CASE SubmitInit(j)
      BY <1>2, <1>10, <3>2, <3>5, <3>7, InitRecord DEF SubmitInit
    <3>8. CASE SubmitRollback(j)
      BY <1>10, <3>2, <3>5, <3>8, DeleteRecord DEF SubmitRollback, TypeOK
    <3>9. CASE SubmitPush(j) \/ SubmitQueueFull(j)
      BY <1>10, <3>2, <3>5, <3>9 DEF SubmitPush, SubmitQueueFull
    <3> QED
      BY <1>11, <2>2, <3>6, <3>7, <3>8, <3>9 DEF SubmitStep
  <2> QED
    BY <2>1, <2>2
<1>12. ASSUME NEW j \in Jobs, NEW req \in Requests,
              SubmitReserve(j, req) \/ SubmitIdempotent(j, req)
       PROVE  Reports'
  <2>1. spc[j] = "idle" /\ ~Accepted(j)
    BY <1>2, <1>12 DEF SubmitReserve, SubmitIdempotent, SubmitGoto, Accepted, Replied
  <2>2. hooks[j] = <<>> /\ \A w \in Workers : wjob[w] # j
    BY <1>2, <2>1 DEF Reported, Placed
  <2>3. \A i \in Jobs \ {j} : payload'[i] = payload[i] /\ (Accepted(i)' <=> Accepted(i))
    BY <1>1, <1>12 DEF SubmitReserve, SubmitIdempotent, SubmitGoto, Answer, Accepted
  <2>4. UNCHANGED <<results, jobs, hooks, wpc, wjob, werr>>
    BY <1>12 DEF SubmitReserve, ReserveIdempotencyKey, SubmitIdempotent
  <2>5. \A i \in Jobs : ~Accepted(i)' \/ InQueue(i)' => hooks[i] = <<>>
    BY <1>2, <2>2, <2>3, <2>4 DEF Reported, InQueue
  <2> QED
    BY <1>10, <2>2, <2>3, <2>4, <2>5
<1>13. ASSUME NEW c \in Cancellers, CancelWrite(c) PROVE Reports'
  <2>1. /\ cjob[c] \in Jobs /\ results'[cjob[c]].status = "canceled"
        /\ \A i \in Jobs \ {cjob[c]} : results'[i] = results[i]
        /\ UNCHANGED <<jobs, payload, hooks, spc, reply, wpc, wjob, werr>>
    BY <1>2, <1>13, CancelRecord DEF CancelWrite
  <2>2. WebhookAgrees'
    BY <1>2, <2>1 DEF WebhookAgrees
  <2> QED
    BY <1>2, <1>3, <2>1, <2>2
       DEF Reports, Reported, ReportsTruly, InQueue, Accepted, Unreported,
           NotifiedStatus, InJob
<1>14. CASE UNCHANGED outcomeVars
  BY <1>4, <1>14 DEF outcomeVars
<1> QED
  BY <1>2, <1>5, <1>7, <1>8, <1>9, <1>11, <1>12, <1>13, <1>14, ReportSteps,
     OutcomeSteps

-----------------------------------------------------------------------------
(* The dashboard's list.                                                   *)

\* RemoveFirst takes a job off a list without repetitions and keeps the rest.
LEMMA RemoveFirstDistinct ==
  ASSUME NEW S, NEW s \in Seq(S), NEW e, Contains(s, e),
         \A a, b \in 1..Len(s) : s[a] = s[b] => a = b
  PROVE  /\ \A a, b \in 1..Len(RemoveFirst(s, e)) :
              RemoveFirst(s, e)[a] = RemoveFirst(s, e)[b] => a = b
         /\ \A x : Contains(RemoveFirst(s, e), x) <=> Contains(s, x) /\ x # e
<1> DEFINE t == RemoveFirst(s, e)
<1>1. PICK n \in 1..Len(s) : s[n] = e /\ t = RemoveAt(s, n)
  BY RemoveFirstIsRemoveAt DEF Contains
<1>2. t = SubSeq(s, 1, n - 1) \o SubSeq(s, n + 1, Len(s))
  BY <1>1 DEF RemoveAt
<1>3. /\ SubSeq(s, 1, n - 1) \in Seq(S) /\ Len(SubSeq(s, 1, n - 1)) = n - 1
      /\ \A i \in 1..(n - 1) : SubSeq(s, 1, n - 1)[i] = s[i]
  BY SubSeqProperties
<1>4. /\ SubSeq(s, n + 1, Len(s)) \in Seq(S)
      /\ Len(SubSeq(s, n + 1, Len(s))) = Len(s) - n
      /\ \A i \in 1..(Len(s) - n) : SubSeq(s, n + 1, Len(s))[i] = s[n + i]
  BY SubSeqProperties
<1>5. /\ Len(t) = Len(s) - 1
      /\ \A i \in 1..Len(t) : t[i] = IF i < n THEN s[i] ELSE s[i + 1]
  <2> DEFINE u == SubSeq(s, 1, n - 1)
             v == SubSeq(s, n + 1, Len(s))
  <2>1. u \in Seq(S) /\ v \in Seq(S) /\ Len(u) = n - 1 /\ Len(v) = Len(s) - n
    BY <1>3, <1>4
  <2>2. /\ \A i \in 1..(n - 1) : u[i] = s[i]
        /\ \A i \in 1..(Len(s) - n) : v[i] = s[n + i]
    BY <1>3, <1>4
  <2>3. t = u \o v
    BY <1>2
  <2> HIDE DEF u, v, t
  <2>4. /\ Len(t) = Len(u) + Len(v)
        /\ \A i \in 1..Len(t) : t[i] = IF i <= Len(u) THEN u[i] ELSE v[i - Len(u)]
    <3>1. u \in Seq(S) /\ v \in Seq(S)
      BY <2>1
    <3>2. /\ Len(u \o v) = Len(u) + Len(v)
          /\ \A i \in 1..(Len(u) + Len(v)) :
               (u \o v)[i] = IF i <= Len(u) THEN u[i] ELSE v[i - Len(u)]
      BY <3>1, ConcatProperties
    <3> QED
      BY <2>3, <3>2
  <2>5. Len(t) = Len(s) - 1
    BY <2>1, <2>4
  <2>6. ASSUME NEW i \in 1..Len(t)
        PROVE  t[i] = IF i < n THEN s[i] ELSE s[i + 1]
    <3>1. CASE i < n
      BY <2>1, <2>2, <2>4, <3>1
    <3>2. CASE ~(i < n)
      <4>1. i - (n - 1) \in 1..(Len(s) - n) /\ n + (i - (n - 1)) = i + 1
        BY <2>5, <3>2
      <4>2. t[i] = v[i - (n - 1)]
        BY <2>1, <2>4, <3>2
      <4> QED
        BY <2>2, <3>2, <4>1, <4>2
    <3> QED
      BY <3>1, <3>2
  <2> QED
    BY <2>5, <2>6
<1> HIDE DEF t
<1>6. \A a, b \in 1..Len(t) : t[a] = t[b] => a = b
  <2> SUFFICES ASSUME NEW a \in 1..Len(t), NEW b \in 1..Len(t), t[a] = t[b]
               PROVE  a = b
    OBVIOUS
  <2> DEFINE at(i) == IF i < n THEN i ELSE i + 1
  <2>1. at(a) \in 1..Len(s) /\ at(b) \in 1..Len(s) /\ s[at(a)] = s[at(b)]
    BY <1>5
  <2>2. at(a) = at(b)
    BY <2>1
  <2> QED
    BY <1>5, <2>2
<1>7. \A x : Contains(t, x) => Contains(s, x) /\ x # e
  <2> SUFFICES ASSUME NEW x, NEW i \in 1..Len(t), t[i] = x
               PROVE  Contains(s, x) /\ x # e
    BY DEF Contains
  <2> DEFINE k == IF i < n THEN i ELSE i + 1
  <2>1. k \in 1..Len(s) /\ s[k] = x /\ k # n
    BY <1>5
  <2> QED
    BY <1>1, <2>1 DEF Contains
<1>8. \A x : Contains(s, x) /\ x # e => Contains(t, x)
  <2> SUFFICES ASSUME NEW x, NEW i \in 1..Len(s), s[i] = x, x # e
               PROVE  Contains(t, x)
    BY DEF Contains
  <2> DEFINE k == IF i < n THEN i ELSE i - 1
  <2>1. i # n
    BY <1>1
  <2>2. k \in 1..Len(t) /\ t[k] = s[i]
    BY <1>5, <2>1
  <2> QED
    BY <2>2 DEF Contains
<1> QED
  BY <1>6, <1>7, <1>8 DEF t

\* Set lists a job when it makes its record, and only then.
LEMMA SetListed ==
  ASSUME StoreTypeOK, ListedOnce, NEW j \in Jobs, NEW r \in JobResult,
         r.status # "none", Set(j, r)
  PROVE  ListedOnce'
<1>1. order \in Seq(Jobs)
  BY DEF StoreTypeOK
<1>2. \A i \in Jobs : Exists(i)' <=> Exists(i) \/ i = j
  <2>1. Merge(results[j], r).status = r.status
    BY DEF Merge, JobResult
  <2> QED
    BY <2>1 DEF Set, Exists, StoreTypeOK
<1>3. CASE Exists(j)
  BY <1>2, <1>3 DEF Set, ListedOnce
<1>4. CASE ~Exists(j)
  <2>1. order' = Append(order, j) /\ ~Contains(order, j)
    BY <1>4 DEF Set, ListedOnce
  <2>2. /\ Len(order') = Len(order) + 1 /\ order'[Len(order) + 1] = j
        /\ \A i \in 1..Len(order) : order'[i] = order[i]
    BY <1>1, <2>1, AppendProperties
  <2>3. \A a, b \in 1..Len(order') : order'[a] = order'[b] => a = b
    BY <1>1, <2>1, <2>2 DEF ListedOnce, Contains
  <2>4. \A i \in Jobs : Contains(order', i) <=> Contains(order, i) \/ i = j
    BY <1>1, <2>2 DEF Contains
  <2> QED
    BY <1>2, <2>3, <2>4 DEF ListedOnce
<1> QED
  BY <1>3, <1>4

\* Delete takes a job off the list together with its record.
LEMMA DeleteListed ==
  ASSUME StoreTypeOK, ListedOnce, NEW j \in Jobs, Delete(j)
  PROVE  ListedOnce'
<1>1. CASE ~Exists(j)
  BY <1>1 DEF Delete, storeVars, ListedOnce, Exists
<1>2. CASE Exists(j)
  <2>1. order' = RemoveFirst(order, j) /\ Contains(order, j) /\ order \in Seq(Jobs)
    BY <1>2 DEF Delete, ListedOnce, StoreTypeOK
  <2>2. \A a, b \in 1..Len(order) : order[a] = order[b] => a = b
    BY DEF ListedOnce
  <2>3. \A i \in Jobs : Exists(i)' <=> Exists(i) /\ i # j
    <3>1. results' = [results EXCEPT ![j] = NoResult]
      BY <1>2 DEF Delete
    <3> QED
      BY <3>1 DEF StoreTypeOK, Exists, NoResult
  <2>4. /\ \A a, b \in 1..Len(order') : order'[a] = order'[b] => a = b
        /\ \A x : Contains(order', x) <=> Contains(order, x) /\ x # j
    BY <2>1, <2>2, RemoveFirstDistinct
  <2> QED
    BY <2>3, <2>4 DEF ListedOnce
<1> QED
  BY <1>1, <1>2

\* Records and list are changed together.
LEMMA NextListedOnce ==
  ASSUME TypeOK, HoldsJob, ListedOnce, [Next]_vars
  PROVE  ListedOnce'
<1> USE DEF TypeOK
<1>1. CASE UNCHANGED <<results, order>>
  BY <1>1 DEF ListedOnce, Exists
<1>2. ASSUME NEW w \in Workers, WorkerStep(w), UNCHANGED apiVars
      PROVE  ListedOnce'
  <2>1. CASE MarkProcessing(w) \/ MarkFailed(w) \/ MarkCompleted(w)
    <3>1. wjob[w] \in Jobs /\ werr[w] \in Errors
      BY <2>1 DEF MarkProcessing, MarkFailed, MarkCompleted, Goto, HoldsJob,
                  InJob, PoolTypeOK
    <3>2. /\ "" \in Errors
          /\ {"processing", "failed", "completed"} \subseteq Status
      BY DEF Status, Terminal, Errors
    <3>3. \E status \in {"processing", "failed", "completed"},
             error \in Errors, pdfKey \in Jobs \cup {NoJob} :
               Write(w, status, error, pdfKey)
      BY <2>1, <3>1, <3>2 DEF MarkProcessing, MarkFailed, MarkCompleted
    <3>4. ASSUME NEW status \in {"processing", "failed", "completed"},
                 NEW error \in Errors, NEW pdfKey \in Jobs \cup {NoJob},
                 Write(w, status, error, pdfKey)
          PROVE  ListedOnce'
      <4> DEFINE r == NewResult(payload[wjob[w]], status, error, pdfKey)
      <4>1. r \in JobResult /\ r.status # "none"
        BY <3>1, <3>2, NewResultType DEF NewResult
      <4>2. Set(wjob[w], r)
        BY <3>4 DEF Write
      <4> HIDE DEF r
      <4> QED
        BY <3>1, <4>1, <4>2, SetListed
    <3> QED
      BY <3>3, <3>4
  <2>2. CASE PopJob(w) \/ CheckSkip(w) \/ Finish(w) \/ PopStop(w) \/ CheckGo(w)
             \/ RegisterJob(w)
    BY <1>1, <2>2 DEF PopJob, CheckSkip, Finish, PopStop, CheckGo, RegisterJob,
                      storeVars
  <2>3. CASE \/ RenderOK(w) \/ RenderGiveUp(w) \/ RenderRetry(w)
             \/ BackoffElapsed(w) \/ BackoffCanceled(w)
    BY <1>1, <2>3 DEF RenderOK, RenderGiveUp, RenderRetry, BackoffElapsed,
                      BackoffCanceled, storeVars
  <2>4. CASE ErrCanceled(w) \/ ErrFailed(w) \/ OkCanceled(w) \/ OkStore(w)
    BY <1>1, <2>4 DEF ErrCanceled, OkCanceled, Discard, ErrFailed, OkStore,
                      storeVars
  <2>5. CASE PutOK(w) \/ PutFailed(w) \/ Notify(w)
    BY <1>1, <2>5 DEF PutOK, PutFailed, Notify, storeVars
  <2> QED
    BY <1>2, <2>1, <2>2, <2>3, <2>4, <2>5 DEF WorkerStep
<1>3. ASSUME NEW j \in Jobs, SubmitStep(j) PROVE ListedOnce'
  <2>1. CASE SubmitInit(j)
    <3> DEFINE r == NewResult(payload[j], "pending", "", NoJob)
    <3>1. r \in JobResult /\ r.status # "none"
      BY NewResultType DEF Status, Errors, NewResult
    <3>2. Set(j, r)
      BY <2>1 DEF SubmitInit
    <3> HIDE DEF r
    <3> QED
      BY <3>1, <3>2, SetListed
  <2>2. CASE SubmitRollback(j)
    BY <2>2, DeleteListed DEF SubmitRollback
  <2>3. CASE \/ SubmitPush(j) \/ SubmitQueueFull(j) \/ SubmitAccept(j)
             \/ \E w \in Workers : SubmitHandoff(j, w)
    BY <1>1, <2>3 DEF SubmitPush, SubmitQueueFull, SubmitAccept, SubmitHandoff,
                      storeVars
  <2> QED
    BY <1>3, <2>1, <2>2, <2>3 DEF SubmitStep
<1>4. ASSUME NEW j \in Jobs, NEW req \in Requests,
             SubmitReserve(j, req) \/ SubmitIdempotent(j, req)
      PROVE  ListedOnce'
  BY <1>1, <1>4 DEF SubmitReserve, ReserveIdempotencyKey, SubmitIdempotent,
                    storeVars
<1>5. ASSUME NEW c \in Cancellers, CancelWrite(c) PROVE ListedOnce'
  <2> DEFINE r == [ccopy[c] EXCEPT !.status = "canceled",
                                   !.error = "job canceled"]
  <2>1. cjob[c] \in Jobs /\ Set(cjob[c], r)
    BY <1>5 DEF CancelWrite, CancelGoto, HoldsJob
  <2>2. "canceled" \in Status /\ "job canceled" \in Errors
    BY DEF Status, Terminal, Errors
  <2>3. r \in JobResult /\ r.status = "canceled"
    BY <2>2 DEF ApiTypeOK, JobResult
  <2> HIDE DEF r
  <2> QED
    BY <2>1, <2>3, SetListed
<1>6. CASE UNCHANGED outcomeVars
  BY <1>1, <1>6 DEF outcomeVars, storeVars
<1> QED
  BY <1>2, <1>3, <1>4, <1>5, <1>6, OutcomeSteps

-----------------------------------------------------------------------------
(* Outcomes: who may still write a record, and what RenderFinished has     *)
(* counted.                                                                *)

\* Every step of a worker that is not in the hands of PopJob keeps or drops
\* the job of that worker, and touches nobody else's.
LEMMA OwnHands ==
  ASSUME TypeOK, NEW w \in Workers, WorkerStep(w)
  PROVE  /\ \A v \in Workers \ {w} : wpc'[v] = wpc[v] /\ wjob'[v] = wjob[v]
         /\ PopJob(w) \/ (jobs' = jobs /\ wjob'[w] \in {wjob[w], NoJob})
<1>1. /\ wpc \in [Workers -> InJob \cup {"pop", "stopped"}]
      /\ wjob \in [Workers -> Jobs \cup {NoJob}]
  BY DEF TypeOK, PoolTypeOK
<1> USE <1>1 DEF Goto, queueVars
<1>2. CASE PopJob(w)
  BY <1>2 DEF PopJob, Take
<1>3. CASE \/ PopStop(w) \/ CheckGo(w) \/ MarkProcessing(w) \/ RegisterJob(w)
           \/ CheckSkip(w) \/ Finish(w)
  BY <1>3 DEF PopStop, CheckGo, MarkProcessing, RegisterJob, CheckSkip, Finish
<1>4. CASE \/ RenderOK(w) \/ RenderGiveUp(w) \/ RenderRetry(w)
           \/ BackoffElapsed(w) \/ BackoffCanceled(w)
  BY <1>4 DEF RenderOK, RenderGiveUp, RenderRetry, BackoffElapsed,
              BackoffCanceled
<1>5. CASE ErrCanceled(w) \/ ErrFailed(w) \/ MarkFailed(w) \/ OkCanceled(w)
  BY <1>5 DEF ErrCanceled, OkCanceled, Discard, ErrFailed, MarkFailed
<1>6. CASE OkStore(w) \/ PutOK(w) \/ PutFailed(w) \/ MarkCompleted(w) \/ Notify(w)
  BY <1>6 DEF OkStore, PutOK, PutFailed, MarkCompleted, Notify
<1> QED
  BY <1>2, <1>3, <1>4, <1>5, <1>6 DEF WorkerStep

\* The job a step of w takes is one from the channel.
LEMMA PoppedWasQueued ==
  ASSUME TypeOK, NEW w \in Workers, PopJob(w)
  PROVE  /\ wjob'[w] \in Jobs /\ InQueue(wjob'[w])
         /\ wpc' = [wpc EXCEPT ![w] = "check"]
         /\ \A i \in Jobs : InQueue(i)' => InQueue(i)
<1>1. jobs \in Seq(Jobs) /\ wjob \in [Workers -> Jobs \cup {NoJob}]
  BY DEF TypeOK, QueueTypeOK, PoolTypeOK
<1>2. PICK j \in Jobs : Receive(j) /\ Take(w, j)
  BY DEF PopJob
<1>3. wjob'[w] = j /\ wpc' = [wpc EXCEPT ![w] = "check"]
  BY <1>1, <1>2 DEF Take, Goto
<1>4. InQueue(j) /\ \A i \in Jobs : InQueue(i)' => InQueue(i)
  <2>1. /\ InQueue(j) /\ Len(jobs) > 0 /\ Len(jobs') = Len(jobs) - 1
        /\ \A i \in 1..Len(jobs') : jobs'[i] = jobs[i + 1]
    BY <1>1, <1>2, ReceiveHead
  <2> QED
    BY <1>1, <2>1 DEF InQueue
<1> QED
  BY <1>3, <1>4

\* What a step outside the workers does to the places of jobs: an accepted
\* job stays accepted, and only an unaccepted one is put anywhere.
LEMMA AcceptedStays ==
  ASSUME TypeOK, HoldsJob, Placement, [Next]_vars, NEW j \in Jobs, Accepted(j)
  PROVE  /\ Accepted(j)'
         /\ InQueue(j)' => InQueue(j)
<1>1. /\ jobs \in Seq(Jobs) /\ Replied
      /\ spc \in [Jobs -> {"idle", "init", "push", "rollback", "count", "done"}]
      /\ reply \in [Jobs -> Reply]
  BY DEF TypeOK, QueueTypeOK, ApiTypeOK, Placement
<1>2. spc[j] \in {"count", "done"}
  BY <1>1 DEF Accepted, Replied
<1>3. CASE UNCHANGED placeVars
  BY <1>3 DEF placeVars, Accepted, InQueue
<1>4. ASSUME NEW w \in Workers, PopJob(w), UNCHANGED <<spc, reply>>
      PROVE  Accepted(j)' /\ (InQueue(j)' => InQueue(j))
  BY <1>4, PoppedWasQueued DEF Accepted
<1>5. ASSUME NEW w \in Workers, Release(w)
      PROVE  Accepted(j)' /\ (InQueue(j)' => InQueue(j))
  BY <1>5 DEF Release, Accepted, InQueue
<1>6. ASSUME NEW i \in Jobs, SubmitPush(i)
      PROVE  Accepted(j)' /\ (InQueue(j)' => InQueue(j))
  <2>1. /\ i # j /\ spc'[j] = spc[j] /\ reply' = reply /\ Push(i)
    BY <1>1, <1>2, <1>6 DEF SubmitPush, SubmitGoto
  <2>2. /\ Len(jobs') = Len(jobs) + 1 /\ jobs'[Len(jobs) + 1] = i
        /\ \A n \in 1..Len(jobs) : jobs'[n] = jobs[n]
    BY <1>1, <2>1, PushLast
  <2> QED
    BY <1>1, <2>1, <2>2 DEF Accepted, InQueue
<1>7. ASSUME NEW i \in Jobs, Progress(i)
      PROVE  Accepted(j)' /\ (InQueue(j)' => InQueue(j))
  <2>1. UNCHANGED jobs
    BY <1>7 DEF Progress
  <2>2. Accepted(j)'
    BY <1>1, <1>7 DEF Progress, Accepted, Reply
  <2> QED
    BY <2>1, <2>2 DEF InQueue
<1>8. ASSUME NEW i \in Jobs, NEW w \in Workers, SubmitHandoff(i, w)
      PROVE  Accepted(j)' /\ (InQueue(j)' => InQueue(j))
  <2>1. i # j /\ spc'[j] = spc[j] /\ UNCHANGED <<reply, jobs>>
    BY <1>1, <1>2, <1>8 DEF SubmitHandoff, SubmitGoto, queueVars
  <2> QED
    BY <2>1 DEF Accepted, InQueue
<1> QED
  BY <1>1, <1>3, <1>4, <1>5, <1>6, <1>7, <1>8, PlacementSteps

\* A step that is not one of a worker, as in OutcomeSteps.
Outside ==
  \/ UNCHANGED outcomeVars
  \/ \E j \in Jobs, req \in Requests :
       SubmitReserve(j, req) \/ SubmitIdempotent(j, req)
  \/ \E j \in Jobs : SubmitStep(j)
  \/ \E c \in Cancellers : CancelWrite(c)

\* A step of SubmitJob or of a canceller gives a worker only a job that was
\* not accepted before.
LEMMA HandsOutside ==
  ASSUME TypeOK, HoldsJob, Placement, Outside, NEW j \in Jobs, Accepted(j)
  PROVE  \A w \in Workers : wjob'[w] = j => wjob[w] = j /\ wpc'[w] = wpc[w]
<1> USE DEF storeVars, queueVars, registryVars, workerVars, apiVars
<1>1. /\ wpc \in [Workers -> InJob \cup {"pop", "stopped"}]
      /\ wjob \in [Workers -> Jobs \cup {NoJob}] /\ Replied
  BY DEF TypeOK, PoolTypeOK, Placement
<1>2. CASE UNCHANGED <<wpc, wjob>>
  BY <1>2
<1>3. ASSUME NEW i \in Jobs, SubmitStep(i)
      PROVE  \A w \in Workers : wjob'[w] = j => wjob[w] = j /\ wpc'[w] = wpc[w]
  <2>1. ASSUME NEW w \in Workers, SubmitHandoff(i, w)
        PROVE  \A v \in Workers : wjob'[v] = j => wjob[v] = j /\ wpc'[v] = wpc[v]
    <3>1. i # j
      BY <1>1, <2>1 DEF SubmitHandoff, SubmitGoto, Accepted, Replied
    <3> QED
      BY <1>1, <2>1, <3>1 DEF SubmitHandoff, Take, Goto
  <2> QED
    BY <1>2, <1>3, <2>1 DEF SubmitStep, SubmitInit, SubmitPush,
       SubmitQueueFull, SubmitRollback, SubmitAccept
<1>4. CASE \E i \in Jobs, req \in Requests :
             SubmitReserve(i, req) \/ SubmitIdempotent(i, req)
  BY <1>2, <1>4 DEF SubmitReserve, SubmitIdempotent
<1>5. CASE \E c \in Cancellers : CancelWrite(c)
  BY <1>2, <1>5 DEF CancelWrite
<1>6. CASE UNCHANGED outcomeVars
  BY <1>2, <1>6 DEF outcomeVars
<1> QED
  BY <1>3, <1>4, <1>5, <1>6 DEF Outside

\* A worker that has not written the outcome of j yet leaves "notify" and
\* "finish" only by letting go of its job.
LEMMA NextEnded ==
  ASSUME TypeOK, HoldsJob, Placement, Records, Ended, [Next]_vars
  PROVE  Ended'
<1> USE DEF storeVars, queueVars, registryVars, workerVars, apiVars
<1>1. /\ wpc \in [Workers -> InJob \cup {"pop", "stopped"}]
      /\ wjob \in [Workers -> Jobs \cup {NoJob}]
  BY DEF TypeOK, PoolTypeOK
<1>2. Recorded /\ HeldOnce /\ Placed /\ Replied
  BY DEF Records, Placement
<1> SUFFICES ASSUME NEW j \in Jobs, results'[j].status \in {"completed", "failed"}
             PROVE  /\ Accepted(j)' /\ ~InQueue(j)'
                    /\ \A w \in Workers :
                         wjob'[w] = j => wpc'[w] \in {"notify", "finish"}
  BY DEF Ended
<1>3. ASSUME results[j].status \in {"completed", "failed"},
             \A w \in Workers : wjob'[w] = j /\ wjob[w] = j
               /\ wpc[w] \in {"notify", "finish"} => wpc'[w] \in {"notify", "finish"},
             \A w \in Workers : wjob'[w] = j => wjob[w] = j
      PROVE  /\ Accepted(j)' /\ ~InQueue(j)'
             /\ \A w \in Workers :
                  wjob'[w] = j => wpc'[w] \in {"notify", "finish"}
  BY <1>3, AcceptedStays DEF Ended
<1>4. ASSUME NEW w \in Workers, WorkerStep(w), UNCHANGED apiVars
      PROVE  /\ Accepted(j)' /\ ~InQueue(j)'
             /\ \A v \in Workers :
                  wjob'[v] = j => wpc'[v] \in {"notify", "finish"}
  <2>1. CASE PopJob(w)
    <3>1. UNCHANGED results /\ wjob'[w] \in Jobs /\ InQueue(wjob'[w])
      BY <2>1, PoppedWasQueued DEF PopJob
    <3>2. wjob'[w] # j
      BY <3>1 DEF Ended
    <3> QED
      BY <1>3, <1>4, <3>1, <3>2, OwnHands
  <2>2. CASE MarkProcessing(w) \/ MarkFailed(w) \/ MarkCompleted(w)
    <3>1. /\ wjob[w] \in Jobs /\ Accepted(wjob[w])
          /\ \A i \in Jobs \ {wjob[w]} : results'[i] = results[i]
          /\ wjob' = wjob /\ jobs' = jobs
      BY <1>2, <2>2, MarkRecord DEF MarkProcessing, MarkFailed, MarkCompleted
    <3>2. CASE wjob[w] = j
      <4>1. ~MarkProcessing(w)
        BY <1>2, <2>2, <3>2, MarkRecord DEF MarkProcessing, MarkFailed,
           MarkCompleted, Goto
      <4>2. wpc'[w] = "notify"
        BY <1>1, <2>2, <4>1 DEF MarkFailed, MarkCompleted, Goto
      <4>3. ~InQueue(j) /\ \A v \in Workers : wjob[v] = j => v = w
        BY <1>2, <3>1, <3>2 DEF HeldOnce
      <4> QED
        BY <3>1, <3>2, <4>2, <4>3, AcceptedStays
    <3>3. CASE wjob[w] # j
      BY <1>3, <1>4, <3>1, <3>3, OwnHands
    <3> QED
      BY <3>2, <3>3
  <2>3. CASE ~PopJob(w) /\ UNCHANGED results
    <3>1. \A v \in Workers : wjob'[v] = j => wjob[v] = j
      BY <1>4, <2>3, OwnHands, NoJobAssumption
    <3>2. wjob'[w] = j /\ wjob[w] = j /\ wpc[w] \in {"notify", "finish"}
            => wpc'[w] \in {"notify", "finish"}
      BY <1>1, <1>4, NoJobAssumption
         DEF WorkerStep, PopJob, PopStop, CheckSkip, CheckGo, MarkProcessing,
             RegisterJob, RenderOK, RenderGiveUp, RenderRetry, BackoffElapsed,
             BackoffCanceled, ErrCanceled, OkCanceled, Discard, ErrFailed,
             MarkFailed, OkStore, PutOK, PutFailed, MarkCompleted, Notify,
             Finish, Take, Goto
    <3> QED
      BY <1>3, <1>4, <2>3, <3>1, <3>2, OwnHands
  <2>4. \/ PopJob(w) \/ MarkProcessing(w) \/ MarkFailed(w) \/ MarkCompleted(w)
        \/ UNCHANGED results
    BY <1>4, CarrySteps DEF Carries, CheckSkip, Finish
  <2> QED
    BY <2>1, <2>2, <2>3, <2>4
<1>5. ASSUME Outside
      PROVE  /\ Accepted(j)' /\ ~InQueue(j)'
             /\ \A w \in Workers :
                  wjob'[w] = j => wpc'[w] \in {"notify", "finish"}
  <2>1. results[j].status \in {"completed", "failed"}
    <3>1. CASE UNCHANGED results
      BY <3>1
    <3>2. ASSUME NEW i \in Jobs, SubmitStep(i) PROVE results'[j] = results[j]
      <4>1. CASE SubmitInit(i)
        BY <1>2, <4>1, InitRecord DEF SubmitInit, SubmitGoto
      <4>2. CASE SubmitRollback(i)
        BY <1>2, <4>2, DeleteRecord DEF SubmitRollback, TypeOK
      <4> QED
        BY <3>2, <4>1, <4>2 DEF SubmitStep, SubmitPush, SubmitHandoff,
                                SubmitQueueFull, SubmitAccept
    <3>3. CASE \E i \in Jobs, req \in Requests :
                 SubmitReserve(i, req) \/ SubmitIdempotent(i, req)
      BY <3>3 DEF SubmitReserve, ReserveIdempotencyKey, SubmitIdempotent
    <3>4. ASSUME NEW c \in Cancellers, CancelWrite(c) PROVE results'[j] = results[j]
      BY <1>2, <3>4, CancelRecord
    <3> QED
      BY <1>5, <3>1, <3>2, <3>3, <3>4 DEF Outside, outcomeVars
  <2>2. \A w \in Workers : wjob'[w] = j => wjob[w] = j /\ wpc'[w] = wpc[w]
    BY <1>5, <2>1, HandsOutside DEF Ended
  <2> QED
    BY <1>3, <2>1, <2>2
<1> QED
  BY <1>4, <1>5, OutcomeSteps DEF Outside

\* Worker w counts its job: it had not before, and goes on past the count.
Tally(w) ==
  /\ wpc[w] \in InJob \ PastCount /\ wpc'[w] \in PastCount
  /\ FinishedTotal' = FinishedTotal + 1
  /\ UNCHANGED <<jobs, wjob>>

\* A step of a worker counts its job, or counts nothing and does not take a
\* job back that was counted.
LEMMA TallySteps ==
  ASSUME TypeOK, HoldsJob, NEW w \in Workers, WorkerStep(w)
  PROVE  \/ Tally(w)
         \/ /\ metrics' = metrics
            /\ wpc[w] \in PastCount => wpc'[w] \in PastCount \/ wjob'[w] = NoJob
<1> USE DEF InJob, PastCount, Goto, queueVars
<1>1. /\ wpc \in [Workers -> InJob \cup {"pop", "stopped"}]
      /\ wjob \in [Workers -> Jobs \cup {NoJob}]
  BY DEF TypeOK, PoolTypeOK
<1>2. ASSUME NEW s \in Terminal, RenderFinished(s)
      PROVE  FinishedTotal' = FinishedTotal + 1
  <2>1. /\ metrics.finished \in [Terminal -> Nat]
        /\ metrics' = [metrics EXCEPT !.finished =
                         [metrics.finished EXCEPT ![s] = metrics.finished[s] + 1]]
        /\ metrics \in [submitted : Nat, rejected : [Reasons -> Nat],
                        finished : [Terminal -> Nat]]
    BY <1>2 DEF RenderFinished, TypeOK, MetricsTypeOK
  <2>2. metrics'.finished = [metrics.finished EXCEPT ![s] = metrics.finished[s] + 1]
    BY <2>1
  <2> QED
    BY <1>2, <2>1, <2>2 DEF FinishedTotal, Terminal
<1>3. CASE ErrCanceled(w) \/ OkCanceled(w)
  <2>1. RenderFinished("canceled") /\ "canceled" \in Terminal
    BY <1>3 DEF ErrCanceled, OkCanceled, Discard, Terminal
  <2> QED
    BY <1>1, <1>2, <1>3, <2>1 DEF ErrCanceled, OkCanceled, Discard, Tally
<1>4. CASE ErrFailed(w) \/ PutFailed(w)
  <2>1. RenderFinished("failed") /\ "failed" \in Terminal
    BY <1>4 DEF ErrFailed, PutFailed, Terminal
  <2> QED
    BY <1>1, <1>2, <1>4, <2>1 DEF ErrFailed, PutFailed, Tally
<1>5. CASE MarkCompleted(w)
  <2>1. RenderFinished("completed") /\ "completed" \in Terminal
    BY <1>5 DEF MarkCompleted, Terminal
  <2> QED
    BY <1>1, <1>2, <1>5, <2>1 DEF MarkCompleted, Tally
<1>6. CASE \/ PopJob(w) \/ PopStop(w) \/ CheckSkip(w) \/ CheckGo(w)
           \/ MarkProcessing(w) \/ RegisterJob(w)
  BY <1>1, <1>6 DEF PopJob, Take, PopStop, CheckSkip, CheckGo, MarkProcessing,
                    RegisterJob
<1>7. CASE \/ RenderOK(w) \/ RenderGiveUp(w) \/ RenderRetry(w)
           \/ BackoffElapsed(w) \/ BackoffCanceled(w)
  BY <1>1, <1>7 DEF RenderOK, RenderGiveUp, RenderRetry, BackoffElapsed,
                    BackoffCanceled
<1>8. CASE \/ MarkFailed(w) \/ OkStore(w) \/ PutOK(w) \/ Notify(w) \/ Finish(w)
  BY <1>1, <1>8 DEF MarkFailed, OkStore, PutOK, Notify, Finish
<1> QED
  BY <1>3, <1>4, <1>5, <1>6, <1>7, <1>8 DEF WorkerStep

\* Nobody else calls RenderFinished.
LEMMA NoTallyOutside ==
  ASSUME TypeOK, [Next]_vars
  PROVE  \/ \E w \in Workers : WorkerStep(w) /\ UNCHANGED apiVars
         \/ Outside /\ FinishedTotal' = FinishedTotal
<1> USE DEF storeVars, queueVars, registryVars, workerVars, apiVars, poolVars,
            vars
<1>1. CASE metrics' = metrics
  BY <1>1, OutcomeSteps DEF Outside, FinishedTotal
<1>2. ASSUME JobSubmitted \/ \E reason \in Reasons : JobRejected(reason)
      PROVE  FinishedTotal' = FinishedTotal
  BY <1>2 DEF JobSubmitted, JobRejected, FinishedTotal, TypeOK, MetricsTypeOK
<1>3. ASSUME NEW req \in Requests, SubmitInvalid(req)
      PROVE  FinishedTotal' = FinishedTotal
  <2>1. Rejection(req) \in Reasons /\ JobRejected(Rejection(req))
    BY <1>3 DEF SubmitInvalid, Rejection, Reasons
  <2> QED
    BY <1>2, <2>1
<1>4. ASSUME NEW j \in Jobs, SubmitRollback(j) \/ SubmitAccept(j)
      PROVE  FinishedTotal' = FinishedTotal
  <2>1. JobSubmitted \/ JobRejected("queue_full")
    BY <1>4 DEF SubmitRollback, SubmitAccept
  <2> QED
    BY <1>2, <2>1 DEF Reasons
<1>5. \/ \E w \in Workers : WorkerStep(w) /\ UNCHANGED apiVars
      \/ metrics' = metrics
      \/ \E req \in Requests : SubmitInvalid(req)
      \/ \E j \in Jobs : SubmitRollback(j) \/ SubmitAccept(j)
  BY DEF Next, NewSubmit, SubmitReserve, SubmitIdempotent, SubmitAct, SubmitStep,
         SubmitInit, SubmitPush, SubmitHandoff, SubmitQueueFull, NewCancel,
         CancelRead, CancelAct, CancelStep, CancelWrite, CancelSignal, WorkerAct,
         Quit, ShutdownDone, ShutdownTimeout, WaitDone, WaitTimeout, Exited
<1> QED
  BY <1>1, <1>3, <1>4, <1>5, OutcomeSteps DEF Outside

\* Accepting one more job leaves the accepted jobs finite.
LEMMA AcceptsOne ==
  ASSUME TypeOK, HoldsJob, Placement, [Next]_vars,
         IsFiniteSet({j \in Jobs : Accepted(j)})
  PROVE  IsFiniteSet({j \in Jobs : Accepted(j)}')
<1> DEFINE A == {j \in Jobs : Accepted(j)}
<1>1. /\ Replied
      /\ spc \in [Jobs -> {"idle", "init", "push", "rollback", "count", "done"}]
      /\ reply \in [Jobs -> Reply]
  BY DEF TypeOK, ApiTypeOK, Placement
<1>2. \E i : A' \subseteq A \cup {i}
  <2>1. CASE UNCHANGED <<spc, reply>>
    BY <2>1 DEF Accepted
  <2>2. ASSUME NEW i \in Jobs, \A k \in Jobs \ {i} : spc'[k] = spc[k] /\ reply'[k] = reply[k]
        PROVE  A' \subseteq A \cup {i}
    BY <2>2 DEF Accepted
  <2>3. ASSUME NEW i \in Jobs, SubmitPush(i) \/ Progress(i)
                               \/ \E w \in Workers : SubmitHandoff(i, w)
        PROVE  \A k \in Jobs \ {i} : spc'[k] = spc[k] /\ reply'[k] = reply[k]
    BY <1>1, <2>3 DEF SubmitPush, SubmitHandoff, SubmitGoto, Progress
  <2> QED
    BY <1>1, <2>1, <2>2, <2>3, PlacementSteps DEF placeVars, Release
<1>3. PICK i : A' \subseteq A \cup {i}
  BY <1>2
<1>4. IsFiniteSet(A \cup {i})
  BY FS_AddElement
<1> QED
  BY <1>3, <1>4, FS_Subset

\* A job counted once is never counted again.
LEMMA NextCountedOnce ==
  ASSUME TypeOK, HoldsJob, Placement, CountedOnce, [Next]_vars
  PROVE  CountedOnce'
<1> DEFINE A == {j \in Jobs : Accepted(j)}
           C == {j \in Jobs : Counted(j)}
<1>1. /\ wjob \in [Workers -> Jobs \cup {NoJob}]
      /\ HeldOnce /\ Placed
  BY DEF TypeOK, PoolTypeOK, Placement
<1>2. FinishedTotal \in Nat
  BY DEF FinishedTotal, TypeOK, MetricsTypeOK, Terminal
<1>3. IsFiniteSet(A) /\ IsFiniteSet(A') /\ FinishedTotal <= Cardinality(C)
  BY AcceptsOne DEF CountedOnce
<1>4. IsFiniteSet(C) /\ IsFiniteSet(C')
  <2>1. C \subseteq A /\ C' \subseteq A'
    BY DEF Counted
  <2> QED
    BY <1>3, <2>1, FS_Subset
<1>5. Cardinality(C) \in Nat /\ Cardinality(C') \in Nat
  BY <1>4, FS_CardinalityType
<1>6. ASSUME NEW w \in Workers, WorkerStep(w) PROVE C \subseteq C'
  <2> SUFFICES ASSUME NEW j \in Jobs, Counted(j) PROVE Counted(j)'
    OBVIOUS
  <2>1. Accepted(j)' /\ ~InQueue(j)'
    BY AcceptedStays DEF Counted
  <2>2. ASSUME NEW v \in Workers, wjob'[v] = j PROVE wpc'[v] \in PastCount
    <3>1. wjob[v] = j
      <4>1. CASE v = w /\ PopJob(w)
        BY <2>2, <4>1, PoppedWasQueued DEF Counted
      <4> QED
        BY <1>6, <2>2, <4>1, OwnHands, NoJobAssumption
    <3>2. wpc[v] \in PastCount
      BY <3>1 DEF Counted
    <3> QED
      BY <1>6, <2>2, <3>2, OwnHands, TallySteps, NoJobAssumption DEF Tally
  <2> QED
    BY <2>1, <2>2 DEF Counted
<1>7. ASSUME Outside PROVE C \subseteq C'
  <2> SUFFICES ASSUME NEW j \in Jobs, Counted(j) PROVE Counted(j)'
    OBVIOUS
  <2> QED
    BY <1>7, AcceptedStays, HandsOutside DEF Counted
<1>8. ASSUME NEW w \in Workers, Tally(w), WorkerStep(w)
      PROVE  FinishedTotal' <= Cardinality(C')
  <2> DEFINE j == wjob[w]
  <2>1. j \in Jobs /\ wjob' = wjob /\ jobs' = jobs
    BY <1>8 DEF Tally, HoldsJob
  <2>2. j \notin C
    BY <1>8 DEF Counted, Tally
  <2>3. j \in C'
    <3>1. Accepted(j) /\ ~InQueue(j) /\ \A v \in Workers : wjob[v] = j => v = w
      BY <1>1, <2>1 DEF Placed, HeldOnce
    <3>2. Accepted(j)' /\ ~InQueue(j)'
      BY <2>1, <3>1, AcceptedStays
    <3>3. \A v \in Workers : wjob'[v] = j => wpc'[v] \in PastCount
      BY <1>8, <2>1, <3>1 DEF Tally
    <3> QED
      BY <2>1, <3>2, <3>3 DEF Counted
  <2> HIDE DEF j
  <2>4. C \cup {j} \subseteq C'
    BY <1>6, <1>8, <2>3
  <2>5. /\ IsFiniteSet(C \cup {j})
        /\ Cardinality(C \cup {j}) = Cardinality(C) + 1
    BY <1>4, <2>2, FS_AddElement
  <2>6. Cardinality(C \cup {j}) <= Cardinality(C')
    BY <1>4, <2>4, FS_Subset
  <2>7. FinishedTotal' = FinishedTotal + 1
    BY <1>8 DEF Tally
  <2> HIDE DEF C
  <2> QED
    BY <1>2, <1>3, <1>5, <2>5, <2>6, <2>7
<1>9. ASSUME C \subseteq C', FinishedTotal' = FinishedTotal
      PROVE  FinishedTotal' <= Cardinality(C')
  <2>1. Cardinality(C) <= Cardinality(C')
    BY <1>4, <1>9, FS_Subset
  <2> HIDE DEF C
  <2> QED
    BY <1>2, <1>3, <1>5, <1>9, <2>1
<1>10. FinishedTotal' <= Cardinality(C')
  <2>1. ASSUME NEW w \in Workers, WorkerStep(w)
        PROVE  FinishedTotal' <= Cardinality(C')
    <3>1. CASE Tally(w)
      BY <1>8, <2>1, <3>1
    <3>2. CASE metrics' = metrics
      <4>1. FinishedTotal' = FinishedTotal
        BY <3>2 DEF FinishedTotal
      <4> QED
        BY <1>6, <1>9, <2>1, <4>1
    <3> QED
      BY <2>1, <3>1, <3>2, TallySteps
  <2> QED
    BY <1>7, <1>9, <2>1, NoTallyOutside
<1> QED
  BY <1>3, <1>10 DEF CountedOnce

-----------------------------------------------------------------------------
(* The whole inductive invariant.                                          *)

\* Push's select sends only while the channel has room.
LEMMA NextBounded ==
  ASSUME TypeOK, HoldsJob, Replied, Bounded, [Next]_vars
  PROVE  Bounded'
<1>1. jobs \in Seq(Jobs) /\ Len(jobs) \in Nat /\ QueueSize \in Nat
  BY QueueSizeAssumption DEF TypeOK, QueueTypeOK
<1>2. CASE UNCHANGED jobs
  BY <1>2 DEF Bounded
<1>3. ASSUME NEW w \in Workers, PopJob(w) PROVE Bounded'
  <2>1. PICK j \in Jobs : Receive(j)
    BY <1>3 DEF PopJob
  <2>2. Len(jobs') = Len(jobs) - 1
    BY <1>1, <2>1, ReceiveHead
  <2> QED
    BY <1>1, <2>2 DEF Bounded
<1>4. ASSUME NEW j \in Jobs, SubmitPush(j) PROVE Bounded'
  <2>1. Push(j) /\ Len(jobs) < QueueSize
    BY <1>4 DEF SubmitPush, Push, HasRoom
  <2>2. Len(jobs') = Len(jobs) + 1
    BY <1>1, <2>1, PushLast
  <2> QED
    BY <1>1, <2>1, <2>2 DEF Bounded
<1> QED
  BY <1>2, <1>3, <1>4, PlacementSteps
     DEF placeVars, Release, Progress, SubmitHandoff, queueVars

\* The invariant holds before the first request.
LEMMA InitIInv == Init => IInv
<1> SUFFICES ASSUME Init PROVE IInv
  OBVIOUS
<1>1. TypeOK /\ HoldsJob /\ Placement /\ Records
  BY InitType, InitPlacement, InitRecords
<1>2. \A j \in Jobs : results[j].status = "none" /\ hooks[j] = <<>> /\ cancels[j] = NoWorker
  BY DEF Init, StoreInit, PoolInit, RegistryInit, NoResult
<1>3. \A w \in Workers : wpc[w] = "pop" /\ werr[w] = ""
  BY DEF Init, PoolInit
<1>4. BlobFirst /\ NoStrandedJob
  BY <1>2, <1>3 DEF BlobFirst, NoStrandedJob
<1>5. Reported
  BY <1>2, <1>3 DEF Reported, ReportsTruly, Unreported, InJob
<1>6. RenderIsCancelable
  BY <1>2, <1>3, NoWorkerAssumption DEF RenderIsCancelable, InJob
<1>7. WebhookAgrees
  <2>1. \A j \in Jobs : Len(hooks[j]) = 0
    BY <1>2
  <2> QED
    BY <1>2, <2>1 DEF WebhookAgrees
<1>8. ListedOnce
  <2>1. order = <<>>
    BY DEF Init, StoreInit
  <2> QED
    BY <1>2, <2>1 DEF ListedOnce, Contains, Exists
<1>9. Bounded
  <2>1. Len(jobs) = 0
    BY DEF Init, QueueInit
  <2> QED
    BY <2>1, QueueSizeAssumption DEF Bounded
<1>10. Ended
  BY <1>2 DEF Ended
<1>11. CountedOnce
  <2>1. \A j \in Jobs : ~Accepted(j)
    BY DEF Init, ApiInit, Accepted
  <2>2. {j \in Jobs : Accepted(j)} = {} /\ {j \in Jobs : Counted(j)} = {}
    BY <2>1 DEF Counted
  <2>3. FinishedTotal = 0
    BY DEF Init, MetricsInit, FinishedTotal, Terminal
  <2> QED
    BY <2>2, <2>3, FS_EmptySet DEF CountedOnce
<1> QED
  BY <1>1, <1>4, <1>5, <1>6, <1>7, <1>8, <1>9, <1>10, <1>11
     DEF IInv, Placement, Records

\* Every step preserves the invariant.
LEMMA NextIInv == IInv /\ [Next]_vars => IInv'
<1> SUFFICES ASSUME IInv, [Next]_vars PROVE IInv'
  OBVIOUS
<1>1. TypeOK /\ HoldsJob /\ Placement /\ Records /\ Reports
  BY DEF IInv, Placement, Records, Reports
<1>2. TypeOK' /\ HoldsJob'
  BY <1>1, NextType
<1>3. Placement'
  BY <1>1, NextPlacement
<1>4. Records'
  BY <1>1, NextKeysOwned, NextRecorded DEF Records
<1>5. Reports'
  BY <1>1, NextReports
<1>6. RenderIsCancelable'
  BY <1>1, NextRegistry DEF IInv
<1>7. BlobFirst'
  BY <1>1, NextBlobFirst DEF IInv
<1>8. NoStrandedJob'
  BY <1>1, NextNoStrandedJob DEF IInv
<1>9. ListedOnce'
  BY <1>1, NextListedOnce DEF IInv
<1>10. Bounded'
  BY <1>1, NextBounded DEF IInv
<1>11. Ended' /\ CountedOnce'
  BY <1>1, NextEnded, NextCountedOnce DEF IInv
<1> QED
  BY <1>2, <1>3, <1>4, <1>5, <1>6, <1>7, <1>8, <1>9, <1>10, <1>11
     DEF IInv, Placement, Records, Reports

\* IInv holds in every reachable state of the process, and it is inductive:
\* store, queue, registry, blobs and callbacks agree with every goroutine's
\* place in its handler, for any number of jobs, workers and cancellers.
THEOREM IInvAlways == Spec => []IInv
BY InitIInv, NextIInv, PTL DEF Spec

\* GET /pdf/<id> of a completed job always finds the PDF.
THEOREM CompletedHasPDFAlways == Spec => []CompletedHasPDF
<1>1. IInv => CompletedHasPDF
  <2>1. IInv => BlobFirst /\ \A j \in Jobs : results[j].status # "pdf_not_found"
    BY DEF IInv, TypeOK, StoreTypeOK, JobResult, Status, Terminal
  <2> QED
    BY <2>1 DEF BlobFirst, CompletedHasPDF, GetJob
<1> QED
  BY <1>1, IInvAlways, PTL

\* No pending or processing record is without somebody who will move it on,
\* whatever cancellers and rollbacks write in between.
THEOREM NoStrandedJobAlways == Spec => []NoStrandedJob
<1>1. IInv => NoStrandedJob
  BY DEF IInv
<1> QED
  BY <1>1, IInvAlways, PTL

\* CancelJob reaches every render that is under way, and the registry keeps
\* no entry of a job whose worker is done with it.
THEOREM RenderIsCancelableAlways == Spec => []RenderIsCancelable
<1>1. IInv => RenderIsCancelable
  BY DEF IInv
<1> QED
  BY <1>1, IInvAlways, PTL

\* A callback is sent at most once, only if asked for, and agrees with the
\* record from then on unless the job is canceled late.
THEOREM WebhookAgreesAlways == Spec => []WebhookAgrees
<1>1. IInv => WebhookAgrees
  BY DEF IInv
<1> QED
  BY <1>1, IInvAlways, PTL

\* The workers call RenderFinished at most once for each job that Push took,
\* so the finished counters never add up to more than the accepted jobs.
THEOREM FinishedWithinAcceptedAlways == Spec => []FinishedWithinAccepted
<1>1. ASSUME IInv PROVE FinishedWithinAccepted
  <2> DEFINE A == {j \in Jobs : Accepted(j)}
             C == {j \in Jobs : Counted(j)}
  <2>1. IsFiniteSet(A) /\ FinishedTotal <= Cardinality(C) /\ C \subseteq A
    BY <1>1 DEF IInv, CountedOnce, Counted
  <2>2. FinishedTotal \in Nat
    BY <1>1 DEF IInv, FinishedTotal, TypeOK, MetricsTypeOK, Terminal
  <2>3. IsFiniteSet(C) /\ Cardinality(C) <= Cardinality(A)
    BY <2>1, FS_Subset
  <2>4. Cardinality(C) \in Nat /\ Cardinality(A) \in Nat
    BY <2>1, <2>3, FS_CardinalityType
  <2>5. FinishedTotal <= Cardinality(A)
    <3> HIDE DEF A, C
    <3> QED
      BY <2>1, <2>2, <2>3, <2>4
  <2> QED
    BY <2>5 DEF FinishedWithinAccepted
<1> QED
  BY <1>1, IInvAlways, PTL

\* A canceller that reads a record with an outcome does not write it: who
\* overrules an outcome has read the record before.
LEMMA NoLateOverruling ==
  ASSUME TypeOK, [Next]_vars, NEW j \in Jobs,
         results[j].status \in {"completed", "failed"},
         NEW c \in Cancellers, Overruling(c, j)'
  PROVE  Overruling(c, j)
<1> USE DEF apiVars
<1>1. /\ cpc \in [Cancellers -> {"idle", "write", "signal"}]
      /\ cjob \in [Cancellers -> Jobs \cup {NoJob}]
  BY DEF TypeOK, ApiTypeOK
<1>2. CASE UNCHANGED <<cpc, cjob>>
  BY <1>2 DEF Overruling
<1>3. CASE NewCancel
  BY <1>1, <1>3 DEF NewCancel, CancelRead, CancelGoto, Cancelable, Overruling
<1>4. CASE \E d \in Cancellers : CancelAct(d)
  BY <1>1, <1>4 DEF CancelAct, CancelStep, CancelWrite, CancelSignal, CancelGoto,
                    Overruling
<1>5. CASE NewSubmit \/ \E i \in Jobs : SubmitAct(i)
  BY <1>2, <1>5
     DEF NewSubmit, SubmitInvalid, SubmitReserve, SubmitIdempotent, SubmitAct,
         SubmitStep, SubmitInit, SubmitPush, SubmitHandoff, SubmitQueueFull,
         SubmitRollback, SubmitAccept
<1>6. CASE \E w \in Workers : WorkerAct(w)
  BY <1>2, <1>6 DEF WorkerAct
<1>7. CASE \/ Quit \/ ShutdownDone \/ ShutdownTimeout \/ WaitDone
           \/ WaitTimeout \/ UNCHANGED vars
  BY <1>2, <1>7 DEF Quit, ShutdownDone, ShutdownTimeout, WaitDone, WaitTimeout, vars
<1> QED
  BY <1>3, <1>4, <1>5, <1>6, <1>7 DEF Next, Exited

\* One step of the process leaves an outcome or is the write of a canceller
\* that had read the record before.
LEMMA OutcomeStep ==
  ASSUME IInv, [Next]_vars, NEW j \in Jobs,
         results[j].status \in {"completed", "failed"}
  PROVE  \/ results'[j].status = results[j].status
         \/ /\ results'[j].status = "canceled"
            /\ \E c \in Cancellers : Overruling(c, j)
<1> USE DEF storeVars, queueVars, registryVars, workerVars, apiVars
<1>1. /\ TypeOK /\ HoldsJob /\ Placement /\ Recorded /\ Replied
      /\ Accepted(j) /\ ~InQueue(j)
      /\ \A w \in Workers : wjob[w] = j => wpc[w] \in {"notify", "finish"}
  BY DEF IInv, Placement, Ended
<1>2. CASE UNCHANGED results
  BY <1>2
<1>3. ASSUME NEW w \in Workers, WorkerStep(w), UNCHANGED apiVars
      PROVE  results'[j] = results[j]
  <2>1. CASE MarkProcessing(w) \/ MarkFailed(w) \/ MarkCompleted(w)
    <3>1. wjob[w] # j
      BY <1>1, <2>1 DEF MarkProcessing, MarkFailed, MarkCompleted, Goto
    <3> QED
      BY <1>1, <2>1, <3>1, MarkRecord
  <2> QED
    BY <1>3, <2>1, CarrySteps DEF Carries, PopJob, CheckSkip, Finish
<1>4. ASSUME NEW i \in Jobs, SubmitStep(i) PROVE results'[j] = results[j]
  <2>1. spc[j] \in {"count", "done"}
    BY <1>1 DEF Accepted, Replied
  <2>2. CASE SubmitInit(i)
    BY <1>1, <2>1, <2>2, InitRecord DEF SubmitInit, SubmitGoto
  <2>3. CASE SubmitRollback(i)
    BY <1>1, <2>1, <2>3, DeleteRecord DEF SubmitRollback, SubmitGoto, TypeOK
  <2> QED
    BY <1>4, <2>2, <2>3 DEF SubmitStep, SubmitPush, SubmitHandoff,
                            SubmitQueueFull, SubmitAccept
<1>5. ASSUME NEW c \in Cancellers, CancelWrite(c)
      PROVE  \/ results'[j].status = results[j].status
             \/ results'[j].status = "canceled" /\ Overruling(c, j)
  <2>1. cpc[c] = "write" /\ \A i \in Jobs \ {cjob[c]} : results'[i] = results[i]
    BY <1>5 DEF CancelWrite, CancelGoto, Set, TypeOK, StoreTypeOK
  <2>2. results'[j].status \in {results[j].status, "canceled"}
    BY <1>1, <1>5, CancelRecord
  <2> QED
    BY <2>1, <2>2 DEF Overruling
<1>6. CASE \E i \in Jobs, req \in Requests :
             SubmitReserve(i, req) \/ SubmitIdempotent(i, req)
  BY <1>2, <1>6 DEF SubmitReserve, ReserveIdempotencyKey, SubmitIdempotent
<1>7. CASE UNCHANGED outcomeVars
  BY <1>2, <1>7 DEF outcomeVars
<1> QED
  BY <1>3, <1>4, <1>5, <1>6, <1>7, OutcomeSteps

\* What GetJob reports of a completed or failed job changes at most to
\* "canceled", by a canceller that had read the record before the outcome,
\* and no canceller sets out to overrule an outcome.
THEOREM OutcomeIsFinalAlways == Spec => OutcomeIsFinal
<1>1. ASSUME IInv, [Next]_vars
      PROVE  [\A j \in Jobs : results[j].status \in {"completed", "failed"} =>
               /\ \/ results'[j].status = results[j].status
                  \/ /\ results'[j].status = "canceled"
                     /\ \E c \in Cancellers : Overruling(c, j)
               /\ \A c \in Cancellers : Overruling(c, j)' => Overruling(c, j)]_vars
  <2>1. TypeOK
    BY <1>1 DEF IInv
  <2> QED
    BY <1>1, <2>1, OutcomeStep, NoLateOverruling
<1> QED
  BY <1>1, IInvAlways, PTL DEF Spec, OutcomeIsFinal

-----------------------------------------------------------------------------
(* Settled cancellations.                                                  *)

\* One step of the process leaves a settled cancellation settled.
LEMMA SettledStep ==
  ASSUME IInv, [Next]_vars, NEW j \in Jobs, CancelSettled(j)
  PROVE  CancelSettled(j)'
<1> USE DEF storeVars, queueVars, registryVars, workerVars, apiVars
<1>1. /\ wpc \in [Workers -> InJob \cup {"pop", "stopped"}]
      /\ wjob \in [Workers -> Jobs \cup {NoJob}]
      /\ spc \in [Jobs -> {"idle", "init", "push", "rollback", "count", "done"}]
      /\ reply \in [Jobs -> Reply]
  BY DEF IInv, TypeOK, PoolTypeOK, ApiTypeOK
<1>2. TypeOK /\ HoldsJob /\ Placement /\ Recorded /\ Replied
  BY DEF IInv, Placement
<1>3. /\ Accepted(j) /\ results[j].status = "canceled"
      /\ \A w \in Workers : ~Overwriting(w, j)
  BY DEF CancelSettled, IsCanceled
<1>4. spc[j] \in {"count", "done"}
  BY <1>2, <1>3 DEF Accepted, Replied
<1>5. CASE UNCHANGED <<results, wpc, wjob, spc, reply>>
  BY <1>5 DEF CancelSettled, IsCanceled, Accepted, Overwriting
<1>6. ASSUME NEW w \in Workers, WorkerStep(w), UNCHANGED apiVars
      PROVE  CancelSettled(j)'
  <2>1. Accepted(j)'
    BY <1>3, <1>6 DEF Accepted
  <2>2. CASE MarkProcessing(w) \/ MarkFailed(w) \/ MarkCompleted(w)
    <3>1. /\ wjob[w] # j /\ UNCHANGED wjob
          /\ \A v \in Workers \ {w} : wpc'[v] = wpc[v]
      BY <1>1, <1>3, <2>2
         DEF MarkProcessing, MarkFailed, MarkCompleted, Goto, Overwriting
    <3>2. results'[j] = results[j]
      BY <1>2, <2>2, <3>1, MarkRecord
    <3> QED
      BY <1>3, <2>1, <3>1, <3>2 DEF CancelSettled, IsCanceled, Overwriting
  <2>3. ASSUME UNCHANGED results,
               \A v \in Workers \ {w} : wpc'[v] = wpc[v] /\ wjob'[v] = wjob[v],
               wpc'[w] \in {"mark", "fail", "put", "complete"} => wjob'[w] # j
        PROVE  CancelSettled(j)'
    BY <1>3, <2>1, <2>3 DEF CancelSettled, IsCanceled, Overwriting
  <2> USE DEF Goto
  <2>4. CASE PopJob(w) \/ PopStop(w) \/ CheckSkip(w) \/ RegisterJob(w)
    BY <1>1, <2>3, <2>4 DEF PopJob, Take, PopStop, CheckSkip, RegisterJob
  <2>5. CASE CheckGo(w) \/ ErrFailed(w) \/ OkStore(w)
    BY <1>1, <1>3, <2>3, <2>5 DEF CheckGo, ErrFailed, OkStore, IsCanceled
  <2>6. CASE PutOK(w) \/ PutFailed(w)
    BY <1>1, <1>3, <2>3, <2>6 DEF PutOK, PutFailed, Overwriting
  <2>7. CASE \/ RenderOK(w) \/ RenderGiveUp(w) \/ RenderRetry(w)
             \/ BackoffElapsed(w) \/ BackoffCanceled(w)
    BY <1>1, <2>3, <2>7 DEF RenderOK, RenderGiveUp, RenderRetry, BackoffElapsed,
                            BackoffCanceled
  <2>8. CASE ErrCanceled(w) \/ OkCanceled(w) \/ Notify(w) \/ Finish(w)
    BY <1>1, <2>3, <2>8 DEF ErrCanceled, OkCanceled, Discard, Notify, Finish
  <2> QED
    BY <1>6, <2>2, <2>4, <2>5, <2>6, <2>7, <2>8 DEF WorkerStep
<1>7. ASSUME NEW i \in Jobs, SubmitStep(i) PROVE CancelSettled(j)'
  <2>1. Accepted(j)'
    <3>1. CASE SubmitAccept(i)
      BY <1>1, <1>3, <3>1 DEF SubmitAccept, SubmitGoto, Answer, Accepted
    <3>2. CASE ~SubmitAccept(i)
      <4>1. i # j
        BY <1>4, <1>7, <3>2
           DEF SubmitStep, SubmitInit, SubmitPush, SubmitHandoff,
               SubmitQueueFull, SubmitRollback, SubmitGoto
      <4>2. spc'[j] = spc[j] /\ reply'[j] = reply[j]
        BY <1>1, <1>7, <3>2, <4>1
           DEF SubmitStep, SubmitInit, SubmitPush, SubmitHandoff,
               SubmitQueueFull, SubmitRollback, SubmitGoto, Answer
      <4> QED
        BY <1>3, <4>2 DEF Accepted
    <3> QED
      BY <3>1, <3>2
  <2>2. results'[j] = results[j]
    <3>1. CASE SubmitInit(i)
      BY <1>2, <1>4, <3>1, InitRecord DEF SubmitInit, SubmitGoto
    <3>2. CASE SubmitRollback(i)
      BY <1>2, <1>4, <3>2, DeleteRecord DEF SubmitRollback, SubmitGoto, TypeOK
    <3> QED
      BY <1>7, <3>1, <3>2 DEF SubmitStep, SubmitPush, SubmitHandoff,
                              SubmitQueueFull, SubmitAccept
  <2>3. \A w \in Workers : ~Overwriting(w, j)'
    <3>1. CASE \E w \in Workers : SubmitHandoff(i, w)
      BY <1>1, <1>3, <3>1 DEF SubmitHandoff, Take, Goto, Overwriting
    <3> QED
      BY <1>3, <1>7, <3>1 DEF SubmitStep, SubmitInit, SubmitPush,
         SubmitQueueFull, SubmitRollback, SubmitAccept, Overwriting
  <2> QED
    BY <1>3, <2>1, <2>2, <2>3 DEF CancelSettled, IsCanceled
<1>8. ASSUME NEW i \in Jobs, NEW req \in Requests,
             SubmitReserve(i, req) \/ SubmitIdempotent(i, req)
      PROVE  CancelSettled(j)'
  <2>1. /\ i # j /\ UNCHANGED <<results, wpc, wjob>>
        /\ spc'[j] = spc[j] /\ reply'[j] = reply[j]
    BY <1>1, <1>4, <1>8 DEF SubmitReserve, ReserveIdempotencyKey,
                            SubmitIdempotent, SubmitGoto, Answer
  <2>2. Accepted(j)'
    BY <1>3, <2>1 DEF Accepted
  <2>3. \A w \in Workers : ~Overwriting(w, j)'
    BY <1>3, <2>1 DEF Overwriting
  <2> QED
    BY <1>3, <2>1, <2>2, <2>3 DEF CancelSettled, IsCanceled
<1>9. ASSUME NEW c \in Cancellers, CancelWrite(c) PROVE CancelSettled(j)'
  <2>1. results'[j].status = "canceled"
    BY <1>2, <1>3, <1>9, CancelRecord
  <2>2. UNCHANGED <<wpc, wjob, spc, reply>>
    BY <1>9 DEF CancelWrite
  <2> QED
    BY <1>3, <2>1, <2>2 DEF CancelSettled, IsCanceled, Accepted, Overwriting
<1>10. CASE UNCHANGED outcomeVars
  BY <1>5, <1>10 DEF outcomeVars
<1> QED
  BY <1>6, <1>7, <1>8, <1>9, <1>10, OutcomeSteps

\* A cancellation that meets no worker between its last check of the record
\* and its next write is final.
THEOREM CancelSettlesAlways == Spec => CancelSettles
<1>1. ASSUME IInv, [Next]_vars
      PROVE  [\A j \in Jobs : CancelSettled(j) => CancelSettled(j)']_vars
  BY <1>1, SettledStep
<1> QED
  BY <1>1, IInvAlways, PTL DEF Spec, CancelSettles
-----------------------------------------------------------------------------
(* The process implements JobService.                                      *)

\* The mapped state: key of every accepted job, jobs in hand, jobs done.
KeyOf == [j \in Jobs |-> IF Accepted(j) THEN payload[j].key ELSE NoKey]
Running == {wjob[w] : w \in Workers} \ {NoJob}
Done == {j \in Jobs : /\ Accepted(j) /\ ~InQueue(j)
                      /\ \A w \in Workers : wjob[w] # j}

\* The jobs JobService knows of are those Push took.
LEMMA AcceptedJobs ==
  ASSUME TypeOK, Placed
  PROVE  Abstract!Accepted = {j \in Jobs : Accepted(j)}
<1>1. jobs \in Seq(Jobs) /\ wjob \in [Workers -> Jobs \cup {NoJob}]
  BY DEF TypeOK, QueueTypeOK, PoolTypeOK
<1>2. Abstract!Accepted = {jobs[i] : i \in 1..Len(jobs)} \cup Running \cup Done
  BY DEF Abstract!Accepted, Abstract!Waiting, Running, Done
<1>3. ASSUME NEW j \in Abstract!Accepted PROVE j \in Jobs /\ Accepted(j)
  <2>1. CASE j \in {jobs[i] : i \in 1..Len(jobs)}
    BY <1>1, <2>1 DEF Placed, InQueue
  <2>2. CASE j \in Running
    BY <1>1, <2>2 DEF Placed, Running
  <2> QED
    BY <1>2, <1>3, <2>1, <2>2 DEF Done
<1>4. ASSUME NEW j \in Jobs, Accepted(j) PROVE j \in Abstract!Accepted
  BY <1>2, <1>4, NoJobAssumption DEF InQueue, Running, Done
<1> QED
  BY <1>3, <1>4

\* A request's key and callback are fixed once SubmitJob has reserved it.
LEMMA PayloadFixed ==
  ASSUME TypeOK, [Next]_vars, NEW j \in Jobs, spc[j] # "idle"
  PROVE  payload'[j] = payload[j]
<1> USE DEF storeVars, queueVars, registryVars, workerVars, apiVars
<1>1. payload \in [Jobs -> Payload]
  BY DEF TypeOK, QueueTypeOK
<1>2. CASE UNCHANGED outcomeVars
  BY <1>2 DEF outcomeVars
<1>3. ASSUME NEW w \in Workers, WorkerStep(w) PROVE UNCHANGED payload
  BY <1>3 DEF WorkerStep, PopJob, PopStop, CheckGo, CheckSkip, MarkProcessing,
              RegisterJob, RenderOK, RenderGiveUp, RenderRetry, BackoffElapsed,
              BackoffCanceled, ErrCanceled, ErrFailed, MarkFailed, OkCanceled,
              Discard, OkStore, PutOK, PutFailed, MarkCompleted, Notify, Finish
<1>4. ASSUME NEW i \in Jobs, NEW req \in Requests,
             SubmitReserve(i, req) \/ SubmitIdempotent(i, req)
      PROVE  payload'[j] = payload[j]
  BY <1>1, <1>4 DEF SubmitReserve, SubmitIdempotent, SubmitGoto
<1>5. ASSUME NEW i \in Jobs, SubmitStep(i) PROVE UNCHANGED payload
  BY <1>5 DEF SubmitStep, SubmitInit, SubmitPush, SubmitHandoff,
              SubmitQueueFull, SubmitRollback, SubmitAccept
<1>6. ASSUME NEW c \in Cancellers, CancelWrite(c) PROVE UNCHANGED payload
  BY <1>6 DEF CancelWrite
<1> QED
  BY <1>2, <1>3, <1>4, <1>5, <1>6, OutcomeSteps

\* A job about to be pushed is new to JobService, and so is its key.
LEMMA PushAdmissible ==
  ASSUME IInv, NEW j \in Jobs, spc[j] = "push",
         NEW k \in Keys \cup {NoKey}, k = payload[j].key
  PROVE  Abstract!Admissible(j, k) /\ ~Accepted(j)
<1>1. TypeOK /\ Placed /\ Replied /\ KeysOwned
  BY DEF IInv
<1>2. ~Accepted(j)
  BY <1>1 DEF Accepted, Replied
<1>3. ASSUME NEW i \in Jobs, Accepted(i), k # NoKey
      PROVE  payload[i].key # k
  BY <1>1, <1>2, <1>3 DEF KeysOwned, Live
<1>4. \A i \in Abstract!Accepted : i \in Jobs /\ Accepted(i)
  BY <1>1, AcceptedJobs
<1>5. k = NoKey \/ \A i \in Abstract!Accepted : KeyOf[i] # k
  BY <1>3, <1>4 DEF KeyOf
<1> QED
  BY <1>2, <1>4, <1>5 DEF Abstract!Admissible, KeyOf

\* Every step of the process is a step of JobService or leaves it alone.
LEMMA RefinementStep ==
  ASSUME IInv, [Next]_vars
  PROVE  [Abstract!Next]_(Abstract!vars)
<1>1. /\ jobs \in Seq(Jobs) /\ wjob \in [Workers -> Jobs \cup {NoJob}]
      /\ payload \in [Jobs -> Payload]
      /\ spc \in [Jobs -> {"idle", "init", "push", "rollback", "count", "done"}]
      /\ reply \in [Jobs -> Reply]
  BY DEF IInv, TypeOK, QueueTypeOK, PoolTypeOK, ApiTypeOK
<1>2. TypeOK /\ HoldsJob /\ Replied /\ Placed /\ HeldOnce /\ Bounded
  BY DEF IInv
<1>3. \A i \in Jobs : Accepted(i) \/ spc[i] = "push" => payload'[i] = payload[i]
  BY <1>2, PayloadFixed DEF Accepted, Replied
<1>4. ASSUME \A i \in Jobs : Accepted(i)' = Accepted(i) PROVE KeyOf' = KeyOf
  BY <1>3, <1>4 DEF KeyOf
<1>5. ASSUME NEW j \in Jobs, spc[j] = "push", Accepted(j)',
             \A i \in Jobs \ {j} : Accepted(i)' = Accepted(i)
      PROVE  KeyOf' = [KeyOf EXCEPT ![j] = payload[j].key]
  BY <1>3, <1>5 DEF KeyOf
<1>6. ASSUME KeyOf' = KeyOf, jobs' = jobs, Running' = Running, Done' = Done
      PROVE  UNCHANGED Abstract!vars
  BY <1>6 DEF Abstract!vars, KeyOf, Running, Done
<1>7. CASE UNCHANGED placeVars
  <2>1. \A i \in Jobs : Accepted(i)' = Accepted(i)
    BY <1>7 DEF placeVars, Accepted
  <2>2. jobs' = jobs /\ Running' = Running /\ Done' = Done
    BY <1>7, <2>1 DEF placeVars, Running, Done, InQueue
  <2> QED
    BY <1>4, <1>6, <2>1, <2>2
<1>8. ASSUME NEW j \in Jobs, Progress(j) PROVE UNCHANGED Abstract!vars
  <2>1. \A i \in Jobs : Accepted(i)' = Accepted(i)
    BY <1>1, <1>2, <1>8 DEF Progress, Accepted, Replied, Reply
  <2>2. jobs' = jobs /\ wjob' = wjob
    BY <1>8 DEF Progress
  <2>3. Running' = Running /\ Done' = Done
    BY <2>1, <2>2 DEF Running, Done, InQueue
  <2> QED
    BY <1>4, <1>6, <2>1, <2>2, <2>3
<1>9. ASSUME NEW j \in Jobs, SubmitPush(j) PROVE Abstract!Next
  <2>1. /\ Push(j) /\ spc[j] = "push" /\ spc' = [spc EXCEPT ![j] = "count"]
        /\ UNCHANGED <<wjob, reply>>
    BY <1>9 DEF SubmitPush, SubmitGoto, workerVars
  <2> PICK k \in Keys \cup {NoKey} : k = payload[j].key
    BY <1>1 DEF Payload
  <2>2. Abstract!Admissible(j, k) /\ ~Accepted(j)
    BY <2>1, PushAdmissible
  <2>3. Accepted(j)' /\ \A i \in Jobs \ {j} : Accepted(i)' = Accepted(i)
    BY <1>1, <2>1 DEF Accepted
  <2>4. KeyOf' = [KeyOf EXCEPT ![j] = k]
    BY <1>5, <2>1, <2>3
  <2>5. \A i : InQueue(i)' <=> InQueue(i) \/ i = j
    BY <1>1, <2>1, PushLast DEF InQueue
  <2>6. Running' = Running /\ Done' = Done
    BY <2>1, <2>2, <2>3, <2>5 DEF Running, Done
  <2>7. Abstract!Accept(j, k)
    BY <2>1, <2>2, <2>4, <2>6
       DEF Abstract!Accept, KeyOf, Running, Done, Push, HasRoom
  <2> QED
    BY <2>7 DEF Abstract!Next
<1>10. ASSUME NEW j \in Jobs, NEW w \in Workers, SubmitHandoff(j, w)
       PROVE  Abstract!Next
  <2>1. /\ QueueSize = 0 /\ spc[j] = "push" /\ spc' = [spc EXCEPT ![j] = "count"]
        /\ wpc[w] = "pop" /\ wjob' = [wjob EXCEPT ![w] = j]
        /\ UNCHANGED <<jobs, reply>>
    BY <1>10 DEF SubmitHandoff, SubmitGoto, Take, Goto, queueVars
  <2> PICK k \in Keys \cup {NoKey} : k = payload[j].key
    BY <1>1 DEF Payload
  <2>2. Abstract!Admissible(j, k) /\ ~Accepted(j)
    BY <2>1, PushAdmissible
  <2>3. Accepted(j)' /\ \A i \in Jobs \ {j} : Accepted(i)' = Accepted(i)
    BY <1>1, <2>1 DEF Accepted
  <2>4. KeyOf' = [KeyOf EXCEPT ![j] = k]
    BY <1>5, <2>1, <2>3
  <2>5. jobs = <<>>
    BY <1>1, <1>2, <2>1, EmptySeq DEF Bounded
  <2>6. wjob[w] = NoJob
    BY <1>1, <1>2, <2>1 DEF HoldsJob, InJob
  <2>7. Running' = Running \cup {j}
    BY <1>1, <2>1, <2>6, NoJobAssumption DEF Running
  <2>8. Done' = Done
    BY <1>1, <2>1, <2>2, <2>3, <2>6, NoJobAssumption DEF Done, InQueue
  <2>9. Abstract!AcceptAndStart(j, k)
    BY <2>1, <2>2, <2>4, <2>5, <2>7, <2>8
       DEF Abstract!AcceptAndStart, KeyOf, Running, Done
  <2> QED
    BY <2>9 DEF Abstract!Next
<1>11. ASSUME NEW w \in Workers, PopJob(w), UNCHANGED <<spc, reply>>
       PROVE  Abstract!Next
  <2>1. PICK j \in Jobs : Receive(j) /\ Take(w, j)
    BY <1>11 DEF PopJob
  <2>2. wpc[w] = "pop" /\ wjob' = [wjob EXCEPT ![w] = j]
    BY <2>1 DEF Take, Goto
  <2>3. wjob[w] = NoJob
    BY <1>1, <1>2, <2>2 DEF HoldsJob, InJob
  <2>4. \A i \in Jobs : Accepted(i)' = Accepted(i)
    BY <1>11 DEF Accepted
  <2>5. KeyOf' = KeyOf
    BY <1>4, <2>4
  <2>6. Running' = Running \cup {j}
    BY <1>1, <2>2, <2>3, NoJobAssumption DEF Running
  <2>7. \A i \in Jobs \ {j} : InQueue(i)' <=> InQueue(i)
    <3>1. /\ Len(jobs) \in Nat /\ Len(jobs) > 0 /\ Len(jobs') = Len(jobs) - 1
          /\ j = jobs[1] /\ \A n \in 1..Len(jobs') : jobs'[n] = jobs[n + 1]
      BY <1>1, <2>1, ReceiveHead
    <3>2. ASSUME NEW i \in Jobs \ {j}, NEW n \in 1..Len(jobs), jobs[n] = i
          PROVE  InQueue(i)'
      <4>1. n - 1 \in 1..Len(jobs') /\ (n - 1) + 1 = n
        BY <3>1, <3>2
      <4> QED
        BY <3>1, <3>2, <4>1 DEF InQueue
    <3>3. ASSUME NEW i \in Jobs \ {j}, NEW n \in 1..Len(jobs'), jobs'[n] = i
          PROVE  InQueue(i)
      <4>1. n + 1 \in 1..Len(jobs)
        BY <3>1
      <4> QED
        BY <3>1, <3>3, <4>1 DEF InQueue
    <3> QED
      BY <3>2, <3>3 DEF InQueue
  <2>8. InQueue(j)
    BY <1>1, <2>1, ReceiveHead
  <2>9. Done' = Done
    BY <1>1, <2>2, <2>3, <2>4, <2>7, <2>8, NoJobAssumption DEF Done
  <2>10. Abstract!Start
    BY <2>1, <2>5, <2>6, <2>9
       DEF Abstract!Start, Receive, KeyOf, Running, Done
  <2> QED
    BY <2>10 DEF Abstract!Next
<1>12. ASSUME NEW w \in Workers, Release(w)
       PROVE  Abstract!Next \/ UNCHANGED Abstract!vars
  <2>1. wjob' = [wjob EXCEPT ![w] = NoJob] /\ UNCHANGED <<jobs, spc, reply>>
    BY <1>12 DEF Release
  <2>2. \A i \in Jobs : Accepted(i)' = Accepted(i)
    BY <2>1 DEF Accepted
  <2>3. KeyOf' = KeyOf
    BY <1>4, <2>2
  <2>4. CASE wjob[w] \in Jobs
    <3> PICK j \in Jobs : j = wjob[w]
      BY <2>4
    <3>1. \A v \in Workers \ {w} : wjob[v] # j
      BY <1>2, <2>4 DEF HeldOnce
    <3>2. Accepted(j) /\ ~InQueue(j)
      BY <1>2, <2>4 DEF Placed, HeldOnce
    <3>3. j \in Running /\ Running' = Running \ {j}
      BY <1>1, <2>1, <2>4, <3>1, NoJobAssumption DEF Running
    <3>4. Done' = Done \cup {j}
      BY <1>1, <2>1, <2>2, <2>4, <3>1, <3>2, NoJobAssumption DEF Done, InQueue
    <3>5. Abstract!End(j)
      BY <2>1, <2>3, <3>3, <3>4 DEF Abstract!End, KeyOf, Running, Done
    <3> QED
      BY <3>5 DEF Abstract!Next
  <2>5. CASE wjob[w] \notin Jobs
    <3>1. wjob' = wjob
      BY <1>1, <2>1, <2>5
    <3>2. Running' = Running /\ Done' = Done
      BY <2>1, <2>2, <3>1 DEF Running, Done, InQueue
    <3> QED
      BY <1>6, <2>1, <2>3, <3>2
  <2> QED
    BY <2>4, <2>5
<1> QED
  BY <1>2, <1>7, <1>8, <1>9, <1>10, <1>11, <1>12, PlacementSteps

\* Every behaviour of the process is one of JobService: jobs are accepted at
\* most once per key, start in order of acceptance and run at most once.
THEOREM JobServiceImplemented == Spec => ImplementsJobService
<1>1. Init => Abstract!Init
  <2> SUFFICES ASSUME Init PROVE Abstract!Init
    OBVIOUS
  <2>1. \A j \in Jobs : ~Accepted(j)
    BY DEF Init, ApiInit, Accepted
  <2>2. KeyOf = [j \in Jobs |-> NoKey] /\ Done = {}
    BY <2>1 DEF KeyOf, Done
  <2>3. jobs = <<>> /\ Running = {}
    BY DEF Init, QueueInit, PoolInit, Running
  <2> QED
    BY <2>2, <2>3 DEF Abstract!Init, KeyOf, Running, Done
<1> QED
  BY <1>1, RefinementStep, IInvAlways, PTL
     DEF Spec, ImplementsJobService, Abstract!Spec
=============================================================================
