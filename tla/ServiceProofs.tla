--------------------------- MODULE ServiceProofs ---------------------------
(***************************************************************************)
(* Service for every choice of its constants: type correctness, the place  *)
(* of every job, and the metadata store against the progress of SubmitJob. *)
(* OutcomeProofs builds on these.                                          *)
(***************************************************************************)
EXTENDS ServiceInv, SequenceTheorems, WellFoundedInduction, TLAPS

\* A non-empty set of naturals has a least element.
LEMMA LeastElement ==
  ASSUME NEW T, T \subseteq Nat, T # {}
  PROVE  \E x \in T : \A y \in T : x <= y
<1>1. PICK x \in T : \A y \in T : <<y, x>> \notin OpToRel(<, Nat)
  BY NatLessThanWellFounded, WFMin
<1>2. \A y \in T : ~(y < x)
  BY <1>1 DEF OpToRel
<1> QED
  BY <1>2

\* RemoveFirst drops one position n of the sequence, the first that holds e.
LEMMA RemoveFirstIsRemoveAt ==
  ASSUME NEW S, NEW s \in Seq(S), NEW e, \E i \in 1..Len(s) : s[i] = e
  PROVE  \E n \in 1..Len(s) : s[n] = e /\ RemoveFirst(s, e) = RemoveAt(s, n)
<1> DEFINE I == {i \in 1..Len(s) : s[i] = e}
<1> DEFINE n == SelectInSeq(s, LAMBDA v : v = e)
<1>1. \E x \in I : \A y \in I : x <= y
  <2>1. I \subseteq Nat /\ I # {}
    OBVIOUS
  <2> HIDE DEF I
  <2> QED
    BY <2>1, LeastElement
<1>2. n = Min(I)
  BY DEF SelectInSeq
<1>3. n \in I
  BY <1>1, <1>2 DEF Min
<1>4. RemoveFirst(s, e) = RemoveAt(s, n)
  BY DEF RemoveFirst
<1> QED
  BY <1>3, <1>4

\* RemoveFirst yields a sequence over the same set.
LEMMA RemoveFirstType ==
  ASSUME NEW S, NEW s \in Seq(S), NEW e
  PROVE  RemoveFirst(s, e) \in Seq(S)
<1>1. CASE ~\E i \in 1..Len(s) : s[i] = e
  BY <1>1 DEF RemoveFirst
<1>2. CASE \E i \in 1..Len(s) : s[i] = e
  <2>1. PICK n \in 1..Len(s) : RemoveFirst(s, e) = RemoveAt(s, n)
    BY <1>2, RemoveFirstIsRemoveAt
  <2>2. SubSeq(s, 1, n - 1) \in Seq(S) /\ SubSeq(s, n + 1, Len(s)) \in Seq(S)
    OBVIOUS
  <2> QED
    BY <2>1, <2>2 DEF RemoveAt
<1> QED
  BY <1>1, <1>2

-----------------------------------------------------------------------------
(* The operations of the store.                                            *)

\* Set keeps the store well-typed.
LEMMA SetType ==
  ASSUME StoreTypeOK, NEW j \in Jobs, NEW r \in JobResult, Set(j, r)
  PROVE  StoreTypeOK'
<1>1. Merge(results[j], r) \in JobResult
  BY DEF Merge, StoreTypeOK, JobResult
<1>2. results' \in [Jobs -> JobResult]
  BY <1>1 DEF Set, StoreTypeOK
<1>3. order' \in Seq(Jobs)
  BY DEF Set, StoreTypeOK
<1> QED
  BY <1>2, <1>3 DEF Set, StoreTypeOK

\* Delete keeps the store well-typed.
LEMMA DeleteType ==
  ASSUME StoreTypeOK, NEW j \in Jobs, Delete(j)
  PROVE  StoreTypeOK'
<1>1. CASE ~Exists(j)
  BY <1>1 DEF Delete, StoreTypeOK, storeVars
<1>2. CASE Exists(j)
  <2>1. NoResult \in JobResult
    BY DEF NoResult, JobResult, Status, Errors
  <2>2. RemoveFirst(order, j) \in Seq(Jobs)
    BY RemoveFirstType DEF StoreTypeOK
  <2> QED
    BY <1>2, <2>1, <2>2 DEF Delete, StoreTypeOK
<1> QED
  BY <1>1, <1>2

\* The records callers build are well-typed.
LEMMA NewResultType ==
  ASSUME QueueTypeOK, NEW j \in Jobs, NEW status \in Status,
         NEW error \in Errors, NEW pdfKey \in Jobs \cup {NoJob}
  PROVE  NewResult(payload[j], status, error, pdfKey) \in JobResult
BY DEF QueueTypeOK, Payload, NewResult, JobResult

\* What a worker writes keeps the store well-typed.
LEMMA WriteType ==
  ASSUME StoreTypeOK, QueueTypeOK, NEW w \in Workers, wjob[w] \in Jobs,
         NEW status \in Status, NEW error \in Errors,
         NEW pdfKey \in Jobs \cup {NoJob}, Write(w, status, error, pdfKey)
  PROVE  StoreTypeOK'
BY NewResultType, SetType DEF Write

-----------------------------------------------------------------------------
(* The worker pool.                                                        *)

\* Counting a finished job keeps the metrics well-typed.
LEMMA RenderFinishedType ==
  ASSUME MetricsTypeOK, NEW status \in Terminal, RenderFinished(status)
  PROVE  MetricsTypeOK'
BY DEF MetricsTypeOK, RenderFinished

\* Every step of a worker keeps what it can reach well-typed, and its job in
\* hand while it is inside processJob.
LEMMA WorkerType ==
  ASSUME TypeOK, HoldsJob, NEW w \in Workers, WorkerStep(w), UNCHANGED apiVars
  PROVE  /\ StoreTypeOK' /\ QueueTypeOK' /\ RegistryTypeOK' /\ MetricsTypeOK'
         /\ PoolTypeOK' /\ HoldsJob'
<1> USE DEF TypeOK, HoldsJob, StoreTypeOK, QueueTypeOK, RegistryTypeOK,
            MetricsTypeOK, PoolTypeOK, InJob, Goto
<1> USE DEF storeVars, queueVars, registryVars, apiVars
<1>1. CASE PopJob(w)
  BY <1>1, NoJobAssumption DEF PopJob, Take, Receive
<1>2. CASE PopStop(w)
  BY <1>2 DEF PopStop
<1>3. CASE CheckSkip(w)
  BY <1>3, NoJobAssumption DEF CheckSkip
<1>4. CASE CheckGo(w)
  BY <1>4 DEF CheckGo
<1>5. CASE MarkProcessing(w)
  <2>1. StoreTypeOK'
    BY <1>5, WriteType DEF MarkProcessing, Status, Terminal, Errors
  <2> HIDE DEF StoreTypeOK
  <2> QED
    BY <1>5, <2>1 DEF MarkProcessing
<1>6. CASE RegisterJob(w)
  BY <1>6, RetriesAssumption DEF RegisterJob, Register
<1>7. CASE RenderOK(w)
  BY <1>7 DEF RenderOK
<1>8. CASE RenderGiveUp(w)
  <2>1. RenderErrors(w) \subseteq Errors
    BY DEF RenderErrors, Errors
  <2>2. PICK err \in Errors : werr' = [werr EXCEPT ![w] = err]
    BY <1>8, <2>1 DEF RenderGiveUp
  <2> QED
    BY <1>8, <2>2 DEF RenderGiveUp
<1>9. CASE RenderRetry(w)
  BY <1>9, RetriesAssumption DEF RenderRetry, LastAttempt, JobCtxDone
<1>10. CASE BackoffElapsed(w)
  BY <1>10, RetriesAssumption DEF BackoffElapsed
<1>11. CASE BackoffCanceled(w)
  BY <1>11 DEF BackoffCanceled, Errors
<1>12. CASE ErrCanceled(w)
  <2> HIDE DEF MetricsTypeOK
  <2>1. MetricsTypeOK'
    BY <1>12, RenderFinishedType DEF ErrCanceled, Discard, Terminal
  <2> QED
    BY <1>12, <2>1 DEF ErrCanceled, Discard, Errors
<1>13. CASE ErrFailed(w)
  <2> HIDE DEF MetricsTypeOK
  <2>1. MetricsTypeOK'
    BY <1>13, RenderFinishedType DEF ErrFailed, Terminal
  <2> QED
    BY <1>13, <2>1 DEF ErrFailed, StatusErr, Errors
<1>14. CASE MarkFailed(w)
  <2>1. wjob[w] \in Jobs /\ werr[w] \in Errors /\ NoJob \in Jobs \cup {NoJob}
    BY <1>14 DEF MarkFailed
  <2> HIDE DEF StoreTypeOK
  <2>2. StoreTypeOK'
    <3> HIDE DEF QueueTypeOK, PoolTypeOK
    <3> QED
      BY <1>14, <2>1, WriteType DEF MarkFailed, Status, Terminal
  <2> QED
    BY <1>14, <2>2 DEF MarkFailed
<1>15. CASE OkCanceled(w)
  <2> HIDE DEF MetricsTypeOK
  <2>1. MetricsTypeOK'
    BY <1>15, RenderFinishedType DEF OkCanceled, Discard, Terminal
  <2> QED
    BY <1>15, <2>1 DEF OkCanceled, Discard, Errors
<1>16. CASE OkStore(w)
  BY <1>16 DEF OkStore
<1>17. CASE PutOK(w)
  BY <1>17 DEF PutOK, PutBlob
<1>18. CASE PutFailed(w)
  <2> HIDE DEF MetricsTypeOK
  <2>1. MetricsTypeOK'
    BY <1>18, RenderFinishedType DEF PutFailed, Terminal
  <2> QED
    BY <1>18, <2>1 DEF PutFailed, PutBlob, Errors
<1>19. CASE MarkCompleted(w)
  <2>1. StoreTypeOK'
    BY <1>19, WriteType DEF MarkCompleted, Status, Terminal, Errors
  <2> HIDE DEF StoreTypeOK, MetricsTypeOK
  <2>2. MetricsTypeOK'
    BY <1>19, RenderFinishedType DEF MarkCompleted, Terminal
  <2> QED
    BY <1>19, <2>1, <2>2 DEF MarkCompleted
<1>20. CASE Notify(w)
  <2> DEFINE HooksReceived == Seq({"completed", "failed"})
  <2>1. hooks' \in [Jobs -> HooksReceived]
    <3>1. wjob[w] \in Jobs
      BY <1>20 DEF Notify
    <3>2. Append(hooks[wjob[w]], NotifiedStatus(w)) \in HooksReceived
      BY <3>1 DEF NotifiedStatus
    <3> QED
      BY <1>20, <3>2 DEF Notify, PostEvent
  <2> QED
    BY <1>20, <2>1 DEF Notify, Errors
<1>21. CASE Finish(w)
  BY <1>21, NoJobAssumption, RetriesAssumption DEF Finish, Unregister
<1> QED
  BY <1>1, <1>2, <1>3, <1>4, <1>5, <1>6, <1>7, <1>8, <1>9, <1>10, <1>11, <1>12,
     <1>13, <1>14, <1>15, <1>16, <1>17, <1>18, <1>19, <1>20, <1>21
     DEF WorkerStep

-----------------------------------------------------------------------------
(* The HTTP handlers.                                                      *)

\* Counting a submission keeps the metrics well-typed.
LEMMA SubmitCountsType ==
  ASSUME MetricsTypeOK,
         JobSubmitted \/ \E reason \in Reasons : JobRejected(reason)
  PROVE  MetricsTypeOK'
BY DEF MetricsTypeOK, JobSubmitted, JobRejected

\* A new submission keeps the state well-typed.
LEMMA NewSubmitType ==
  ASSUME TypeOK, HoldsJob, NewSubmit
  PROVE  TypeOK' /\ HoldsJob'
<1> USE DEF TypeOK, HoldsJob, StoreTypeOK, QueueTypeOK, RegistryTypeOK,
            PoolTypeOK, ApiTypeOK
<1> USE DEF storeVars, queueVars, registryVars, workerVars, apiVars
<1> PICK req \in Requests :
      \/ SubmitInvalid(req)
      \/ \E j \in Jobs : SubmitReserve(j, req) \/ SubmitIdempotent(j, req)
  BY DEF NewSubmit
<1>1. phase' = phase
  BY DEF NewSubmit
<1>2. CASE SubmitInvalid(req)
  <2>1. Rejection(req) \in Reasons
    BY <1>2 DEF SubmitInvalid, Rejection, Reasons
  <2>2. MetricsTypeOK'
    BY <1>2, <2>1, SubmitCountsType DEF SubmitInvalid
  <2> QED
    BY <1>1, <1>2, <2>2 DEF SubmitInvalid
<1>3. ASSUME NEW j \in Jobs, SubmitReserve(j, req)
      PROVE  TypeOK' /\ HoldsJob'
  <2>1. req.key \in Keys \cup {NoKey}
    BY DEF Requests
  <2>2. payload' \in [Jobs -> Payload]
    BY <1>3, <2>1 DEF SubmitReserve, Payload
  <2>3. idempotency' \in [Keys -> Jobs \cup {NoJob}]
    BY <1>3, <2>1 DEF SubmitReserve, ReserveIdempotencyKey
  <2> QED
    BY <1>1, <1>3, <2>2, <2>3
       DEF SubmitReserve, ReserveIdempotencyKey, SubmitGoto, MetricsTypeOK
<1>4. ASSUME NEW j \in Jobs, SubmitIdempotent(j, req)
      PROVE  TypeOK' /\ HoldsJob'
  <2>1. req.key \in Keys
    BY <1>4 DEF SubmitIdempotent, CanReserve
  <2>2. reply' \in [Jobs -> Reply]
    BY <1>4, <2>1 DEF SubmitIdempotent, Answer, Reply
  <2> QED
    BY <1>1, <1>4, <2>2 DEF SubmitIdempotent, SubmitGoto, MetricsTypeOK
<1> QED
  BY <1>2, <1>3, <1>4

\* The later steps of SubmitJob keep the state well-typed.
LEMMA SubmitType ==
  ASSUME TypeOK, HoldsJob, NEW j \in Jobs, SubmitAct(j)
  PROVE  TypeOK' /\ HoldsJob'
<1> USE DEF TypeOK, HoldsJob, QueueTypeOK, RegistryTypeOK, PoolTypeOK,
            ApiTypeOK, SubmitGoto
<1> USE DEF storeVars, queueVars, registryVars, workerVars, apiVars
<1>1. phase' = phase
  BY DEF SubmitAct
<1>2. CASE SubmitInit(j)
  <2>1. NewResult(payload[j], "pending", "", NoJob) \in JobResult
    BY NewResultType DEF Status, Errors
  <2>2. StoreTypeOK'
    BY <1>2, <2>1, SetType DEF SubmitInit
  <2> QED
    BY <1>1, <1>2, <2>2 DEF SubmitInit, MetricsTypeOK
<1>3. CASE SubmitPush(j)
  BY <1>1, <1>3 DEF SubmitPush, Push, StoreTypeOK, MetricsTypeOK
<1>4. ASSUME NEW w \in Workers, SubmitHandoff(j, w)
      PROVE  TypeOK' /\ HoldsJob'
  BY <1>1, <1>4
     DEF SubmitHandoff, Take, Goto, InJob, StoreTypeOK, MetricsTypeOK
<1>5. CASE SubmitQueueFull(j)
  BY <1>1, <1>5 DEF SubmitQueueFull, StoreTypeOK, MetricsTypeOK
<1>6. CASE SubmitRollback(j)
  <2>1. StoreTypeOK'
    BY <1>6, DeleteType DEF SubmitRollback
  <2>2. MetricsTypeOK'
    BY <1>6, SubmitCountsType DEF SubmitRollback, Reasons
  <2>3. reply' \in [Jobs -> Reply]
    BY <1>6 DEF SubmitRollback, Answer, Reply
  <2> QED
    BY <1>1, <1>6, <2>1, <2>2, <2>3 DEF SubmitRollback
<1>7. CASE SubmitAccept(j)
  <2>1. MetricsTypeOK'
    BY <1>7, SubmitCountsType DEF SubmitAccept
  <2>2. reply' \in [Jobs -> Reply]
    BY <1>7 DEF SubmitAccept, Answer, Reply
  <2> QED
    BY <1>1, <1>7, <2>1, <2>2 DEF SubmitAccept, StoreTypeOK
<1> QED
  BY <1>2, <1>3, <1>4, <1>5, <1>6, <1>7 DEF SubmitAct, SubmitStep

\* CancelJob keeps the state well-typed.
LEMMA CancelType ==
  ASSUME TypeOK, HoldsJob, NEW c \in Cancellers,
         CancelAct(c) \/ NewCancel
  PROVE  TypeOK' /\ HoldsJob'
<1> USE DEF TypeOK, HoldsJob, QueueTypeOK, RegistryTypeOK, PoolTypeOK,
            ApiTypeOK, CancelGoto
<1> USE DEF storeVars, queueVars, registryVars, workerVars, apiVars
<1>1. NoResult \in JobResult
  BY DEF NoResult, JobResult, Status, Errors
<1>2. phase' = phase
  BY DEF CancelAct, NewCancel
<1>3. ASSUME NEW d \in Cancellers, NEW j \in Jobs, CancelRead(d, j)
      PROVE  TypeOK' /\ HoldsJob'
  BY <1>1, <1>2, <1>3 DEF CancelRead, StoreTypeOK, MetricsTypeOK
<1>4. CASE CancelWrite(c)
  <2> DEFINE r == [ccopy[c] EXCEPT !.status = "canceled",
                                   !.error = "job canceled"]
  <2>1. cjob[c] \in Jobs
    BY <1>4 DEF CancelWrite
  <2>2. r \in JobResult
    <3>1. ccopy[c] \in JobResult
      OBVIOUS
    <3>2. "canceled" \in Status /\ "job canceled" \in Errors
      BY DEF Status, Terminal, Errors
    <3> QED
      BY <3>1, <3>2 DEF JobResult
  <2>3. StoreTypeOK'
    BY <1>4, <2>1, <2>2, SetType DEF CancelWrite
  <2> QED
    BY <1>1, <1>2, <1>4, <2>3 DEF CancelWrite, MetricsTypeOK
<1>5. CASE CancelSignal(c)
  BY <1>2, <1>5, NoJobAssumption
     DEF CancelSignal, CancelContext, StoreTypeOK, MetricsTypeOK
<1> QED
  BY <1>3, <1>4, <1>5 DEF CancelAct, CancelStep, NewCancel

-----------------------------------------------------------------------------
(* All steps.                                                              *)

\* A step of main, or none, changes only the phase and the pool's context.
LEMMA MainType ==
  ASSUME TypeOK, HoldsJob,
         \/ Quit \/ ShutdownDone \/ ShutdownTimeout \/ WaitDone \/ WaitTimeout
         \/ UNCHANGED vars
  PROVE  TypeOK' /\ HoldsJob'
<1> USE DEF TypeOK, HoldsJob, StoreTypeOK, QueueTypeOK, RegistryTypeOK,
            MetricsTypeOK, PoolTypeOK, ApiTypeOK, Phases
<1> USE DEF storeVars, queueVars, registryVars, workerVars, apiVars,
            poolVars, vars
<1> QED
  BY DEF Quit, ShutdownDone, ShutdownTimeout, WaitDone, WaitTimeout

\* TypeOK, together with the knowledge that whoever works on a job has one,
\* holds initially.
LEMMA InitType == Init => TypeOK /\ HoldsJob
<1> SUFFICES ASSUME Init PROVE TypeOK /\ HoldsJob
  OBVIOUS
<1>1. NoResult \in JobResult
  BY DEF NoResult, JobResult, Status, Errors
<1>2. StoreTypeOK /\ QueueTypeOK /\ RegistryTypeOK
  BY <1>1 DEF Init, StoreInit, StoreTypeOK, QueueInit, QueueTypeOK,
              Payload, RegistryInit, RegistryTypeOK
<1>3. MetricsTypeOK
  BY DEF Init, MetricsInit, MetricsTypeOK
<1>4. PoolTypeOK
  <2>1. hooks \in [Jobs -> Seq({"completed", "failed"})]
    <3>1. hooks = [j \in Jobs |-> <<>>]
      BY DEF Init, PoolInit
    <3> QED
      BY <3>1
  <2>2. attempt \in [Workers -> 0..(RenderMaxRetries + 1)]
    <3>1. attempt = [w \in Workers |-> 0]
      BY DEF Init, PoolInit
    <3> QED
      BY <3>1, RetriesAssumption
  <2> QED
    BY <2>1, <2>2 DEF Init, PoolInit, PoolTypeOK, Errors
<1>5. ApiTypeOK /\ phase \in Phases
  BY <1>1 DEF Init, ApiInit, ApiTypeOK, Reply, Phases
<1>6. HoldsJob
  BY NoJobAssumption DEF Init, PoolInit, ApiInit, HoldsJob, InJob
<1> QED
  BY <1>2, <1>3, <1>4, <1>5, <1>6 DEF TypeOK

\* Every step keeps it.
LEMMA NextType == TypeOK /\ HoldsJob /\ [Next]_vars => TypeOK' /\ HoldsJob'
<1> SUFFICES ASSUME TypeOK, HoldsJob, [Next]_vars PROVE TypeOK' /\ HoldsJob'
  OBVIOUS
<1>1. ASSUME NEW w \in Workers, WorkerAct(w) PROVE TypeOK' /\ HoldsJob'
  <2>1. UNCHANGED apiVars /\ phase' = phase /\ WorkerStep(w)
    BY <1>1 DEF WorkerAct
  <2>2. ApiTypeOK'
    BY <2>1 DEF TypeOK, ApiTypeOK, apiVars
  <2> QED
    BY <2>1, <2>2, WorkerType DEF TypeOK
<1>2. CASE NewCancel
  BY <1>2, CancelType DEF NewCancel
<1> QED
  BY <1>1, <1>2, NewSubmitType, SubmitType, CancelType, MainType
     DEF Next, Exited

\* Type correctness: every variable keeps its type in every behaviour, for
\* any sets of jobs, keys, workers and cancellers and any queue size and
\* retry limit.
THEOREM TypeCorrect == Spec => []TypeOK
<1>1. TypeOK /\ HoldsJob /\ [Next]_vars => (TypeOK /\ HoldsJob)'
  BY NextType
<1> QED
  BY <1>1, InitType, PTL DEF Spec

-----------------------------------------------------------------------------
(* A job is in one place only: HeldOnce, from the agreement between the    *)
(* channel, the workers' hands and the progress of SubmitJob.              *)

\* What the placement of jobs depends on.
placeVars == <<jobs, wjob, spc, reply>>

Placement == Replied /\ Placed /\ HeldOnce

\* A worker lets go of its job.
Release(w) ==
  /\ wjob' = [wjob EXCEPT ![w] = NoJob]
  /\ UNCHANGED <<jobs, spc, reply>>

\* SubmitJob moves on without touching the channel, and answers at its end.
Progress(j) ==
  \/ /\ spc[j] # "done" /\ ~Accepted(j)
     /\ \E pc \in {"init", "push", "rollback"} : spc' = [spc EXCEPT ![j] = pc]
     /\ UNCHANGED <<jobs, wjob, reply>>
  \/ /\ spc[j] # "done"
     /\ spc' = [spc EXCEPT ![j] = "done"]
     /\ \E r \in Reply : /\ r.code # "none"
                         /\ Accepted(j) <=> r.code = "accepted"
                         /\ reply' = [reply EXCEPT ![j] = r]
     /\ UNCHANGED <<jobs, wjob>>

\* A step moves a job into the channel, to a worker or out of its hands,
\* moves one SubmitJob on, or leaves all places alone.
LEMMA PlacementSteps ==
  ASSUME TypeOK, HoldsJob, Replied, [Next]_vars
  PROVE  \/ UNCHANGED placeVars
         \/ \E w \in Workers : PopJob(w) /\ UNCHANGED <<spc, reply>>
         \/ \E w \in Workers : Release(w)
         \/ \E j \in Jobs : SubmitPush(j) \/ Progress(j)
         \/ \E j \in Jobs, w \in Workers : SubmitHandoff(j, w)
<1> USE DEF placeVars, storeVars, queueVars, registryVars, workerVars, apiVars,
            poolVars, vars
<1>1. ASSUME NEW w \in Workers, WorkerAct(w)
      PROVE  \/ UNCHANGED placeVars
             \/ PopJob(w) /\ UNCHANGED <<spc, reply>>
             \/ Release(w)
  <2>1. WorkerStep(w) /\ UNCHANGED <<spc, reply>>
    BY <1>1 DEF WorkerAct
  <2>2. CASE PopJob(w)
    BY <2>1, <2>2
  <2>3. CASE CheckSkip(w) \/ Finish(w)
    BY <2>1, <2>3 DEF CheckSkip, Finish, Release
  <2>4. CASE PopStop(w) \/ CheckGo(w) \/ MarkProcessing(w) \/ RegisterJob(w)
    BY <2>1, <2>4 DEF PopStop, CheckGo, MarkProcessing, RegisterJob
  <2>5. CASE \/ RenderOK(w) \/ RenderGiveUp(w) \/ RenderRetry(w)
             \/ BackoffElapsed(w) \/ BackoffCanceled(w)
    BY <2>1, <2>5 DEF RenderOK, RenderGiveUp, RenderRetry, BackoffElapsed,
                      BackoffCanceled
  <2>6. CASE ErrCanceled(w) \/ ErrFailed(w) \/ MarkFailed(w)
    BY <2>1, <2>6 DEF ErrCanceled, Discard, ErrFailed, MarkFailed
  <2>7. CASE \/ OkCanceled(w) \/ OkStore(w) \/ PutOK(w) \/ PutFailed(w)
             \/ MarkCompleted(w) \/ Notify(w)
    BY <2>1, <2>7 DEF OkCanceled, Discard, OkStore, PutOK, PutFailed,
                      MarkCompleted, Notify
  <2> QED
    BY <2>1, <2>2, <2>3, <2>4, <2>5, <2>6, <2>7 DEF WorkerStep
<1>2. ASSUME NEW j \in Jobs, NEW req \in Requests,
             SubmitReserve(j, req) \/ SubmitIdempotent(j, req)
      PROVE  Progress(j)
  <2>1. spc[j] = "idle" /\ ~Accepted(j)
    BY <1>2 DEF SubmitReserve, SubmitIdempotent, SubmitGoto, Accepted, Replied
  <2>2. CASE SubmitReserve(j, req)
    BY <2>1, <2>2 DEF SubmitReserve, SubmitGoto, Progress
  <2>3. CASE SubmitIdempotent(j, req)
    <3>1. req.key \in Keys
      BY <2>3 DEF SubmitIdempotent, CanReserve
    <3>2. [code |-> "idempotent", job |-> idempotency[req.key]] \in Reply
      BY <3>1 DEF Reply, TypeOK, StoreTypeOK
    <3> QED
      BY <2>1, <2>3, <3>2 DEF SubmitIdempotent, SubmitGoto, Answer, Progress
  <2> QED
    BY <1>2, <2>2, <2>3
<1>3. ASSUME NEW j \in Jobs, SubmitAct(j)
      PROVE  \/ SubmitPush(j) \/ Progress(j)
             \/ \E w \in Workers : SubmitHandoff(j, w)
  <2>1. CASE SubmitInit(j) \/ SubmitQueueFull(j)
    BY <2>1 DEF SubmitInit, SubmitQueueFull, SubmitGoto, Accepted, Replied,
                Progress
  <2>2. CASE SubmitRollback(j)
    BY <2>2, NoJobAssumption
       DEF SubmitRollback, SubmitGoto, Accepted, Replied, Answer, Reply,
           Progress
  <2>3. CASE SubmitAccept(j)
    BY <2>3 DEF SubmitAccept, SubmitGoto, Answer, Reply, Accepted, Progress
  <2> QED
    BY <1>3, <2>1, <2>2, <2>3 DEF SubmitAct, SubmitStep
<1>4. CASE \/ NewCancel \/ \E c \in Cancellers : CancelAct(c)
           \/ \E req \in Requests : SubmitInvalid(req)
  BY <1>4 DEF NewCancel, CancelRead, CancelAct, CancelStep, CancelWrite,
              CancelSignal, SubmitInvalid
<1>5. CASE \/ Quit \/ ShutdownDone \/ ShutdownTimeout \/ WaitDone
           \/ WaitTimeout \/ UNCHANGED vars
  BY <1>5 DEF Quit, ShutdownDone, ShutdownTimeout, WaitDone, WaitTimeout
<1> QED
  BY <1>1, <1>2, <1>3, <1>4, <1>5 DEF Next, NewSubmit, Exited

-----------------------------------------------------------------------------
(* What each kind of step does to the places of jobs.                      *)

\* Receiving takes the head out of the channel and leaves the rest in order.
LEMMA ReceiveHead ==
  ASSUME jobs \in Seq(Jobs), NEW j, Receive(j)
  PROVE  /\ InQueue(j) /\ j = jobs[1]
         /\ Len(jobs) > 0 /\ Len(jobs') = Len(jobs) - 1
         /\ \A i \in 1..Len(jobs') : jobs'[i] = jobs[i + 1]
BY HeadTailProperties DEF Receive, InQueue

\* Pushing adds one job behind those in the channel.
LEMMA PushLast ==
  ASSUME jobs \in Seq(Jobs), NEW j \in Jobs, Push(j)
  PROVE  /\ Len(jobs') = Len(jobs) + 1 /\ jobs'[Len(jobs) + 1] = j
         /\ \A i \in 1..Len(jobs) : jobs'[i] = jobs[i]
BY AppendProperties DEF Push

\* Initially no job is anywhere.
LEMMA InitPlacement == Init => Placement
<1> SUFFICES ASSUME Init PROVE Placement
  OBVIOUS
<1>1. jobs = <<>> /\ wjob = [w \in Workers |-> NoJob]
  BY DEF Init, QueueInit, PoolInit
<1>2. \A j : ~InQueue(j)
  BY <1>1 DEF InQueue
<1>3. Replied
  BY DEF Init, ApiInit, Replied
<1> QED
  BY <1>1, <1>2, <1>3, NoJobAssumption DEF Placement, Placed, HeldOnce

\* Every step keeps each job in one place.
LEMMA NextPlacement ==
  ASSUME TypeOK, HoldsJob, Placement, [Next]_vars
  PROVE  Placement'
<1> USE DEF Placement
<1>1. /\ jobs \in Seq(Jobs) /\ wjob \in [Workers -> Jobs \cup {NoJob}]
      /\ spc \in [Jobs -> {"idle", "init", "push", "rollback", "count", "done"}]
      /\ reply \in [Jobs -> Reply]
  BY DEF TypeOK, QueueTypeOK, PoolTypeOK, ApiTypeOK
<1>2. CASE UNCHANGED placeVars
  BY <1>2 DEF placeVars, Replied, Placed, HeldOnce, InQueue, Accepted
<1>3. ASSUME NEW w \in Workers, PopJob(w), UNCHANGED <<spc, reply>>
      PROVE  Placement'
  <2>1. PICK j \in Jobs : Receive(j) /\ Take(w, j)
    BY <1>3 DEF PopJob
  <2>2. wjob' = [wjob EXCEPT ![w] = j]
    BY <2>1 DEF Take
  <2>3. Replied' /\ Placed'
    BY <1>1, <1>3, <2>1, <2>2, ReceiveHead DEF Replied, Placed, InQueue, Accepted
  <2>4. HeldOnce'
    <3>1. \A a, b \in 1..Len(jobs') : jobs'[a] = jobs'[b] => a = b
      <4> SUFFICES ASSUME NEW a \in 1..Len(jobs'), NEW b \in 1..Len(jobs'),
                          jobs'[a] = jobs'[b]
                   PROVE  a = b
        OBVIOUS
      <4>1. Len(jobs) \in Nat /\ Len(jobs') = Len(jobs) - 1 /\ Len(jobs) > 0
        BY <1>1, <2>1, ReceiveHead
      <4>2. jobs[a + 1] = jobs[b + 1]
        BY <1>1, <2>1, ReceiveHead
      <4>3. \A c, d \in 1..Len(jobs) : jobs[c] = jobs[d] => c = d
        BY DEF HeldOnce
      <4>4. a \in Nat /\ b \in Nat /\ a + 1 \in 1..Len(jobs) /\ b + 1 \in 1..Len(jobs)
        BY <4>1
      <4>5. a + 1 = b + 1
        BY <4>2, <4>3, <4>4
      <4> QED
        BY <4>4, <4>5
    <3>2. \A v \in Workers : wjob[v] # j
      BY <1>1, <2>1, ReceiveHead DEF HeldOnce
    <3>3. ~InQueue(j)' /\ \A i : InQueue(i)' => InQueue(i)
      <4>1. /\ Len(jobs) \in Nat /\ Len(jobs) > 0 /\ Len(jobs') = Len(jobs) - 1
            /\ j = jobs[1] /\ \A n \in 1..Len(jobs') : jobs'[n] = jobs[n + 1]
        BY <1>1, <2>1, ReceiveHead
      <4>2. \A n \in 1..Len(jobs') : n + 1 \in 1..Len(jobs) /\ n + 1 # 1
        BY <4>1
      <4>3. \A n \in 1..Len(jobs) : jobs[n] = jobs[1] => n = 1
        BY <4>1 DEF HeldOnce
      <4> QED
        BY <4>1, <4>2, <4>3 DEF InQueue
    <3> QED
      BY <1>1, <2>2, <3>1, <3>2, <3>3 DEF HeldOnce
  <2> QED
    BY <2>3, <2>4
<1>4. ASSUME NEW w \in Workers, Release(w) PROVE Placement'
  BY <1>1, <1>4, NoJobAssumption
     DEF Release, Replied, Placed, HeldOnce, InQueue, Accepted
<1>5. ASSUME NEW j \in Jobs, SubmitPush(j) PROVE Placement'
  <2>1. Push(j) /\ spc[j] = "push" /\ spc' = [spc EXCEPT ![j] = "count"]
    BY <1>5 DEF SubmitPush, SubmitGoto
  <2>2. UNCHANGED <<wjob, reply>>
    BY <1>5 DEF SubmitPush, workerVars
  <2>3. ~InQueue(j) /\ \A w \in Workers : wjob[w] # j
    BY <1>1, <2>1 DEF Replied, Placed, Accepted
  <2>4. Replied' /\ Placed'
    <3>1. \A i \in Jobs : InQueue(i)' => InQueue(i) \/ i = j
      <4>1. /\ Len(jobs) \in Nat /\ Len(jobs') = Len(jobs) + 1
            /\ jobs'[Len(jobs) + 1] = j
            /\ \A n \in 1..Len(jobs) : jobs'[n] = jobs[n]
        BY <1>1, <2>1, PushLast
      <4>2. \A n \in 1..Len(jobs') : n \in 1..Len(jobs) \/ n = Len(jobs) + 1
        BY <4>1
      <4> QED
        BY <4>1, <4>2 DEF InQueue
    <3>2. Accepted(j)' /\ \A i \in Jobs : Accepted(i) => Accepted(i)'
      BY <1>1, <2>1, <2>2 DEF Accepted
    <3>3. Replied'
      BY <1>1, <2>1, <2>2 DEF Replied
    <3> QED
      BY <2>2, <3>1, <3>2, <3>3 DEF Placed
  <2>5. HeldOnce'
    <3>1. \A a, b \in 1..Len(jobs') : jobs'[a] = jobs'[b] => a = b
      BY <1>1, <2>1, <2>3, PushLast DEF HeldOnce, InQueue
    <3>2. \A i : InQueue(i)' => InQueue(i) \/ i = j
      BY <1>1, <2>1, PushLast DEF InQueue
    <3> QED
      BY <1>1, <2>2, <2>3, <3>1, <3>2 DEF HeldOnce
  <2> QED
    BY <2>4, <2>5
<1>6. ASSUME NEW j \in Jobs, NEW w \in Workers, SubmitHandoff(j, w)
      PROVE  Placement'
  <2>1. /\ spc[j] = "push" /\ spc' = [spc EXCEPT ![j] = "count"]
        /\ wjob' = [wjob EXCEPT ![w] = j]
        /\ UNCHANGED <<jobs, reply>>
    BY <1>6 DEF SubmitHandoff, SubmitGoto, Take, queueVars
  <2>2. ~InQueue(j) /\ \A v \in Workers : wjob[v] # j
    BY <1>1, <2>1 DEF Replied, Placed, Accepted
  <2> QED
    BY <1>1, <2>1, <2>2 DEF Replied, Placed, HeldOnce, InQueue, Accepted
<1>7. ASSUME NEW j \in Jobs, Progress(j) PROVE Placement'
  <2>1. UNCHANGED <<jobs, wjob>>
    BY <1>7 DEF Progress
  <2>2. HeldOnce'
    BY <2>1 DEF HeldOnce, InQueue
  <2>3. Replied'
    BY <1>1, <1>7 DEF Progress, Replied, Reply
  <2>4. \A i \in Jobs : Accepted(i) => Accepted(i)'
    BY <1>1, <1>7 DEF Progress, Accepted, Reply
  <2>5. Placed'
    BY <2>1, <2>4 DEF Placed, InQueue
  <2> QED
    BY <2>2, <2>3, <2>5
<1> QED
  BY <1>2, <1>3, <1>4, <1>5, <1>6, <1>7, PlacementSteps

\* The parts of the inductive invariant proved so far hold together.
LEMMA PlacementInv == Spec => [](TypeOK /\ HoldsJob /\ Placement)
<1>1. TypeOK /\ HoldsJob /\ Placement /\ [Next]_vars
        => (TypeOK /\ HoldsJob /\ Placement)'
  BY NextType, NextPlacement
<1> QED
  BY <1>1, InitType, InitPlacement, PTL DEF Spec

\* No job is rendered by two workers, or rendered and queued, or queued
\* twice: the channel and the workers' hands never share a job.
THEOREM HeldOnceAlways == Spec => []HeldOnce
<1>1. TypeOK /\ HoldsJob /\ Placement => HeldOnce
  BY DEF Placement
<1> QED
  BY <1>1, PlacementInv, PTL

-----------------------------------------------------------------------------
(* Who owns an idempotency key, who has a record and what it says of its   *)
(* request.  From these follow OneJobPerKey, AcceptedKeepsRecord and       *)
(* RejectedLeavesNoTrace.                                                  *)

\* What keys and records depend on.
recordVars == <<results, idempotency, payload, spc, reply, cpc, cjob, ccopy>>

Records == KeysOwned /\ Recorded /\ RolledBack

\* A worker writes the status it has reached for the job it holds.
WorkerWrite(w) ==
  /\ wjob[w] \in Jobs
  /\ \E status \in Status \ {"none", "pending", "canceled"}, error \in Errors,
        pdfKey \in Jobs \cup {NoJob} : Write(w, status, error, pdfKey)
  /\ UNCHANGED <<payload, apiVars>>

\* SubmitJob moves on and leaves the store alone.
Onward(j) ==
  /\ \E to \in {"count", "rollback"} : SubmitGoto(j, "push", to)
  /\ UNCHANGED <<storeVars, payload, reply, cpc, cjob, ccopy>>

-----------------------------------------------------------------------------
(* The steps of Next, as the store sees them.                              *)

\* A step of a worker writes its job's record or leaves the store alone.
LEMMA WorkerRecords ==
  ASSUME TypeOK, HoldsJob, NEW w \in Workers, WorkerAct(w)
  PROVE  UNCHANGED recordVars \/ WorkerWrite(w)
<1> USE DEF recordVars, storeVars, queueVars, registryVars, workerVars, apiVars
<1>1. WorkerStep(w) /\ UNCHANGED apiVars
  BY DEF WorkerAct
<1>2. CASE MarkProcessing(w) \/ MarkFailed(w) \/ MarkCompleted(w)
  <2>1. wjob[w] \in Jobs /\ werr[w] \in Errors
    BY <1>2 DEF MarkProcessing, MarkFailed, MarkCompleted, Goto, HoldsJob, InJob,
                TypeOK, PoolTypeOK
  <2>2. UNCHANGED payload
    BY <1>2 DEF MarkProcessing, MarkFailed, MarkCompleted
  <2>3. {"processing", "failed", "completed"} \subseteq
          Status \ {"none", "pending", "canceled"} /\ "" \in Errors
    BY DEF Status, Terminal, Errors
  <2>4. \/ Write(w, "processing", "", NoJob) \/ Write(w, "failed", werr[w], NoJob)
        \/ Write(w, "completed", "", wjob[w])
    BY <1>2 DEF MarkProcessing, MarkFailed, MarkCompleted
  <2> QED
    BY <1>1, <2>1, <2>2, <2>3, <2>4 DEF WorkerWrite
<1>3. CASE PopJob(w) \/ PopStop(w) \/ CheckSkip(w) \/ CheckGo(w) \/ RegisterJob(w)
  BY <1>1, <1>3 DEF PopJob, PopStop, CheckSkip, CheckGo, RegisterJob
<1>4. CASE \/ RenderOK(w) \/ RenderGiveUp(w) \/ RenderRetry(w)
           \/ BackoffElapsed(w) \/ BackoffCanceled(w)
  BY <1>1, <1>4 DEF RenderOK, RenderGiveUp, RenderRetry, BackoffElapsed,
                    BackoffCanceled
<1>5. CASE ErrCanceled(w) \/ ErrFailed(w) \/ OkCanceled(w) \/ OkStore(w)
  BY <1>1, <1>5 DEF ErrCanceled, OkCanceled, Discard, ErrFailed, OkStore
<1>6. CASE PutOK(w) \/ PutFailed(w) \/ Notify(w) \/ Finish(w)
  BY <1>1, <1>6 DEF PutOK, PutFailed, Notify, Finish
<1> QED
  BY <1>1, <1>2, <1>3, <1>4, <1>5, <1>6 DEF WorkerStep

\* A step reserves a key, writes, deletes or reads a record, moves a handler
\* on, or leaves keys and records alone.
LEMMA RecordSteps ==
  ASSUME TypeOK, HoldsJob, [Next]_vars
  PROVE  \/ UNCHANGED recordVars
         \/ \E w \in Workers : WorkerWrite(w)
         \/ \E j \in Jobs, req \in Requests :
              SubmitReserve(j, req) \/ SubmitIdempotent(j, req)
         \/ \E j \in Jobs :
              SubmitInit(j) \/ Onward(j) \/ SubmitRollback(j) \/ SubmitAccept(j)
         \/ \E c \in Cancellers, j \in Jobs : CancelRead(c, j)
         \/ \E c \in Cancellers : CancelWrite(c) \/ CancelSignal(c)
<1> USE DEF recordVars, storeVars, queueVars, registryVars, workerVars, apiVars,
            poolVars, vars
<1>1. ASSUME NEW j \in Jobs, SubmitAct(j)
      PROVE  SubmitInit(j) \/ Onward(j) \/ SubmitRollback(j) \/ SubmitAccept(j)
  <2>1. CASE SubmitPush(j) \/ SubmitQueueFull(j)
    BY <2>1 DEF SubmitPush, SubmitQueueFull, Onward
  <2>2. ASSUME NEW w \in Workers, SubmitHandoff(j, w) PROVE Onward(j)
    BY <2>2 DEF SubmitHandoff, Onward
  <2> QED
    BY <1>1, <2>1, <2>2 DEF SubmitAct, SubmitStep
<1>2. CASE \E req \in Requests : SubmitInvalid(req)
  BY <1>2 DEF SubmitInvalid
<1>3. CASE \/ Quit \/ ShutdownDone \/ ShutdownTimeout \/ WaitDone
           \/ WaitTimeout \/ UNCHANGED vars
  BY <1>3 DEF Quit, ShutdownDone, ShutdownTimeout, WaitDone, WaitTimeout
<1>4. CASE NewCancel \/ \E c \in Cancellers : CancelAct(c)
  BY <1>4 DEF NewCancel, CancelAct, CancelStep
<1> QED
  BY <1>1, <1>2, <1>3, <1>4, WorkerRecords DEF Next, NewSubmit, Exited

\* Set changes one record: it takes status, error and PDF key from the
\* caller, and what was asked for from either when they agree on it.
LEMMA SetRecord ==
  ASSUME StoreTypeOK, NEW j \in Jobs, NEW r \in JobResult, Set(j, r),
         SamePayload(r, j), Exists(j) => SamePayload(results[j], j)
  PROVE  /\ \A i \in Jobs \ {j} : results'[i] = results[i]
         /\ results'[j].status = r.status
         /\ results'[j].pdfKey = r.pdfKey
         /\ SamePayload(results'[j], j)
<1>1. results' = [results EXCEPT ![j] = Merge(results[j], r)]
  BY DEF Set
<1>2. results'[j] = Merge(results[j], r) /\ results[j] \in JobResult
  BY <1>1 DEF StoreTypeOK
<1>3. \A i \in Jobs \ {j} : results'[i] = results[i]
  BY <1>1 DEF StoreTypeOK
<1>4. CASE ~Exists(j)
  BY <1>2, <1>3, <1>4 DEF Merge, Exists
<1>5. CASE Exists(j)
  BY <1>2, <1>3, <1>5 DEF Merge, Exists, SamePayload, JobResult
<1> QED
  BY <1>4, <1>5

\* Delete forgets one record.
LEMMA DeleteRecord ==
  ASSUME StoreTypeOK, NEW j \in Jobs, Delete(j)
  PROVE  /\ \A i \in Jobs \ {j} : results'[i] = results[i]
         /\ results'[j].status = "none"
<1>1. CASE ~Exists(j)
  BY <1>1 DEF Delete, storeVars, Exists
<1>2. CASE Exists(j)
  <2>1. results' = [results EXCEPT ![j] = NoResult]
    BY <1>2 DEF Delete
  <2> QED
    BY <2>1 DEF StoreTypeOK, NoResult
<1> QED
  BY <1>1, <1>2

-----------------------------------------------------------------------------
(* Keys.                                                                   *)

\* Initially no key is reserved and there is no record.
LEMMA InitRecords == Init => Records
<1> SUFFICES ASSUME Init PROVE Records
  OBVIOUS
<1>1. \A j \in Jobs : spc[j] = "idle" /\ ~Accepted(j) /\ ~Exists(j)
  BY DEF Init, ApiInit, StoreInit, NoResult, Accepted, Exists
<1>2. KeysOwned
  BY <1>1, NoJobAssumption DEF Init, StoreInit, KeysOwned, Live
<1>3. Recorded /\ RolledBack
  BY <1>1 DEF Init, ApiInit, Recorded, RolledBack
<1> QED
  BY <1>2, <1>3 DEF Records

\* Reserving gives a free key to a submission that has none yet; only the
\* rollback of its owner frees it.
LEMMA NextKeysOwned ==
  ASSUME TypeOK, HoldsJob, Placement, Records, [Next]_vars
  PROVE  KeysOwned'
<1>1. /\ payload \in [Jobs -> Payload]
      /\ idempotency \in [Keys -> Jobs \cup {NoJob}]
      /\ spc \in [Jobs -> {"idle", "init", "push", "rollback", "count", "done"}]
      /\ reply \in [Jobs -> Reply]
  BY DEF TypeOK, StoreTypeOK, QueueTypeOK, ApiTypeOK
<1>2. KeysOwned /\ Replied
  BY DEF Records, Placement
<1>3. CASE UNCHANGED <<idempotency, payload, spc, reply>>
  BY <1>2, <1>3 DEF KeysOwned, Live, Accepted
<1>4. ASSUME NEW j \in Jobs, NEW req \in Requests, SubmitReserve(j, req)
      PROVE  KeysOwned'
  <2>1. /\ spc[j] = "idle" /\ spc' = [spc EXCEPT ![j] = "init"] /\ reply' = reply
        /\ req.key \in Keys \cup {NoKey}
    BY <1>4 DEF SubmitReserve, SubmitGoto, Requests
  <2>2. ~Live(j)
    BY <1>2, <2>1 DEF Live, Accepted, Replied
  <2>3. /\ payload'[j].key = req.key
        /\ \A i \in Jobs \ {j} : payload'[i] = payload[i]
    BY <1>1, <1>4 DEF SubmitReserve
  <2>4. \A i \in Jobs : Live(i)' <=> Live(i) \/ i = j
    BY <1>1, <2>1 DEF Live, Accepted
  <2>5. CASE req.key = NoKey
    <3>1. idempotency' = idempotency /\ req.key \notin Keys
      BY <1>4, <2>5, NoKeyAssumption DEF SubmitReserve, ReserveIdempotencyKey
    <3> QED
      BY <1>1, <1>2, <2>2, <2>3, <2>4, <3>1 DEF KeysOwned
  <2>6. CASE req.key \in Keys
    <3>1. /\ idempotency[req.key] = NoJob
          /\ idempotency' = [idempotency EXCEPT ![req.key] = j]
      BY <1>4, <2>6, NoKeyAssumption
         DEF SubmitReserve, ReserveIdempotencyKey, CanReserve
    <3> QED
      BY <1>1, <1>2, <2>2, <2>3, <2>4, <2>6, <3>1, NoJobAssumption DEF KeysOwned
  <2> QED
    BY <2>1, <2>5, <2>6
<1>5. ASSUME NEW j \in Jobs, SubmitRollback(j)
      PROVE  KeysOwned'
  <2>1. /\ spc[j] = "rollback" /\ spc' = [spc EXCEPT ![j] = "done"]
        /\ reply' = [reply EXCEPT ![j] = [code |-> "queue_full", job |-> NoJob]]
        /\ payload' = payload /\ Delete(j)
    BY <1>5 DEF SubmitRollback, SubmitGoto, Answer, queueVars
  <2>2. Exists(j) /\ results[j].key = payload[j].key
    BY <2>1 DEF Records, Recorded, SamePayload
  <2>3. \A k \in Keys : idempotency'[k] =
          IF k = payload[j].key THEN NoJob ELSE idempotency[k]
    BY <2>1, <2>2 DEF Delete
  <2>4. \A i \in Jobs : Live(i)' <=> Live(i) /\ i # j
    BY <1>1, <1>2, <2>1 DEF Live, Accepted, Replied
  <2>5. Live(j)
    BY <2>1 DEF Live
  <2> QED
    BY <1>2, <2>1, <2>3, <2>4, <2>5, NoJobAssumption DEF KeysOwned
<1>6. ASSUME UNCHANGED <<idempotency, payload>>,
             \A i \in Jobs : Live(i)' <=> Live(i)
      PROVE  KeysOwned'
  BY <1>2, <1>6 DEF KeysOwned
<1>7. ASSUME NEW j \in Jobs, NEW req \in Requests, SubmitIdempotent(j, req)
      PROVE  KeysOwned'
  BY <1>1, <1>2, <1>6, <1>7
     DEF SubmitIdempotent, SubmitGoto, Answer, Live, Accepted, Replied,
         storeVars, queueVars
<1>8. ASSUME NEW j \in Jobs, SubmitInit(j) \/ Onward(j) \/ SubmitAccept(j)
      PROVE  KeysOwned'
  <2>1. UNCHANGED <<idempotency, payload>>
    BY <1>8 DEF SubmitInit, Set, Onward, SubmitAccept, storeVars, queueVars
  <2>2. \A i \in Jobs : Live(i)' <=> Live(i)
    <3>1. CASE SubmitInit(j)
      BY <1>1, <3>1 DEF SubmitInit, SubmitGoto, Live, Accepted
    <3>2. CASE Onward(j)
      BY <1>1, <3>2 DEF Onward, SubmitGoto, Live, Accepted
    <3>3. CASE SubmitAccept(j)
      BY <1>1, <3>3 DEF SubmitAccept, SubmitGoto, Answer, Live, Accepted
    <3> QED
      BY <1>8, <3>1, <3>2, <3>3
  <2> QED
    BY <1>6, <2>1, <2>2
<1>9. ASSUME NEW c \in Cancellers,
             \/ \E j \in Jobs : CancelRead(c, j)
             \/ CancelWrite(c) \/ CancelSignal(c)
      PROVE  UNCHANGED <<idempotency, payload, spc, reply>>
  BY <1>9 DEF CancelRead, CancelWrite, Set, CancelSignal, storeVars, queueVars
<1>10. ASSUME NEW w \in Workers, WorkerWrite(w)
       PROVE  UNCHANGED <<idempotency, payload, spc, reply>>
  BY <1>10 DEF WorkerWrite, Write, Set, apiVars
<1> QED
  BY <1>3, <1>4, <1>5, <1>7, <1>8, <1>9, <1>10, RecordSteps DEF recordVars

-----------------------------------------------------------------------------
(* Records.                                                                *)

\* A canceller writes back the copy it read, with the status replaced.
LEMMA CancelRecord ==
  ASSUME TypeOK, HoldsJob, Recorded, NEW c \in Cancellers, CancelWrite(c)
  PROVE  /\ cjob[c] \in Jobs /\ cpc[c] = "write"
         /\ \A i \in Jobs \ {cjob[c]} : results'[i] = results[i]
         /\ results'[cjob[c]].status = "canceled"
         /\ SamePayload(results'[cjob[c]], cjob[c])
<1> DEFINE r == [ccopy[c] EXCEPT !.status = "canceled",
                                 !.error = "job canceled"]
<1>1. cjob[c] \in Jobs /\ cpc[c] = "write" /\ Set(cjob[c], r)
  BY DEF CancelWrite, CancelGoto, HoldsJob
<1>2. ccopy[c] \in JobResult
  BY DEF TypeOK, ApiTypeOK
<1>3. "canceled" \in Status /\ "job canceled" \in Errors
  BY DEF Status, Terminal, Errors
<1>4. /\ r \in JobResult /\ r.status = "canceled"
      /\ r.key = ccopy[c].key /\ r.callback = ccopy[c].callback
  BY <1>2, <1>3 DEF JobResult
<1>5. SamePayload(ccopy[c], cjob[c])
  BY <1>1 DEF Recorded
<1>6. SamePayload(r, cjob[c])
  BY <1>4, <1>5 DEF SamePayload
<1>7. Exists(cjob[c]) => SamePayload(results[cjob[c]], cjob[c])
  BY <1>1 DEF Recorded
<1> HIDE DEF r
<1> QED
  BY <1>1, <1>4, <1>6, <1>7, SetRecord DEF TypeOK

\* A worker writes to the record of an accepted job, which is there.
LEMMA WorkerRecord ==
  ASSUME TypeOK, Placement, Recorded, NEW w \in Workers, wjob[w] \in Jobs,
         NEW status \in Status, NEW error \in Errors,
         NEW pdfKey \in Jobs \cup {NoJob}, Write(w, status, error, pdfKey)
  PROVE  /\ Accepted(wjob[w]) /\ Exists(wjob[w])
         /\ \A i \in Jobs \ {wjob[w]} : results'[i] = results[i]
         /\ results'[wjob[w]].status = status
         /\ results'[wjob[w]].pdfKey = pdfKey
         /\ SamePayload(results'[wjob[w]], wjob[w])
<1> DEFINE r == NewResult(payload[wjob[w]], status, error, pdfKey)
<1>1. Accepted(wjob[w]) /\ Exists(wjob[w])
  BY DEF Placement, Placed, Recorded
<1>2. SamePayload(results[wjob[w]], wjob[w])
  BY <1>1 DEF Recorded
<1>3. r \in JobResult
  BY NewResultType DEF TypeOK
<1>4. r.status = status /\ r.pdfKey = pdfKey /\ SamePayload(r, wjob[w])
  BY DEF NewResult, SamePayload
<1>5. Set(wjob[w], r)
  BY DEF Write
<1> HIDE DEF r
<1> QED
  BY <1>1, <1>2, <1>3, <1>4, <1>5, SetRecord DEF TypeOK

\* SubmitJob's first write makes a pending record.
LEMMA InitRecord ==
  ASSUME TypeOK, Recorded, NEW j \in Jobs, SubmitInit(j)
  PROVE  /\ ~Exists(j)
         /\ \A i \in Jobs \ {j} : results'[i] = results[i]
         /\ results'[j].status = "pending"
         /\ SamePayload(results'[j], j)
<1> DEFINE r == NewResult(payload[j], "pending", "", NoJob)
<1>1. ~Exists(j) /\ Set(j, r)
  BY DEF SubmitInit, SubmitGoto, Recorded
<1>2. r \in JobResult
  BY NewResultType DEF TypeOK, Status, Errors
<1>3. r.status = "pending" /\ SamePayload(r, j)
  BY DEF NewResult, SamePayload
<1> HIDE DEF r
<1> QED
  BY <1>1, <1>2, <1>3, SetRecord DEF TypeOK

\* Records appear and disappear with the steps of their own submission.
LEMMA NextRecorded ==
  ASSUME TypeOK, HoldsJob, Placement, Records, [Next]_vars
  PROVE  Recorded' /\ RolledBack'
<1>1. /\ payload \in [Jobs -> Payload]
      /\ results \in [Jobs -> JobResult]
      /\ spc \in [Jobs -> {"idle", "init", "push", "rollback", "count", "done"}]
      /\ reply \in [Jobs -> Reply]
      /\ cpc \in [Cancellers -> {"idle", "write", "signal"}]
      /\ cjob \in [Cancellers -> Jobs \cup {NoJob}]
      /\ ccopy \in [Cancellers -> JobResult]
  BY DEF TypeOK, StoreTypeOK, QueueTypeOK, ApiTypeOK
<1>2. Recorded /\ RolledBack /\ Replied
  BY DEF Records, Placement
<1> USE DEF Recorded, RolledBack, Exists, SamePayload, Accepted
<1>3. CASE UNCHANGED recordVars
  BY <1>2, <1>3 DEF recordVars
<1>4. ASSUME NEW w \in Workers, WorkerWrite(w)
      PROVE  Recorded' /\ RolledBack'
  <2> HIDE DEF Recorded, RolledBack, Exists, SamePayload, Accepted
  <2>1. PICK status \in Status \ {"none", "pending", "canceled"},
             error \in Errors, pdfKey \in Jobs \cup {NoJob} :
               Write(w, status, error, pdfKey)
    BY <1>4 DEF WorkerWrite
  <2>2. wjob[w] \in Jobs /\ UNCHANGED <<payload, apiVars>>
    BY <1>4 DEF WorkerWrite
  <2>3. /\ Accepted(wjob[w]) /\ Exists(wjob[w])
        /\ \A i \in Jobs \ {wjob[w]} : results'[i] = results[i]
        /\ results'[wjob[w]].status = status
        /\ SamePayload(results'[wjob[w]], wjob[w])
    BY <1>2, <2>1, <2>2, WorkerRecord
  <2> QED
    BY <1>2, <2>2, <2>3
       DEF Recorded, RolledBack, Exists, SamePayload, Accepted, apiVars
<1>5. ASSUME NEW j \in Jobs, NEW req \in Requests, SubmitReserve(j, req)
      PROVE  Recorded' /\ RolledBack'
  <2>1. /\ spc[j] = "idle" /\ spc' = [spc EXCEPT ![j] = "init"]
        /\ UNCHANGED <<results, reply, cpc, cjob, ccopy>>
        /\ \A i \in Jobs \ {j} : payload'[i] = payload[i]
    BY <1>1, <1>5 DEF SubmitReserve, SubmitGoto, ReserveIdempotencyKey
  <2> QED
    BY <1>1, <1>2, <2>1 DEF Replied, HoldsJob
<1>6. ASSUME NEW j \in Jobs, NEW req \in Requests, SubmitIdempotent(j, req)
      PROVE  Recorded' /\ RolledBack'
  <2>1. /\ spc[j] = "idle" /\ spc' = [spc EXCEPT ![j] = "done"]
        /\ reply'[j].code = "idempotent"
        /\ \A i \in Jobs \ {j} : reply'[i] = reply[i]
        /\ UNCHANGED <<results, payload, cpc, cjob, ccopy>>
    BY <1>1, <1>6 DEF SubmitIdempotent, SubmitGoto, Answer, storeVars, queueVars
  <2> QED
    BY <1>1, <1>2, <2>1 DEF Replied, HoldsJob
<1>7. ASSUME NEW j \in Jobs, SubmitInit(j)
      PROVE  Recorded' /\ RolledBack'
  <2>1. /\ spc[j] = "init" /\ spc' = [spc EXCEPT ![j] = "push"]
        /\ UNCHANGED <<payload, reply, cpc, cjob, ccopy>>
    BY <1>7 DEF SubmitInit, SubmitGoto, queueVars
  <2>2. /\ \A i \in Jobs \ {j} : results'[i] = results[i]
        /\ results'[j].status = "pending"
        /\ SamePayload(results'[j], j)
    BY <1>2, <1>7, InitRecord
  <2> QED
    BY <1>1, <1>2, <2>1, <2>2 DEF HoldsJob
<1>8. ASSUME NEW j \in Jobs, Onward(j)
      PROVE  Recorded' /\ RolledBack'
  BY <1>1, <1>2, <1>8 DEF Onward, SubmitGoto, storeVars, HoldsJob
<1>9. ASSUME NEW j \in Jobs, SubmitRollback(j)
      PROVE  Recorded' /\ RolledBack'
  <2>1. /\ spc[j] = "rollback" /\ spc' = [spc EXCEPT ![j] = "done"]
        /\ reply'[j].code = "queue_full"
        /\ \A i \in Jobs \ {j} : reply'[i] = reply[i]
        /\ UNCHANGED <<payload, cpc, cjob, ccopy>>
    BY <1>1, <1>9 DEF SubmitRollback, SubmitGoto, Answer, queueVars
  <2>2. /\ \A i \in Jobs \ {j} : results'[i] = results[i]
        /\ results'[j].status = "none"
    BY <1>9, DeleteRecord DEF SubmitRollback, TypeOK
  <2> QED
    BY <1>1, <1>2, <2>1, <2>2 DEF HoldsJob
<1>10. ASSUME NEW j \in Jobs, SubmitAccept(j)
       PROVE  Recorded' /\ RolledBack'
  <2>1. /\ spc[j] = "count" /\ spc' = [spc EXCEPT ![j] = "done"]
        /\ reply'[j].code = "accepted"
        /\ \A i \in Jobs \ {j} : reply'[i] = reply[i]
        /\ UNCHANGED <<results, payload, cpc, cjob, ccopy>>
    BY <1>1, <1>10 DEF SubmitAccept, SubmitGoto, Answer, storeVars, queueVars
  <2> QED
    BY <1>1, <1>2, <2>1 DEF HoldsJob
<1>11. ASSUME NEW c \in Cancellers, NEW j \in Jobs, CancelRead(c, j)
       PROVE  Recorded' /\ RolledBack'
  <2>1. UNCHANGED <<results, payload, spc, reply>>
    BY <1>11 DEF CancelRead, storeVars, queueVars
  <2>2. /\ \A d \in Cancellers \ {c} :
              cpc'[d] = cpc[d] /\ cjob'[d] = cjob[d] /\ ccopy'[d] = ccopy[d]
        /\ cpc'[c] = "write" =>
              cjob'[c] = j /\ ccopy'[c] = results[j] /\ Exists(j)
    BY <1>1, <1>11 DEF CancelRead, CancelGoto, Cancelable
  <2> QED
    BY <1>2, <2>1, <2>2
<1>12. ASSUME NEW c \in Cancellers, CancelWrite(c)
       PROVE  Recorded' /\ RolledBack'
  <2>1. UNCHANGED <<payload, spc, reply, cjob>>
    BY <1>12 DEF CancelWrite, queueVars
  <2>2. /\ cpc'[c] = "signal"
        /\ \A d \in Cancellers \ {c} : cpc'[d] = cpc[d] /\ ccopy'[d] = ccopy[d]
    BY <1>1, <1>12 DEF CancelWrite, CancelGoto
  <2>3. /\ cjob[c] \in Jobs /\ cpc[c] = "write"
        /\ \A i \in Jobs \ {cjob[c]} : results'[i] = results[i]
        /\ results'[cjob[c]].status = "canceled"
        /\ SamePayload(results'[cjob[c]], cjob[c])
    BY <1>2, <1>12, CancelRecord
  <2> QED
    BY <1>2, <2>1, <2>2, <2>3
<1>13. ASSUME NEW c \in Cancellers, CancelSignal(c)
       PROVE  Recorded' /\ RolledBack'
  <2>1. UNCHANGED <<results, payload, spc, reply, ccopy>>
    BY <1>13 DEF CancelSignal, storeVars, queueVars
  <2>2. /\ cpc'[c] = "idle"
        /\ \A d \in Cancellers \ {c} : cpc'[d] = cpc[d] /\ cjob'[d] = cjob[d]
    BY <1>1, <1>13 DEF CancelSignal, CancelGoto
  <2> QED
    BY <1>2, <2>1, <2>2
<1> QED
  BY <1>3, <1>4, <1>5, <1>6, <1>7, <1>8, <1>9, <1>10, <1>11, <1>12, <1>13,
     RecordSteps

\* Types, places, keys and records agree in every reachable state.
LEMMA RecordInv == Spec => [](TypeOK /\ HoldsJob /\ Placement /\ Records)
<1>1. TypeOK /\ HoldsJob /\ Placement /\ Records /\ [Next]_vars
        => (TypeOK /\ HoldsJob /\ Placement /\ Records)'
  BY NextType, NextPlacement, NextKeysOwned, NextRecorded DEF Records
<1> QED
  BY <1>1, InitType, InitPlacement, InitRecords, PTL DEF Spec

\* At most one submission per idempotency key is enqueued, whatever was
\* rolled back before: an accepted job owns its key, and a key has one owner.
THEOREM OneJobPerKeyAlways == Spec => []OneJobPerKey
<1>1. TypeOK /\ Records => OneJobPerKey
  BY DEF TypeOK, QueueTypeOK, Payload, Records, KeysOwned, Live, OneJobPerKey
<1> QED
  BY <1>1, RecordInv, PTL

\* An accepted job has a record forever: only the rollback of its own
\* submission deletes one, and that submission was never accepted.
THEOREM AcceptedKeepsRecordAlways == Spec => []AcceptedKeepsRecord
<1>1. Records => AcceptedKeepsRecord
  BY DEF Records, Recorded, AcceptedKeepsRecord
<1> QED
  BY <1>1, RecordInv, PTL

\* After a 503 nothing of the submission is left but possibly the record a
\* canceller wrote back: no key, no place in the channel, no worker.
THEOREM RejectedLeavesNoTraceAlways == Spec => []RejectedLeavesNoTrace
<1>1. TypeOK /\ Placement /\ Records => RejectedLeavesNoTrace
  <2> SUFFICES ASSUME TypeOK, Placement, Records,
                      NEW j \in Jobs, reply[j].code = "queue_full"
               PROVE  /\ \A k \in Keys : idempotency[k] # j
                      /\ ~InQueue(j) /\ \A w \in Workers : wjob[w] # j
                      /\ results[j].status \in {"none", "canceled"}
    BY DEF RejectedLeavesNoTrace
  <2>1. spc[j] = "done" /\ ~Accepted(j) /\ ~Live(j)
    BY DEF Placement, Replied, Accepted, Live
  <2> QED
    BY <2>1 DEF Placement, Placed, Records, KeysOwned, RolledBack
<1> QED
  BY <1>1, RecordInv, PTL

=============================================================================
