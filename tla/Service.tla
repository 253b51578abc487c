------------------------------ MODULE Service ------------------------------
(***************************************************************************)
(* One ChromaFlow process with the memory backends: the HTTP handlers, the *)
(* metadata store, the queue, the cancellation registry and the worker     *)
(* pool, put together and shut down by cmd/server/main.go.                 *)
(***************************************************************************)
EXTENDS Api

CONSTANT MaxSignals   \* bound on SIGINT and SIGTERM: with 0 none arrives

ASSUME MaxSignalsAssumption == MaxSignals \in Nat

VARIABLE phase   \* where main is, see Phases

\* "running" until a signal, "draining" inside server.Shutdown, "stopping"
\* after cancel() inside pool.Wait, "exited" once the process is gone.
Phases == {"running", "draining", "stopping", "exited"}

vars == <<poolVars, apiVars, phase>>

Init ==
  /\ StoreInit /\ QueueInit /\ RegistryInit /\ MetricsInit
  /\ PoolInit /\ ApiInit
  /\ phase = "running"

-----------------------------------------------------------------------------
(* The HTTP server hands requests to handlers while main is running, and   *)
(* while server.Shutdown waits those of connections accepted before; a     *)
(* handler that has begun goes on until the process exits.                 *)

Serving == phase \in {"running", "draining"}

NewSubmit ==
  /\ Serving
  /\ \E req \in Requests :
       \/ SubmitInvalid(req)
       \/ \E j \in Jobs : SubmitReserve(j, req) \/ SubmitIdempotent(j, req)
  /\ UNCHANGED phase

NewCancel ==
  /\ Serving
  /\ \E c \in Cancellers, j \in Jobs : CancelRead(c, j)
  /\ UNCHANGED phase

SubmitAct(j) == phase # "exited" /\ SubmitStep(j) /\ UNCHANGED phase

CancelAct(c) == phase # "exited" /\ CancelStep(c) /\ UNCHANGED phase

WorkerAct(w) ==
  phase # "exited" /\ WorkerStep(w) /\ UNCHANGED <<apiVars, phase>>

-----------------------------------------------------------------------------
(* main after the server has started.  server.Shutdown returns when every  *)
(* handler has, or gives up after ten seconds and main exits at once;      *)
(* pool.Wait shares those ten seconds.  Either timeout may win the race    *)
(* with what it guards.                                                    *)

HandlersIdle ==
  /\ \A j \in Jobs : spc[j] \in {"idle", "done"}
  /\ \A c \in Cancellers : cpc[c] = "idle"

WorkersStopped == \A w \in Workers : wpc[w] = "stopped"

Quit ==
  /\ MaxSignals > 0
  /\ phase = "running"
  /\ phase' = "draining"
  /\ UNCHANGED <<poolVars, apiVars>>

\* Mutant of ShutdownDone: the pool's context is not canceled.
ShutdownForgetsPool ==
  /\ phase = "draining" /\ HandlersIdle
  /\ phase' = "stopping"
  /\ UNCHANGED <<poolVars, apiVars>>

ShutdownDone ==
  /\ phase = "draining" /\ HandlersIdle
  /\ phase' = "stopping"
  /\ ctxDone' = TRUE
  /\ UNCHANGED <<storeVars, queueVars, registryVars, metrics, workerVars,
                 apiVars>>

ShutdownTimeout ==
  /\ phase = "draining"
  /\ phase' = "exited"
  /\ UNCHANGED <<poolVars, apiVars>>

WaitDone ==
  /\ phase = "stopping" /\ WorkersStopped
  /\ phase' = "exited"
  /\ UNCHANGED <<poolVars, apiVars>>

WaitTimeout ==
  /\ phase = "stopping"
  /\ phase' = "exited"
  /\ UNCHANGED <<poolVars, apiVars>>

Exited == phase = "exited" /\ UNCHANGED vars

Next ==
  \/ NewSubmit \/ NewCancel
  \/ \E j \in Jobs : SubmitAct(j)
  \/ \E c \in Cancellers : CancelAct(c)
  \/ \E w \in Workers : WorkerAct(w)
  \/ Quit \/ ShutdownDone \/ ShutdownTimeout \/ WaitDone \/ WaitTimeout
  \/ Exited

Spec == Init /\ [][Next]_vars

\* Goroutines that can run do run: a render ends because PAGE_TIMEOUT cancels
\* it, a callback because of WEBHOOK_TIMEOUT, a handler because it never
\* blocks.  Requests, signals and timeouts of main are left to chance.
FairSpec ==
  /\ Spec
  /\ \A w \in Workers : WF_vars(WorkerAct(w))
  /\ \A j \in Jobs : WF_vars(SubmitAct(j))
  /\ \A c \in Cancellers : WF_vars(CancelAct(c))
  /\ WF_vars(ShutdownDone) /\ WF_vars(WaitDone)

-----------------------------------------------------------------------------
(* Properties.                                                             *)

\* Every variable has its type.
TypeOK ==
  /\ StoreTypeOK /\ QueueTypeOK /\ RegistryTypeOK /\ MetricsTypeOK
  /\ PoolTypeOK /\ ApiTypeOK
  /\ phase \in Phases

\* GET /pdf/<id> of a completed job finds its PDF: processJob puts the blob
\* before it writes "completed", and no stale write of a canceller or of a
\* worker leaves a completed record whose key is missing from the store.
CompletedHasPDF == \A j \in Jobs : GetJob(j) # "pdf_not_found"

\* A job is in one place only: once in the channel or in the hands of one
\* worker, never both, so no job is rendered by two workers.
HeldOnce ==
  /\ \A a, b \in 1..Len(jobs) : jobs[a] = jobs[b] => a = b
  /\ \A v, w \in Workers : wjob[v] = wjob[w] /\ wjob[v] \in Jobs => v = w
  /\ \A w \in Workers : ~InQueue(wjob[w])

\* A worker that holds j and will still write its outcome.
WorkingOn(w, j) == wjob[w] = j /\ wpc[w] \in InJob \ {"notify", "finish"}

\* A record that says "pending" or "processing" has somebody who will move
\* it on: a pending job is being submitted, is in the channel or was just
\* popped, and a processing job is in the hands of a worker that has not yet
\* written its outcome.  No interleaving of a canceller's delayed write, a
\* rollback and a worker strands a job in an unfinished status.
NoStrandedJob ==
  \A j \in Jobs :
    /\ results[j].status = "pending" =>
         \/ spc[j] \in {"push", "rollback"}
         \/ InQueue(j)
         \/ \E w \in Workers : wjob[w] = j /\ wpc[w] \in {"check", "mark"}
    /\ results[j].status = "processing" =>
         \E w \in Workers : WorkingOn(w, j) /\ wpc[w] \notin {"check", "mark"}

\* An accepted job keeps its record: no rollback of SubmitJob and no
\* canceller's delayed write ever takes it away, so GetJob finds every job a
\* client was given a 202 for by the submission that enqueued it.
AcceptedKeepsRecord == \A j \in Jobs : Accepted(j) => Exists(j)

\* Of all submissions with one idempotency key at most one is enqueued, even
\* when earlier ones were rolled back because the queue was full.
OneJobPerKey ==
  \A i, j \in Jobs :
    Accepted(i) /\ Accepted(j) /\ payload[i].key = payload[j].key
      /\ payload[i].key # NoKey => i = j

\* A rejected submission leaves no trace that could hurt a retry: its key is
\* free again (or owned by another job), nothing of it is queued or held, and
\* if a canceller's delayed write brought its record back, that record says
\* "canceled".
RejectedLeavesNoTrace ==
  \A j \in Jobs : reply[j].code = "queue_full" =>
    /\ \A k \in Keys : idempotency[k] # j
    /\ ~InQueue(j) /\ \A w \in Workers : wjob[w] # j
    /\ results[j].status \in {"none", "canceled"}

\* While a worker renders, the registry maps its job to its own cancel
\* function, so CancelJob reaches the render; and no entry outlives its
\* worker's job.
RenderIsCancelable ==
  \A j \in Jobs, w \in Workers :
    cancels[j] = w <=>
      wjob[w] = j /\ wpc[w] \in InJob \ {"check", "mark", "register"}

\* A callback arrives at most once per job and only when it asked for one;
\* what it said is what GetJob reports from then on, or "canceled" (by a
\* canceller that had read the record before the outcome: OutcomeIsFinal).
WebhookAgrees ==
  \A j \in Jobs :
    /\ Len(hooks[j]) <= (IF payload[j].callback THEN 1 ELSE 0)
    /\ hooks[j] # <<>> => results[j].status \in {Head(hooks[j]), "canceled"}

\* The dashboard lists every stored job exactly once: order and results are
\* changed together by Set and Delete.
ListedOnce ==
  /\ \A a, b \in 1..Len(order) : order[a] = order[b] => a = b
  /\ \A j \in Jobs : Exists(j) <=> Contains(order, j)

\* chromaflow_jobs_finished_total over all statuses.
FinishedTotal ==
  metrics.finished["completed"] + metrics.finished["failed"]
    + metrics.finished["canceled"]

\* chromaflow_jobs_finished_total never counts a job twice: over all
\* statuses it stays within the number of enqueued jobs.
FinishedWithinAccepted ==
  FinishedTotal <= Cardinality({j \in Jobs : Accepted(j)})

\* A canceller that has read the record of j and will overwrite it.
Overruling(c, j) == cpc[c] = "write" /\ cjob[c] = j

\* A job that GetJob has reported as completed or failed is never reported as
\* anything else, except as canceled by a canceller that read the record
\* before it had that outcome: no canceller sets out to overrule a record
\* that has one, no worker starts on it again, and no delayed write of one
\* worker replaces the outcome another has written.
OutcomeIsFinal ==
  [][\A j \in Jobs : results[j].status \in {"completed", "failed"} =>
       /\ \/ results'[j].status = results[j].status
          \/ /\ results'[j].status = "canceled"
             /\ \E c \in Cancellers : Overruling(c, j)
       /\ \A c \in Cancellers : Overruling(c, j)' => Overruling(c, j)]_vars

\* A worker between its last look at the record of j and its write to it.
Overwriting(w, j) ==
  wjob[w] = j /\ wpc[w] \in {"mark", "fail", "put", "complete"}

CancelSettled(j) ==
  /\ Accepted(j) /\ IsCanceled(j)
  /\ \A w \in Workers : ~Overwriting(w, j)

\* A cancellation that finds no worker between its last check of the record
\* and its next write is final: the job stays canceled and no worker gets
\* past a check of it again.  (The windows that are left out are real; see
\* CanceledStaysCanceled.)
CancelSettles == [][\A j \in Jobs : CancelSettled(j) => CancelSettled(j)']_vars

\* The process implements JobService: exactly the jobs Push took are
\* accepted, those in the channel wait, those a worker holds run.
Abstract == INSTANCE JobService WITH
  Capacity <- QueueSize,
  keyOf    <- [j \in Jobs |-> IF Accepted(j) THEN payload[j].key ELSE NoKey],
  waiting  <- jobs,
  running  <- {wjob[w] : w \in Workers} \ {NoJob},
  done     <- {j \in Jobs : /\ Accepted(j) /\ ~InQueue(j)
                            /\ \A w \in Workers : wjob[w] # j}

\* Every behaviour of the process is one of JobService: jobs are accepted at
\* most once per key, start in order of acceptance and run at most once.
ImplementsJobService == Abstract!Spec

\* Every enqueued job reaches a terminal status, whatever renders fail and
\* whoever cancels.  Shutdown makes two exceptions: a job still in the
\* channel when the pool's context is canceled may stay there, and a process
\* whose ten seconds are over leaves what its workers hold as it is.
AcceptedTerminates ==
  \A j \in Jobs :
    Accepted(j) ~> \/ results[j].status \in Terminal
                   \/ ctxDone /\ InQueue(j)
                   \/ phase = "exited" /\ ~WorkersStopped

\* Once main has canceled the pool's context the workers stop by themselves,
\* although each may still take queued jobs: main always gets past pool.Wait,
\* even without its timeout.
PoolStops == phase = "stopping" ~> phase = "exited"

-----------------------------------------------------------------------------
(* What the documentation says of the code and the code does not do.       *)

\* README.md: after a cancellation the worker leaves the canceled status.
\* The worker's check and its write are separate critical sections.
CanceledStaysCanceled ==
  [][\A j \in Jobs : IsCanceled(j) /\ Accepted(j) => IsCanceled(j)']_vars

\* internal/api/openapi.go: 202 means that the job is accepted.  The reply to
\* a repeated key is sent while the first submission may yet be rolled back.
AcknowledgedJobExists ==
  \A j \in Jobs : reply[j].code = "idempotent" =>
    LET first == reply[j].job IN
      spc[first] = "done" => reply[first].code = "accepted"
=============================================================================
