---------------------------- MODULE RedisService ----------------------------
(***************************************************************************)
(* The job service on Redis: SubmitJob, CancelJob and processJob over the  *)
(* Redis metadata store, one step per command, over the Redis queue in the *)
(* terms of AtLeastOnce.  The workers are those of one instance, which     *)
(* share a registry; requests may come to this instance or to another one. *)
(*                                                                         *)
(* Compared with Service: commands fail and replies get lost, a method of  *)
(* the store is no longer atomic, the queue may deliver a job any number   *)
(* of times or lose it, and the instance may crash.  Every request carries *)
(* an idempotency key; without one SubmitJob starts at the pending record. *)
(* The retries of a render, callbacks, metrics and shutdown are in         *)
(* WorkerPool and Service.                                                 *)
(***************************************************************************)
EXTENDS RedisStorage, CancellationRegistry

CONSTANTS
  Cancellers,      \* cancel requests, each served by a goroutine of its own
  MaxEarly         \* bound on the queued copies of a job requeued early

ASSUME CallersAssumption == Jobs \cup Workers \cup Cancellers \subseteq Callers
\* A goroutine has one of the three roles.
ASSUME RolesAssumption ==
  /\ Jobs \cap Workers = {} /\ Jobs \cap Cancellers = {}
  /\ Workers \cap Cancellers = {}
ASSUME MaxEarlyAssumption == MaxEarly \in Nat

VARIABLES
  spc,       \* job -> where the submission that drew its identifier is
  key,       \* job -> idempotency key of that submission
  reply,     \* job -> what the client was answered, and the job it names
  cpc, cjob, \* canceller -> where its handler is, and for which job
  wpc,       \* worker -> where its goroutine is
  blobs,     \* keys present in the blob store
  copies, held,   \* the queue, see AtLeastOnce
  leased,    \* workers whose lease is in the processing set
  taken,     \* job -> leases written so far: none, one, or more than one (2)
  early,     \* jobs that were queued again while still being worked on
  orphans,   \* jobs with a lease in the processing set that nobody will ack
  lost,      \* jobs of which the queue lost what it had delivered
  dropped    \* jobs of which a worker ignored a failed Set

Queue == INSTANCE AtLeastOnce WITH
  begun <- {j \in Jobs : spc[j] \in {"init", "rollback", "done"}}

queueVars == <<copies, held>>
submitVars == <<spc, key, reply>>
cancelVars == <<cpc, cjob>>
leaseVars == <<leased, taken, early, orphans, lost>>
workVars == <<wpc, blobs, dropped, leaseVars>>
vars == <<redisVars, registryVars, submitVars, cancelVars, workVars,
          queueVars>>

Rejections == {"idempotency_error", "storage_error", "queue_full",
               "enqueue_error"}
WorkerStates == {"pop", "lease", "putback", "check", "mark", "render",
                 "okcheck", "errcheck", "put", "write", "ack"}

\* Every variable has its type.
TypeOK ==
  /\ StoreTypeOK /\ RegistryTypeOK
  /\ spc \in [Jobs -> {"idle", "getkey", "init", "rollback", "done"}]
  /\ key \in [Jobs -> Keys \cup {NoKey}]
  /\ reply \in [Jobs -> [code : {"none", "accepted", "idempotent"} \cup Rejections,
                         job : Jobs \cup {NoJob}]]
  /\ cpc \in [Cancellers -> {"idle", "cancel", "done"}]
  /\ cjob \in [Cancellers -> Jobs \cup {NoJob}]
  /\ wpc \in [Workers -> WorkerStates] /\ blobs \subseteq Jobs
  /\ copies \in [Jobs -> Nat]
  /\ held \in [Workers -> Jobs \cup {NoJob}]
  /\ leased \subseteq Workers /\ taken \in [Jobs -> 0..2]
  /\ early \subseteq Jobs /\ orphans \subseteq Jobs
  /\ lost \subseteq Jobs /\ dropped \subseteq Jobs

Init ==
  /\ StoreInit /\ RegistryInit
  /\ spc = [j \in Jobs |-> "idle"] /\ key = [j \in Jobs |-> NoKey]
  /\ reply = [j \in Jobs |-> [code |-> "none", job |-> NoJob]]
  /\ cpc = [c \in Cancellers |-> "idle"] /\ cjob = [c \in Cancellers |-> NoJob]
  /\ wpc = [w \in Workers |-> "pop"] /\ blobs = {}
  /\ leased = {} /\ taken = [j \in Jobs |-> 0]
  /\ early = {} /\ orphans = {} /\ lost = {} /\ dropped = {}
  /\ Queue!QueueInit

-----------------------------------------------------------------------------
(* SubmitJob.                                                              *)

Answer(j, code, named) ==
  /\ reply' = [reply EXCEPT ![j] = [code |-> code, job |-> named]]
  /\ spc' = [spc EXCEPT ![j] = "done"]

SubmitGoto(j, to) == spc' = [spc EXCEPT ![j] = to] /\ UNCHANGED reply

Record(j, status, error, pdfKey, k) ==
  NewResult([key |-> k, callback |-> FALSE], status, error, pdfKey)

\* The pending record.
Initialize(j, k) ==
  SubmitGoto(j, "init") /\ Set(j, j, Record(j, "pending", "", NoJob, k))

\* SET NX of the request's key.
SubmitReserve(j) ==
  /\ spc[j] = "idle"
  /\ \E k \in Keys, o \in Outcomes :
       /\ key' = [key EXCEPT ![j] = k]
       /\ SetNX(k, j, o)
       /\ Count(o)
       /\ CASE Reserved(k, o) -> Initialize(j, k)
            [] o # "ok" -> Answer(j, "idempotency_error", NoJob)
                             /\ UNCHANGED call
            [] OTHER -> SubmitGoto(j, "getkey") /\ UNCHANGED call
  /\ UNCHANGED <<hash, order, registryVars, cancelVars, workVars, queueVars>>

\* GET of a key that was there for SET NX and may be gone by now.
SubmitGetKey(j) ==
  /\ spc[j] = "getkey"
  /\ \E o \in Outcomes :
       /\ IF o = "ok" THEN Answer(j, "idempotent", idem[key[j]])
                      ELSE Answer(j, "idempotency_error", NoJob)
       /\ Count(o)
  /\ UNCHANGED <<hash, order, idem, call, key, registryVars, cancelVars,
                 workVars, queueVars>>

\* The handler returns without releasing the key it reserved.
SubmitStorageError(j) ==
  /\ spc[j] = "init" /\ Returned(j) /\ call[j].err
  /\ Answer(j, "storage_error", NoJob)
  /\ UNCHANGED <<redisVars, key, registryVars, cancelVars, workVars,
                 queueVars>>

\* Mutant of SubmitPush: what Set returned is not looked at.
SubmitPushUnchecked(j) ==
  /\ spc[j] = "init" /\ Returned(j)
  /\ Answer(j, "accepted", j)
  /\ Queue!Enqueue(j)
  /\ UNCHANGED <<redisVars, key, registryVars, cancelVars, workVars>>

\* Push: sent, sent without an answer, or not sent.
SubmitPush(j) ==
  /\ spc[j] = "init" /\ Returned(j) /\ ~call[j].err
  /\ \E o \in Outcomes :
       /\ IF o = "ok"
            THEN Answer(j, "accepted", j) /\ UNCHANGED call
            ELSE /\ spc' = [spc EXCEPT ![j] = "rollback"]
                 /\ reply' = [reply EXCEPT ![j].code = "enqueue_error"]
                 /\ Delete(j, j)
       /\ IF o = "refused" THEN UNCHANGED queueVars ELSE Queue!Enqueue(j)
       /\ Count(o)
  /\ UNCHANGED <<hash, order, idem, key, registryVars, cancelVars, workVars>>

\* Push found the queue full: roll back.
SubmitQueueFull(j) ==
  /\ spc[j] = "init" /\ Returned(j) /\ ~call[j].err
  /\ spc' = [spc EXCEPT ![j] = "rollback"]
  /\ reply' = [reply EXCEPT ![j].code = "queue_full"]
  /\ Delete(j, j)
  /\ UNCHANGED <<hash, order, idem, faults, key, registryVars, cancelVars,
                 workVars, queueVars>>

\* Delete is back, whatever came of it; the client gets its error.
SubmitRejected(j) ==
  /\ spc[j] = "rollback" /\ Returned(j)
  /\ SubmitGoto(j, "done")
  /\ UNCHANGED <<redisVars, key, registryVars, cancelVars, workVars,
                 queueVars>>

Submit(j) ==
  \/ SubmitReserve(j) \/ SubmitGetKey(j) \/ SubmitStorageError(j)
  \/ SubmitPush(j) \/ SubmitQueueFull(j) \/ SubmitRejected(j)

-----------------------------------------------------------------------------
(* CancelJob: storage.Cancel, then the registry of the instance that got   *)
(* the request, whether Cancel succeeded or not.                           *)

CancelBegin(c, j) ==
  /\ cpc[c] = "idle"
  /\ cpc' = [cpc EXCEPT ![c] = "cancel"] /\ cjob' = [cjob EXCEPT ![c] = j]
  /\ Cancel(c, j)
  /\ UNCHANGED <<hash, order, idem, faults, registryVars, submitVars, workVars,
                 queueVars>>

CancelSignal(c) ==
  /\ cpc[c] = "cancel" /\ Returned(c)
  /\ cpc' = [cpc EXCEPT ![c] = "done"] /\ cjob' = [cjob EXCEPT ![c] = NoJob]
  /\ call' = [call EXCEPT ![c] = NoCall]
  /\ CancelContext(cjob[c]) \/ UNCHANGED registryVars
  /\ UNCHANGED <<hash, order, idem, faults, submitVars, workVars,
                 queueVars>>

-----------------------------------------------------------------------------
(* worker and processJob.                                                  *)

WorkerGoto(w, from, to) ==
  /\ wpc[w] = from /\ Returned(w)
  /\ wpc' = [wpc EXCEPT ![w] = to]

\* Set with the outcome of the job, built from what the queue delivered.
Write(w, status, error, pdfKey) ==
  Set(w, held[w], Record(held[w], status, error, pdfKey, key[held[w]]))

\* BRPOP hands over a copy; when its reply is lost, the copy is gone.
Brpop(w) ==
  /\ wpc[w] = "pop"
  /\ UNCHANGED <<hash, order, idem, call, registryVars, submitVars, cancelVars,
                 blobs, dropped, leased, taken, early, orphans>>
  /\ \E j \in Jobs, o \in Outcomes \ {"refused"} :
       /\ Count(o)
       /\ IF o = "ok"
            THEN /\ WorkerGoto(w, "pop", "lease")
                 /\ Queue!Take(w, j)
                 /\ UNCHANGED lost
            ELSE /\ Queue!Lose(j)
                 /\ lost' = lost \cup {j}
                 /\ UNCHANGED wpc

\* ZADD of the lease; an error, whether Redis ran it or not, ends the delivery.
Zadd(w) ==
  /\ \E o \in Outcomes :
       /\ WorkerGoto(w, "lease", IF o = "ok" THEN "check" ELSE "putback")
       /\ IF o = "refused"
            THEN UNCHANGED <<leased, taken>>
            ELSE /\ leased' = leased \cup {w}
                 /\ taken' = [taken EXCEPT ![held[w]] = IF @ = 0 THEN 1 ELSE 2]
       /\ Count(o)
  /\ UNCHANGED <<hash, order, idem, call, registryVars, submitVars, cancelVars,
                 blobs, dropped, early, orphans, lost, queueVars>>

\* Mutant of PutBack: Pop returns the error of ZADD and leaves it at that.
PutBackForgotten(w) ==
  /\ WorkerGoto(w, "putback", "pop")
  /\ leased' = leased \ {w}
  /\ orphans' = IF w \in leased THEN orphans \cup {held[w]} ELSE orphans
  /\ UNCHANGED <<redisVars, registryVars, submitVars, cancelVars, blobs, dropped,
                 taken, early, lost>>
  /\ Queue!Release(w)

\* LPUSH of what BRPOP took, whose error is ignored; a lease that was written
\* after all stays behind.
PutBack(w) ==
  /\ WorkerGoto(w, "putback", "pop")
  /\ leased' = leased \ {w}
  /\ orphans' = IF w \in leased THEN orphans \cup {held[w]} ELSE orphans
  /\ UNCHANGED <<hash, order, idem, call, registryVars, submitVars, cancelVars,
                 blobs, dropped, taken>>
  /\ \E o \in Outcomes :
       /\ Count(o)
       /\ \/ /\ o # "refused"
             /\ Queue!GiveBack(w)
             /\ early' = IF w \in leased THEN early \cup {held[w]} ELSE early
             /\ UNCHANGED lost
          \/ /\ o = "refused"
             /\ Queue!Release(w)
             /\ lost' = IF w \in leased THEN lost ELSE lost \cup {held[w]}
             /\ UNCHANGED early

\* An error of Get counts as "not canceled".
IsCanceled(w, o) == Get(held[w], o).status = "canceled"

\* Mutant of Check: a job that says "processing" is left to its worker.
CheckSkipsProcessing(w) ==
  /\ LET skip == hash[held[w]].status \in {"processing", "canceled"} IN
       /\ WorkerGoto(w, "check", IF skip THEN "ack" ELSE "mark")
       /\ IF skip THEN UNCHANGED call ELSE Write(w, "processing", "", NoJob)
  /\ UNCHANGED <<hash, order, idem, faults, registryVars, submitVars,
                 cancelVars, blobs, dropped, leaseVars, queueVars>>

Check(w) ==
  /\ \E o \in Outcomes :
       /\ WorkerGoto(w, "check", IF IsCanceled(w, o) THEN "ack" ELSE "mark")
       /\ IF IsCanceled(w, o) THEN UNCHANGED call
                              ELSE Write(w, "processing", "", NoJob)
       /\ Count(o)
  /\ UNCHANGED <<hash, order, idem, registryVars, submitVars, cancelVars,
                 blobs, dropped, leaseVars, queueVars>>

\* What Set returned is ignored.
Ignore(w) ==
  /\ dropped' = IF call[w].err THEN dropped \cup {held[w]} ELSE dropped
  /\ call' = [call EXCEPT ![w] = NoCall]

RegisterJob(w) ==
  /\ WorkerGoto(w, "mark", "render")
  /\ Ignore(w)
  /\ Register(held[w], w)
  /\ UNCHANGED <<hash, order, idem, faults, submitVars, cancelVars, blobs,
                 leaseVars, queueVars>>

Render(w) ==
  /\ \E to \in {"okcheck", "errcheck"} : WorkerGoto(w, "render", to)
  /\ UNCHANGED <<redisVars, registryVars, submitVars, cancelVars, blobs,
                 dropped, leaseVars, queueVars>>

\* A canceled job is left as it is.
ErrCheck(w) ==
  /\ \E o \in Outcomes :
       /\ WorkerGoto(w, "errcheck", "write")
       /\ IF IsCanceled(w, o) THEN UNCHANGED call
                              ELSE Write(w, "failed", "render", NoJob)
       /\ Count(o)
  /\ UNCHANGED <<hash, order, idem, registryVars, submitVars, cancelVars,
                 blobs, dropped, leaseVars, queueVars>>

\* Mutant of OkCheck: the record is not looked at again.
OkCheckSkipped(w) ==
  /\ WorkerGoto(w, "okcheck", "put")
  /\ UNCHANGED <<redisVars, registryVars, submitVars, cancelVars, blobs,
                 dropped, leaseVars, queueVars>>

OkCheck(w) ==
  /\ \E o \in Outcomes :
       /\ WorkerGoto(w, "okcheck", IF IsCanceled(w, o) THEN "write" ELSE "put")
       /\ Count(o)
  /\ UNCHANGED <<hash, order, idem, call, registryVars, submitVars, cancelVars,
                 blobs, dropped, leaseVars, queueVars>>

\* Mutant of Put: what the blob store answered is not looked at.
PutUnchecked(w) ==
  /\ WorkerGoto(w, "put", "write")
  /\ \E o \in Outcomes :
       /\ blobs' = IF o = "refused" THEN blobs ELSE blobs \cup {held[w]}
       /\ Write(w, "completed", "", held[w])
       /\ Count(o)
  /\ UNCHANGED <<hash, order, idem, registryVars, submitVars, cancelVars,
                 dropped, leaseVars, queueVars>>

\* The blob store takes the PDF or reports an error.
Put(w) ==
  /\ WorkerGoto(w, "put", "write")
  /\ \E o \in Outcomes :
       /\ blobs' = IF o = "refused" THEN blobs ELSE blobs \cup {held[w]}
       /\ IF o = "ok" THEN Write(w, "completed", "", held[w])
                      ELSE Write(w, "failed", "blob", NoJob)
       /\ Count(o)
  /\ UNCHANGED <<hash, order, idem, registryVars, submitVars, cancelVars,
                 dropped, leaseVars, queueVars>>

\* Mutant of Finish: unregister is left to the next job of the worker.
FinishRegistered(w) ==
  /\ WorkerGoto(w, "write", "ack")
  /\ Ignore(w)
  /\ UNCHANGED <<hash, order, idem, faults, registryVars, submitVars,
                 cancelVars, blobs, leaseVars, queueVars>>

Finish(w) ==
  /\ WorkerGoto(w, "write", "ack")
  /\ Ignore(w)
  /\ Unregister(held[w], w)
  /\ UNCHANGED <<hash, order, idem, faults, submitVars, cancelVars, blobs,
                 leaseVars, queueVars>>

\* ZREM of the worker's lease, if it is still there; an error is only logged.
Ack(w) ==
  /\ WorkerGoto(w, "ack", "pop")
  /\ leased' = leased \ {w}
  /\ \E o \in Outcomes :
       /\ orphans' = IF o = "refused" /\ w \in leased
                       THEN orphans \cup {held[w]} ELSE orphans
       /\ Count(o)
  /\ UNCHANGED <<hash, order, idem, call, registryVars, submitVars, cancelVars,
                 blobs, dropped, taken, early, lost>>
  /\ Queue!Release(w)

Work(w) ==
  \/ Brpop(w) \/ Zadd(w) \/ PutBack(w) \/ Check(w) \/ RegisterJob(w) \/ Render(w)
  \/ ErrCheck(w) \/ OkCheck(w) \/ Put(w) \/ Finish(w) \/ Ack(w)

-----------------------------------------------------------------------------
(* requeueExpired, by a worker of this or of another instance: ZREM and    *)
(* LPUSH.  "refused" stands for every way in which the lease is removed    *)
(* and the job not pushed: a lost reply to ZREM, a failed LPUSH, a crash   *)
(* in between.                                                             *)

\* A lease ends while its worker is busy, or a stale batch names one that was
\* acked or requeued before: another copy of a job that was leased, again and
\* again.
Redeliver(j) ==
  /\ taken[j] > 0 /\ copies[j] < MaxEarly
  /\ UNCHANGED <<hash, order, idem, call, registryVars, submitVars, cancelVars,
                 wpc, blobs, dropped, taken, orphans, lost>>
  /\ \E o \in Outcomes, v \in {NoWorker} \cup {w \in leased : held[w] = j} :
       /\ leased' = leased \ {v}
       /\ IF o = "refused"
            THEN UNCHANGED <<early, queueVars>>
            ELSE early' = early \cup {j} /\ Queue!Enqueue(j)
       /\ Count(o)

\* A lease that nobody will ack ends.
Recover(j) ==
  /\ j \in orphans
  /\ orphans' = orphans \ {j}
  /\ UNCHANGED <<hash, order, idem, call, registryVars, submitVars, cancelVars,
                 wpc, blobs, dropped, leased, taken, early>>
  /\ \E o \in Outcomes :
       /\ IF o = "refused"
            THEN lost' = lost \cup {j} /\ UNCHANGED queueVars
            ELSE Queue!Enqueue(j) /\ UNCHANGED lost
       /\ Count(o)

HeldBy(W) == {held[w] : w \in W} \ {NoJob}

\* The instance dies and starts again: its workers, their calls and its
\* registry are gone.  The leases stay; a job without one, because ZADD had
\* not run or because the lease had ended before, is in no key of Redis.
Crash ==
  /\ faults < MaxFaults
  /\ \E w \in Workers : held[w] # NoJob
  /\ orphans' = orphans \cup HeldBy(leased)
  /\ lost' = lost \cup HeldBy(Workers \ leased)
  /\ leased' = {}
  /\ wpc' = [w \in Workers |-> "pop"] /\ held' = [w \in Workers |-> NoJob]
  /\ call' = [p \in Callers |-> IF p \in Workers THEN NoCall ELSE call[p]]
  /\ cancels' = [j \in Jobs |-> NoWorker] /\ jobCtx' = [w \in Workers |-> FALSE]
  /\ faults' = faults + 1
  /\ UNCHANGED <<hash, order, idem, submitVars, cancelVars, blobs, taken,
                 early, dropped, copies>>

Command(p) ==
  /\ StoreStep(p)
  /\ UNCHANGED <<registryVars, submitVars, cancelVars, workVars,
                 queueVars>>

Next ==
  \/ \E p \in Callers : Command(p)
  \/ \E j \in Jobs : Submit(j) \/ Redeliver(j) \/ Recover(j)
  \/ \E c \in Cancellers : CancelSignal(c) \/ \E j \in Jobs : CancelBegin(c, j)
  \/ \E w \in Workers : Work(w)
  \/ Crash

Spec == Init /\ [][Next]_vars

-----------------------------------------------------------------------------
(* Properties.                                                             *)

Accepted(j) == reply[j].code = "accepted"
Exists(j) == hash[j] # NoResult
Listed(j) == j \in order

\* At most one submission per idempotency key is answered with its own
\* acceptance, whatever commands fail, replies get lost or rollbacks race.
OneAcceptedPerKey ==
  \A i, j \in Jobs :
    Accepted(i) /\ Accepted(j) /\ key[i] = key[j] /\ key[i] # NoKey => i = j

\* An accepted job can be found by its identifier, and in the list behind the
\* dashboard unless the LPUSH whose error Set ignores has failed: no Set, Cancel or
\* Delete that runs at the same time takes it away.
AcceptedOnRecord ==
  \A j \in Jobs : Accepted(j) => Exists(j) /\ (Listed(j) \/ faults > 0)

\* A key stays with a submission that was rejected only after a failed
\* command (SubmitJob gives no key back when Set fails, and ignores what
\* Delete returns); and a repeated request is answered with an empty
\* identifier only when a rollback took the key between SET NX and GET.
KeysFollowJobs ==
  \A j \in Jobs :
    /\ spc[j] = "done" /\ reply[j].code \in Rejections
         => faults > 0 \/ \A k \in Keys : idem[k] # j
    /\ reply[j].code = "idempotent" /\ reply[j].job = NoJob
         => \E i \in Jobs : key[i] = key[j] /\ reply[i].code \in Rejections

InRender(w) == wpc[w] \in {"render", "okcheck", "errcheck", "put", "write"}

\* The registry never cancels a context other than one the job is rendered
\* under, and a render it does not know of is one of several deliveries of
\* its job to this instance.
RegistryServesRender ==
  /\ \A j \in Jobs, w \in Workers :
       cancels[j] = w => held[w] = j /\ InRender(w)
  /\ \A w \in Workers :
       InRender(w) /\ cancels[held[w]] # w => held[w] \in early

\* A cancellation is settled when nobody is between its last look at the
\* record and a write to it.
Overwriting(w, j) ==
  /\ held[w] = j
  /\ \/ ~Returned(w)
     \/ wpc[w] = "put"

CancelSettled(j) ==
  /\ Accepted(j) /\ hash[j].status = "canceled"
  /\ \A w \in Workers : ~Overwriting(w, j)

\* A settled cancellation is final, also when the job is delivered again or
\* its instance crashes; only a worker whose Get fails takes a canceled job
\* for one that is not.
CancelSettles ==
  [][\A j \in Jobs : CancelSettled(j) =>
       CancelSettled(j)' \/ faults' # faults]_vars

\* The record of an accepted job is terminal unless somebody will still move
\* it on: a copy of the job is queued, a worker holds it, or a lease of it is
\* left.  Neither a cancellation nor any number of deliveries nor a crash of
\* a worker with a lease strands it.  What does: a queue that lost it (a fault
\* between BRPOP and ZADD, or between ZREM and LPUSH; a crash after the lease
\* had ended), and a worker that ignored that it could not write the record.
NoStrandedJob ==
  \A j \in Jobs :
    Accepted(j) /\ hash[j].status \notin Terminal =>
      \/ copies[j] > 0 \/ j \in orphans \/ \E w \in Workers : held[w] = j
      \/ j \in lost \/ j \in dropped

\* A record that says "completed" names a PDF that is in the blob store,
\* whichever delivery wrote it and whatever failed before: the PDF is stored,
\* and known to be, before the Set that reports it begins.
CompletedHasPDF ==
  \A j \in Jobs : hash[j].status = "completed" => hash[j].pdfKey \in blobs

\* A cancel request that has read the record of j and will write it.
Overruling(c, j) ==
  call[c].job = j /\ call[c].at \in {"set.hgetall", "set.lpush", "set.hset"}

\* The outcome of an accepted job, completed or failed, changes only into the
\* cancellation of a request that had read the record before: once there is
\* an outcome, no request gets as far as a write.  Except for jobs that were
\* leased more than once: a worker that gets one again looks for a
\* cancellation and for no other outcome.
OutcomeIsFinal ==
  [][\A j \in Jobs :
       Accepted(j) /\ taken[j] < 2 /\ hash[j].status \in {"completed", "failed"} =>
         /\ \/ hash'[j].status = hash[j].status
            \/ /\ hash'[j].status = "canceled"
               /\ \E c \in Cancellers : Overruling(c, j)
         /\ \A c \in Cancellers : Overruling(c, j)' => Overruling(c, j)]_vars
=============================================================================
