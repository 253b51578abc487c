# ChromaFlow: TLA+ models, model-checking runs and proofs

ChromaFlow renders web pages to PDF. Clients submit URLs over HTTP, a pool of
worker goroutines renders them with Chromium, and the PDFs are fetched by job
identifier. This directory models the part of the service that can go wrong in
ways a test hardly reaches: goroutines that share a metadata store, a queue and
a registry of running renders, Redis commands of several processes that
interleave, failures between two steps, and shutdown.

Contents: 1 inventory, 2 modules and their correspondence to the code, 3 runs,
bounds and fairness, 4 what disagrees with the documentation, 5 proofs, 6 what
is not modelled, 7 plan.

## 1. Inventory of the system

| Part | State it keeps | Operations | Who calls it |
| --- | --- | --- | --- |
| job types (`internal/queue/types.go`) | - | job, status, metadata record | all |
| memory store (`internal/storage/memory.go`) | `results`, `idempotency`, `order`, one RW mutex | `Set`, `Delete`, `Get`, `Cancel` (= `Get` then `Set`, two critical sections), `ReserveIdempotencyKey`, `Stats`, `List`; `onSet` callback to the hub | handlers, workers, hub |
| memory queue (`internal/queue/memory.go`) | a buffered channel | `Push` (never blocks), `Pop` (blocks), `Ack` (nothing) | handler, workers |
| Redis queue (`internal/queue/redis.go`) | a list and a sorted set of leases in Redis | `Push` = LLEN, ZCARD, LPUSH; `Pop` = requeueExpired (ZRANGEBYSCORE, then ZREM and LPUSH per item), BRPOP, ZADD; `Ack` = ZREM | the same, from several processes |
| Redis store (`internal/storage/redis.go`) | hashes and a list in Redis | as the memory store, each of several commands | handlers, workers |
| redisx client (`internal/redisx/client.go`) | one connection under one mutex | `Do`, reconnect after an error | both Redis backends |
| cancellation registry (`internal/cancellation/registry.go`) | job -> cancel function, mutex | `Register`, `Unregister`, `Cancel` | workers, cancel handler |
| worker pool (`internal/worker/worker.go`) | goroutines, a wait group | `Start`, `Wait`, `worker`, `processJob`, `generateWithRetries`, `notify` | main |
| PDF generator (`internal/pdf/generator.go`) | one shared browser | `GeneratePDF`, `Close` | workers |
| blob stores (`internal/blob`) | key -> bytes | `Put`, `Get`, `Delete` (never called) | workers, `GetJob` |
| webhook notifier (`internal/webhook`) | - | `Notify`: one POST, no retry | workers |
| HTTP job API (`internal/api/handler.go`) | - | `SubmitJob`, `CancelJob`, `GetJob`, dashboard, websocket, health | net/http goroutines |
| realtime hub (`internal/realtime/hub.go`) | set of clients with a buffered channel each | `BroadcastJobs`, `ServeJobs`, `add`, `remove` | store callback, websocket handler |
| metrics (`internal/observability`) | counters, mutex | job counters, HTTP middleware, text output | handlers, workers |
| process (`cmd/server/main.go`) | wiring, root context | start, signal, `server.Shutdown`, `cancel`, `pool.Wait` | - |

Hard behaviours, and what makes each part correct:

* **Check-then-write on one record.** `processJob` reads the record, and later
  writes it, under separate locks; so does `Cancel`. Correct means: no record is
  stranded in an unfinished status, a completed record has its PDF, a settled
  cancellation is final, and so is an outcome but for a cancellation that read
  the record before it had one. (`NoStrandedJob`, `CompletedHasPDF`, `CancelSettles`,
  `OutcomeIsFinal`.)
* **Reserve, record, enqueue, roll back.** `SubmitJob` takes four steps, the
  last of which may fail. Correct means: one enqueued job per key, nothing of a
  rejected submission is left, an accepted job keeps its record.
  (`OneJobPerKey`, `RejectedLeavesNoTrace`, `AcceptedKeepsRecord`.)
* **Hand-over of a job.** Channel, worker, and back to nobody: a job is in one
  place, starts in order of acceptance, runs at most once. (`HeldOnce`,
  `ImplementsJobService`.)
* **Cancellation of a running render** through a map filled and emptied by
  workers and read by handlers. (`RenderIsCancelable`.)
* **Retries, callbacks, counters** around a result another goroutine may
  overwrite. (`WebhookAgrees`, `FinishedWithinAccepted`.)
* **Shutdown** with a ten-second budget. (`PoolStops`, `AcceptedTerminates`.)
* **Leases in Redis** across crashes, lost replies and late acknowledgements.
  (`LossNeedsFaultInTransit`, `LeaseKept`, `Recovered`, `ImplementsAtLeastOnce`.)
* **Lease ends** computed on different hosts and cut to whole seconds.
  (`KeptForBudget`, `AbandonedIsRequeued`.)
* **Records in Redis** written by several commands that interleave, fail or are
  not answered, for jobs that may be delivered again and again or get lost. (`OneAcceptedPerKey`,
  `AcceptedOnRecord`, `KeysFollowJobs`, `RegistryServesRender`, and
  `NoStrandedJob`, `CancelSettles`, `CompletedHasPDF` and `OutcomeIsFinal` of
  `RedisService`.)
* **One connection, one mutex** for all Redis commands of a backend.
  (`DoIsFaithful`, `DoReturnsUnlessSilent`.)
* **One browser** launched on demand, shared, and killed at the end.
  (`NoChromiumLost`, `RendersReturn`.)
* **Dashboards** that connect, stall and leave while goroutines broadcast to
  them. (`LatestIsOffered`, `ChangeReturns`, `LeavesOnClose`.)

`PROJECT.json` lists the hazards line by line, with the properties that cover
them or the reason why none does yet.

## 2. Modules

```
JobTypes
  MemoryStorage  MemoryQueue  CancellationRegistry  Metrics
           \          |            |                /
                      WorkerPool
                         Api
                       Service  -- INSTANCE --> JobService (abstract)
                      ServiceInv
          MCService     ServiceProofs
                        OutcomeProofs

RedisQueue   -- INSTANCE --> AtLeastOnce (abstract)
RedisQueueProofs                 ^
JobTypes                         |
  RedisStorage  CancellationRegistry
          RedisService -- INSTANCE
 MCRedisService     RedisServiceProofs

LeaseClock    RedisClient          Generator          Hub
LeaseProofs   RedisClientProofs    GeneratorProofs    HubProofs
```

The two Redis stacks meet in `AtLeastOnce`: `RedisQueue` is shown to implement
it, and `RedisService` takes the steps of its queue from it: a push, a delivery,
a job put back, released or lost. When they happen is said in `RedisService`
itself, which follows a lease from ZADD to Ack, requeue or crash as `RedisQueue`
does, without its batches and lease numbers. `RedisClient` justifies the
outcomes of a command that both stacks use (done, refused, run but unanswered),
and `LeaseClock` bounds the expiry that `RedisQueue` allows at any time.

**One step = the code from one access of shared state to the next.** Every
method of the memory store, the registry and the metrics holds its mutex from
beginning to end, so a method is one atomic operator. A goroutine between two
such calls is a program counter (`wpc`, `spc`, `cpc`) plus what its local
variables hold (`wjob`, `werr`, `attempt`, `ccopy`). Metrics only add and are
read by nobody, so the call is merged into the step next to it. Definitions
named in a comment "Mutant of ..." are deliberately wrong variants that show
that a property can fail; `PROJECT.json` says which property each one breaks.

* `JobTypes`: identifiers, keys, statuses, `JobResult`. URLs, sizes, time stamps
  and request identifiers are left out because nothing branches on them; a
  callback URL is present or absent; an error string is reduced to where it
  comes from.
* `MemoryStorage`: `results`, `idempotency`, `order`; `Set` with its merge of
  fields the caller left empty, `Delete`, `ReserveIdempotencyKey`. `Cancel` is
  split into `CancelRead` and `CancelWrite` of `Api`, because the code releases
  the lock in between.
* `MemoryQueue`: the channel `jobs`. `Push` is the send case of the `select`,
  `~HasRoom` its default. For capacity 0 the send succeeds only together with a
  receive (`SubmitHandoff` in `Api`).
* `CancellationRegistry`: `cancels` (job -> worker whose cancel function is
  registered) and `jobCtx` (was that context canceled).
* `Metrics`: the submitted, rejected and finished counters.
* `WorkerPool`: the worker goroutine. `PopJob`, `PopStop`; `CheckSkip`,
  `CheckGo`, `MarkProcessing`, `RegisterJob`; `RenderOK`, `RenderGiveUp`,
  `RenderRetry`, `BackoffElapsed`, `BackoffCanceled`; `ErrCanceled`,
  `ErrFailed`, `MarkFailed`; `OkCanceled`, `OkStore`, `PutOK`, `PutFailed`,
  `MarkCompleted`; `Notify`, `Finish`. A render succeeds or fails at will; one
  whose context is done may also end with `context canceled`. A `Put` may fail,
  before or after the object was stored. A callback may not arrive.
* `Api`: `SubmitJob` as `SubmitInvalid`, `SubmitReserve` or `SubmitIdempotent`,
  `SubmitInit`, `SubmitPush`/`SubmitHandoff`/`SubmitQueueFull`,
  `SubmitRollback`, `SubmitAccept`; `CancelJob` as `CancelRead`, `CancelWrite`,
  `CancelSignal`; the answer of `GetJob`. The goroutine of a submission is named
  by the UUID it draws.
* `Service`: all of it with `main`: `Quit`, `ShutdownDone`, `ShutdownTimeout`,
  `WaitDone`, `WaitTimeout`; specification, fairness, properties, and the
  refinement mapping to `JobService`.
* `JobService`: the abstract promise in four variables: accepted jobs have
  distinct keys, wait in a bounded queue, start first come first served, run at
  most once.
* `ServiceInv`: the inductive invariant, in named parts.
* `ServiceProofs`, `OutcomeProofs`, and the `...Proofs` module of every other
  component: theorems (section 5).
* `RedisQueue`: the Redis queue and the workers of all processes, one action per
  Redis command. A lease is a numbered record instead of a payload with a time
  stamp, and it may expire at any time after it was taken, which covers every
  visibility timeout and every truncation of clocks. `Do` may fail before Redis
  ran the command ("refused") or after ("unanswered"); a worker's process may
  crash anywhere. `processJob` is one step here.
* `AtLeastOnce`: the abstract queue: how many copies of a job can be delivered
  and which job each worker was given. A copy may be added, taken, given back or
  lost; nothing is delivered that was not pushed.
* `RedisStorage`: the Redis metadata store. A goroutine inside a method is a
  record in `call` (the command it is at, the job, what it will write); every
  command is an action with an outcome, and an ignored error is ignored. The
  order list is the set of its members: LREM removes every entry of a job, and
  `List` skips repeated ones and sorts what it shows by creation time. That it
  shows the newest 200 is left out.
* `RedisService`: `SubmitJob`, `CancelJob` and `processJob` over `RedisStorage`
  and `AtLeastOnce`, with the `idempotency_error`, `storage_error` and
  `enqueue_error` paths the memory backends never take. `Pop` is `Brpop`, `Zadd`
  and, when ZADD fails, `PutBack`, each with its outcomes; `Ack` removes the
  lease, if it is still there. `requeueExpired` is `Redeliver`, for the lease of a
  worker that is still busy or one that is gone already, and `Recover`, for a
  lease that nobody will ack; either may lose the job between ZREM and LPUSH.
  `Crash` leaves the leases (`orphans`) and loses the jobs that have none
  (`lost`). `taken`, a history variable, says of each job whether a lease of it
  was written never, once or more often. Whether `Push` finds the queue full is left open. Callbacks, metrics, retries of a
  render and shutdown are the business of `Service` and left out here.
* `RedisClient`: the connection of the redisx client. A call of `Do` goes through
  `Lock`, `Dial` or `DialFails`, `Write`, `Read`, with AUTH and SELECT as up to
  two rounds of the same (`hello`). A broken connection may lose what was
  written, or let Redis run it later, even after `Do` returned its error. The
  other Redis modules run an unanswered command at once; a command that runs
  later still is the one thing they leave out.
* `LeaseClock`: one message and the clocks of the workers, in ticks. `Stamp` and
  `ReadClock` read a clock, `Zadd` and `Scan` use what was read, later.
* `Generator`: `EnsureShared` or `EnsureNew`, `Launch`, `Connect` and their
  failures under the mutex, then the page as one step; `Close` and the end of
  `main`. Assumed of rod, which is not in the repository: a failed `Launch`
  leaves no process, `Launch` and `Connect` fail once their context is done,
  `Kill` ends the process, and the connection outlives the context of the render
  that made it.
* `Hub`: the realtime hub. The store is a version number, a snapshot the version
  `List` saw. Writers go through `Change`, `List`, `RLock`, one `Offer` per
  client, `RUnlock`; a client's goroutine through `Connect`, `Snapshot`,
  `SendInitial` (the blocking send) and its loop (`Deliver`, `DeliverFails`,
  `SeesClose`), then `Remove`. Holding the RWMutex for reading is being in the
  broadcast loop; `CanLock` is the condition for holding it for writing.
  `offered` is a history variable that `LatestIsOffered` needs.

## 3. Runs, bounds, fairness

| Run | Instance | What it shows |
| --- | --- | --- |
| `PoolRaces` | 2 jobs, 1 key (or none), 2 workers, 1 canceller, queue of 1, no retry, no signal | type invariant, eight invariants, `CancelSettles` and `OutcomeIsFinal` over every interleaving of submitting, rolling back, canceling, rendering, failing to store and reporting |
| `RetriesShutdown` | 2 jobs, no keys, 1 worker, 1 canceller, queue of 2, 1 retry, shutdown, `FairSpec` | the inductive invariant `IInv` with retries, backoff and interrupted jobs; the refinement of `JobService` with two jobs waiting, so that order matters; `AcceptedTerminates`, `PoolStops` |
| `Handoff` | 2 jobs, 1 mandatory key, 2 workers, 1 canceller, queue of 0, one invalid request, shutdown | `OneJobPerKey` with a key that is used again after a rollback; the refinement of `JobService` where only a waiting worker can take a job; every kind of invalid request |
| `RedisLeases` | 2 jobs, 2 workers, capacity 2, batch of 2, 1 fault, `FairSpec` | `LossNeedsFaultInTransit`, `LeaseKept`, `Recovered`, and the refinement of `AtLeastOnce` |
| `HubClients` | 2 writers, 1 client, channel of 2, 3 changes, `FairSpec` | `LatestIsOffered`, `ChangeReturns`, `LeavesOnClose` |
| `RedisRecords` | 2 jobs with 1 key, 1 worker, 1 cancel request, 2 faults (refused, unanswered or crash), no early requeue | `OneAcceptedPerKey`, `AcceptedOnRecord`, `KeysFollowJobs`, `NoStrandedJob` where two commands in a row fail (ZADD and the LPUSH that makes up for it, a crash and the requeue after it): 1.1 million states up to symmetry |
| `RedisDeliveries` | 1 job, 2 workers, 1 cancel request, 1 fault, any number of early requeues with one copy queued at a time | `RegistryServesRender`, `NoStrandedJob`, `CancelSettles`, `CompletedHasPDF`, `OutcomeIsFinal` over repeated deliveries to the workers of one instance: 2.0 million states up to symmetry |
| `RedisConn` | 3 calls, AUTH and SELECT, 2 breaks or silences, 1 refusal, `FairSpec` | `DoIsFaithful`, `DoReturnsUnlessSilent` |
| `Browser` | 3 workers, 3 launches, local and remote, `FairSpec` | `NoChromiumLost`, `RendersReturn` |
| `LeaseClock` | 3 workers, 2 ticks to the second, timeout of 3 s, budget of 3 ticks, skew of 1, 10 ticks | `KeptForBudget`, `AbandonedIsRequeued` on the tightest timeout the assumption allows |
| `CancelOverwritten`, `KeyOfRolledBack` | the smallest instance | one violation each, section 4 |

Bounds. The races are between one worker, one canceller and one submission of
the same job, and between two jobs over one key or one place in the queue, so
two jobs, two workers and one canceller reach them; a canceller serves any
number of requests one after the other, so repeated cancellations are included.
Order needs two waiting jobs (`RetriesShutdown`).
`MaxInvalid` bounds only the counter of rejected requests, which change nothing
else. `MaxSignals` 0 leaves shutdown out of the runs that ask about other
things. `MaxFaults` bounds failed commands and crashes of the Redis model;
`MaxCopies` lets a lease expire only while its job has at most that many copies,
because the double requeue of section 4 can otherwise multiply a job without
end. `Callbacks` restricts which kinds of `callback_url` requests carry: jobs
with a callback are in `PoolRaces` (through `WEBHOOK_URL`),
both kinds and invalid ones in `Handoff`. Jobs, keys, workers and cancellers are
interchangeable, so the runs of `Service` without liveness use them as symmetry
sets, and so do those of `RedisService`. `MaxVersion` bounds the changes of the hub's store; a channel of one or
two places is filled by as few changes, where the code's eight need eight.
`RedisService` is checked on two instances, because one with two jobs, two
workers and repeated deliveries is out of reach: two jobs for what submissions
with one key do to each other, two workers for what two deliveries of one job
do. `MaxEarly` bounds the copies of a job that wait in the queue when a lease is
requeued early, not how often that happens. Two faults are needed for a job to
be lost by a command and the one that makes up for it; one is enough for every
other exception the properties name. A cancel request is served once, by a
goroutine of its own, and every request carries the key, which is the harder
case. In `RedisConn` three calls let one
fail, one reconnect and one wait. In `Browser` a third launch follows one that
failed and one that died; the bound on launches only makes later ones fail.
`LeaseClock` with two ticks to the second has both a cut of zero and of one, and
with the budget one tick larger TLC finds a lease that is lost, so the assumption
is tight.

Deadlock is checked except where a run reaches an end the system has:
`HubClients`, where the bounded changes run out while a client may be stuck for
ever in its initial send (section 4); `RedisRecords`,
`RedisDeliveries` and `RedisConn`, where the requests are finitely many;
`Browser`, where the process ends; and `LeaseClock`, where time does.

Fairness. `Service!FairSpec` has weak fairness of every worker, of every handler
that began, of `ShutdownDone` and of `WaitDone`: the Go scheduler runs every
goroutine that can run, a render ends because `PAGE_TIMEOUT` cancels it, a
callback because of `WEBHOOK_TIMEOUT`, no handler blocks. Requests, signals and
main's own timeouts are not assumed to happen. `RedisQueue!FairSpec` has weak
fairness of every worker (it calls `Pop` again for ever) and of the expiry of
leases (time passes); a `Push` need not go on, which stands for a process that
died in it. `Hub!FairSpec` has weak fairness of writers and of the steps of
`ServeJobs` that depend on no peer, and strong fairness of `Remove`, because
`sync.RWMutex` lets a waiting `Lock` in before later readers. `Deliver` is not
fair: a page may stop reading. `RedisClient!FairSpec` has weak fairness of every
call and of Redis on a connection that is not silent; nobody is forced to break
a silent connection. `Generator!FairSpec` has weak fairness of `Expire`
(`context.WithTimeout`), of the return of a call whose context is done, and
strong fairness of taking the mutex, because `sync.Mutex` hands over to a waiter
that starves; a launch or a page need not ever succeed.

## 4. Where code and documentation disagree

Two are runs that TLC ends with a counterexample.

1. `CancelOverwritten`: a worker reads the record (not canceled), `CancelJob`
   writes "canceled" and answers 200, the worker writes "processing" and the job
   is rendered. The README's cancellation flow says the worker leaves the
   canceled status. The window that is *not* affected is stated and checked as
   `CancelSettles`.
2. `KeyOfRolledBack`: the second request with a key gets 202 and the first
   one's identifier while the first is about to be rolled back by a full queue.

The others are exceptions that a property which holds has to make:

* `WebhookAgrees`: a completed job, reported as completed, may read "canceled"
  later, because `Cancel` writes back a copy it read before the job completed.
  Which canceller may do so is what `OutcomeIsFinal` says.
* `Hub!SendInitial`: `ServeJobs` puts a client into the map, takes its initial
  snapshot and sends it with a blocking send, and only then starts to read the
  channel. Eight changes in between fill the channel; the send then waits for
  ever, the page gets no frame although it stays connected, and the client is
  not removed even when the page goes away. `ChangeReturns` says that it holds up
  nobody else.
* `LatestIsOffered`: the newest list is offered to every client, but a page may
  stay on an older one, because the frame was dropped for a full channel or the
  older list was sent behind it.
* `LossNeedsFaultInTransit`: a crash or a lost reply between BRPOP and ZADD, or
  between ZREM and LPUSH of `requeueExpired`, loses an accepted job. The README
  calls the Redis deployment restart-tolerant, and names stronger recovery as
  remaining work.
* `AtLeastOnce!Enqueue` is not restricted to unacked jobs: `requeueExpired`
  ignores what ZREM returns and puts back an expired lease that was acked after
  it was listed.
* `KeysFollowJobs`: a key stays with a rejected submission when a command
  failed (`SubmitJob` releases nothing when `Set` fails), so every retry is told
  the identifier of a job that does not exist; and when a rollback takes the key
  between SET NX and GET, the client gets 202 with an empty identifier.
* `AcceptedOnRecord`: a job may be missing from the dashboard for good, because
  `Set` ignores the error of its LPUSH.
* `RegistryServesRender`: when a job is delivered twice to one instance, the
  second render replaces the first one's entry, and the first one's end removes
  the second one's: one of them can no longer be canceled.
* `NoStrandedJob` of `RedisService` names two ways to strand an accepted job. It
  is `lost`: a reply to BRPOP, a crash, or ZADD and the LPUSH after it fail while
  the job is in neither key; the same between ZREM and LPUSH of
  `requeueExpired`; or the instance crashes after its lease had ended. Or it is
  `dropped`: a worker ignores what `Set` returns, acks the job, and its record
  keeps the status it had.
* A submission whose LPUSH ran without an answer is answered with an error and
  its record deleted, and the job is rendered all the same. The properties of
  `RedisService` speak of accepted jobs.
* `AcceptedTerminates`: when `server.Shutdown` gives up after ten seconds, main
  exits without canceling the pool, and what the workers hold stays as it is.
* `OutcomeIsFinal` of `RedisService`: a worker looks only for "canceled", so a
  job that is delivered again after it completed goes back to "processing" and
  is rendered a second time, which may fail.
* `DoReturnsUnlessSilent`: a peer that stops answering without closing blocks
  the caller, and through the mutex every user of that backend, for ever.
* `TimeoutAssumption` of `LeaseClock`: the README asks for a visibility timeout
  above `PAGE_TIMEOUT` plus the retry budget; it takes one second and the
  difference of the hosts' clocks more, because both ends are cut.
* `Generator!EnsureShared` does not ask whether the shared browser still runs:
  once Chromium has died every render fails until the process is started again,
  and `RENDER_MAX_RETRIES` cannot help.

## 5. Proofs

Every safety property of the passing runs is a theorem, and so are the type
invariants of `RedisQueue` and `Hub`, which no run repeats. TLAPS checks them for
every value of the constants that satisfies the `ASSUME`s. These say no more
than the code does: the stand-ins for "nothing" (`NoJob`, `NoKey`, `NoWorker`, `NoLease`, `Nobody`, "none", "error") are not
jobs, keys, workers or commands; sizes and bounds are naturals, the capacity of a
hub channel and the batch limit positive; the workers of the Redis queue are
finitely many (`WorkersAssumption`, so that a fresh lease number exists); a
goroutine of `RedisService` is a submission, a canceller or a worker and not two
of them (`RolesAssumption`); the handshake has at most two rounds. The one that
a deployment has to see to is `TimeoutAssumption` of `LeaseClock`. The bounds on
faults, retries, launches, versions and queued copies are arbitrary naturals in
the proofs.

**The memory service** (`ServiceProofs`, `OutcomeProofs`). All theorems rest on
`IInv` of `ServiceInv`, which `RetriesShutdown` also checks; `PoolRaces` checks
its main parts and consequences with keys and two workers.

* `TypeCorrect`: `TypeOK` alone is not inductive. `BackoffElapsed` adds one to
  `attempt`, which stays in range only because a worker backs off only before its
  last attempt, and workers and cancellers index the store by `wjob` and `cjob`,
  which are jobs only inside `processJob` and `CancelJob`; `HoldsJob` says so.
  Lemmas state the types of the store's operators once; `RemoveFirstIsRemoveAt`
  relates the community module's `RemoveFirst` to a form the prover can handle.
* `HeldOnceAlways`: a job enters the channel or a worker's hands only by
  `SubmitPush` or `SubmitHandoff`, so `HeldOnce` needs `Placed` (what is there
  was accepted, hence is not pushed again) and `Replied`.
* `OneJobPerKeyAlways`, `AcceptedKeepsRecordAlways`,
  `RejectedLeavesNoTraceAlways`: `KeysOwned` (the map holds exactly the keys of
  submissions that are on their way or succeeded), `Recorded` (a record, and the
  copy of one that a canceller will write back, repeats its request) and
  `RolledBack`. A canceller's delayed write is why `Recorded` speaks of copies.
* `CompletedHasPDFAlways`, `RenderIsCancelableAlways`, `NoStrandedJobAlways`:
  `BlobFirst` (a worker at `MarkCompleted` has stored its PDF), and the two
  properties themselves, which are inductive given `HeldOnce`: no other worker
  can have the job whose entry or record a step replaces.
* `WebhookAgreesAlways`: needs `Reported`: until it reports, a worker's job has
  no callback, the worker holds an error exactly while it has one to report, and
  at `Notify` the record says what will be reported, or "canceled". Without the
  last part nothing relates the callback to the record.
* `CancelSettlesAlways`: an action property, step by step: a worker that holds a
  canceled job and is not past its last look reads "canceled" and writes nothing.
* `OutcomeIsFinalAlways`: an action property. `Ended` says that a job with an
  outcome was accepted, has left the queue, and is held by no worker that will
  still write it; so the only writer left is a canceller (`OutcomeStep`).
  `NoLateOverruling` adds that a canceller which reads such a record never comes
  to write it, which is the terminal check in `Cancel`.
* `FinishedWithinAcceptedAlways`: the property compares the sum of three counters
  with the number of accepted jobs, which no step relates directly. `CountedOnce`
  does: the counters add up to at most the number of jobs that were accepted,
  have left the queue, and are in nobody's hands or in those of a worker past its
  count (`PastCount`). A step that counts adds the job its worker holds to these
  jobs, where it was not before (`HeldOnce`). No bound on the number of jobs is assumed:
  the jobs accepted so far are finitely many because one step accepts one.
* `JobServiceImplemented`: the refinement. `RefinementStep` shows that a push is
  `Accept` (its key is new by `KeysOwned`, there is room by the guard), a
  hand-over to a waiting worker `AcceptAndStart`, a receive `Start` of the head
  of the queue, a release `End`, and everything else leaves the four abstract variables
  alone. `Bounded` is needed for the queue's bound.

The proofs classify the steps before they use an invariant: `PlacementSteps`,
`RecordSteps`, `OutcomeSteps`, `RegistrySteps`, `CarrySteps` and `ReportSteps`
each list the few shapes a step of `Next` can have for one group of variables,
and an invariant is then proved once per shape instead of once per action.

**The Redis queue** (`RedisQueueProofs`). `Inv` adds to the types that a lease
about to be added is unknown to Redis and to every batch (`Fresh`), and that what
is left of a batch has expired or is gone (`Stale`), so that a requeue or a late
Ack cannot hit a later lease of the same job.

* `TypeOKAlways`; in it `LeaseIsFresh`: a finite set of used numbers leaves one
  of the first `Cardinality + 1` free.
* `LeaseKeptAlways` and `LossNeedsFaultInTransitAlways`, action properties from
  `Inv`, by cases over the commands.
* `AtLeastOnceImplemented`: the refinement. `Known` (every copy is of a job whose
  Push was begun) is invariant, and three lemmas about `Positions` count the
  copies of a job when the list grows at the end or loses its head.

**The service on Redis** (`RedisServiceProofs`). The invariant `Inv` has sixteen
parts; TLC found it to hold on the instances of `RedisRecords` and
`RedisDeliveries` before it was proved. `SubmitCalls`, `CancelCalls`, `WorkCalls` and `OtherCalls` tie the method
a goroutine is in to its program counter and its job. `Recorded`, `Unwritten` and
`Unqueued` say that before a submission has written its record and pushed its
job nobody else can have them. `OnRecord`, `KeysOwned` and `RolledBack` follow a
record and a key from SET NX to the last command of a rollback, which knows the
key only if its HGETALL succeeded. `Exclusive` says that a job that was not
requeued early is in one place only: in the list, with a worker, or an orphaned
lease. `Moving` names who will still write an unfinished record, or how it was
lost. The step of a goroutine of one role leaves the parts
about the other roles alone (`SubmitterKeeps`, `CancellerKeeps`, `WorkersKeep`,
`BusyKeeps`, `CommandFrame`), so an action has to be looked at only for its own.

* `TypeOKAlways`, `OneAcceptedPerKeyAlways` (an accepted job is the one its key
  points to), `AcceptedOnRecordAlways`, `KeysFollowJobsAlways`,
  `RegistryServesRenderAlways`, `NoStrandedJobAlways`, and the action property
  `CancelSettlesAlways`.
* `CompletedHasPDFAlways` and the action property `OutcomeIsFinalAlways` need a
  second invariant, `OutcomeInv`, on top of `Inv`; it too was checked by TLC on
  both instances first. `Delivered` bounds the holders of a job that was leased at
  most once, `Ended` says that such a job with an outcome
  is past every write of its worker, and `Reports` says who brings an outcome to
  HSET and that "completed" comes after the PDF. `NoLateOverruling` is the
  terminal check in `Cancel`: a request that reads an outcome returns.
  `CommandShape`, `WorkShape` and `RequestShape` list what a step of one goroutine leaves to the others; the
  proofs about cancellations and outcomes share them.

**The others.**

* `LeaseProofs!LeaseCoversBudget` (`Spec => KeptForBudget`) and
  `LeaseProofs!AbandonedRequeuedInTime` (`Spec => AbandonedIsRequeued`), for every
  number of ticks to the second, timeout, budget and skew with
  `TimeoutAssumption`. The invariant `LInv` says that the score of a lease is the
  cut end its holder computed and that no time that was read is in the future.
  The arithmetic is in two lemmas about `\div`: times whose whole seconds are in
  order are less than a second out of order (`DivGap`), and the cut is monotone
  (`DivMonotone`).
* `RedisClientProofs!DoIsFaithfulAlways`: the holder of the mutex has the only
  command on the current connection (`Mutex`, `Between`, `Waiting`), so the reply
  it reads is its own or an error; a command left on an abandoned connection is
  there once and will run once (`Sent`). `Budget` bounds the connections by the
  faults, which is what makes a new one available to every `Dial`.
* `GeneratorProofs!NoChromiumLostAlways`: there is no shared browser while the
  mutex is held (`Locked`), so a running Chromium is the shared one or its
  holder's (`Accounted`).
* `HubProofs!TypeOKAlways`, `HubProofs!LatestIsOfferedAlways`: as long as a client
  that has taken its snapshot was not offered the latest version, it will send
  the latest itself or some writer is on its way with it (`NoneMissed`). A writer
  that has not called `List` yet counts, because it will see the latest version.

Only model-checked: liveness, which needs fairness (`AcceptedTerminates`,
`PoolStops`, `Recovered`, `ChangeReturns`, `LeavesOnClose`,
`DoReturnsUnlessSilent`, `RendersReturn`). The two
disagreements of section 4 are counterexamples, which need no proof.

## 6. Not modelled

S3 request signing, configuration parsing, logging, request identifiers, HTTP
metrics and their text format, the parsing of Redis replies, the websocket
handshake and framing, the OpenAPI text, the dashboard page, the load-test tool
and the deployment manifests compute no shared state and are left out. Two
instances that start at once may both try to create the S3 bucket
(`internal/blob/s3.go`), which is between the start of a process and its first
request. Time is a number only in `LeaseClock`; elsewhere a timeout may fire at
any moment after it was set. `LeaseClock` has one message, so the limit of 25
leases to a scan and commands that fail are only in `RedisQueue`. The capacity check of the Redis queue is not a
bound (LLEN, ZCARD and LPUSH are separate; the README calls it a soft cap), so
no property restricts it.

## 7. Plan

Done: the memory service with its abstract specification, the Redis queue with
its own, the service on Redis, the redisx client, the generator, the hub, lease
times; every safety property, and both refinements, proved.

Left: stating in `RedisQueue` and `RedisService` what a command does that runs
only after its caller has given up, which `RedisClient` shows to be possible.
