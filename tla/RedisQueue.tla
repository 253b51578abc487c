----------------------------- MODULE RedisQueue -----------------------------
(***************************************************************************)
(* The Redis queue (internal/queue/redis.go), shared by the workers of all *)
(* instances.  A Redis command is atomic; what the code builds from several *)
(* commands is not, and every command is a step of its own here.           *)
(*                                                                         *)
(* Two Redis keys hold the jobs: the list "queue" and the sorted set       *)
(* "processing", whose members are leased payloads and whose scores say    *)
(* when the lease ends.  A leased payload differs from every other one by  *)
(* its LeaseUntil; the model numbers the leases of a worker instead and    *)
(* lets each of them expire at any time after it was taken.                *)
(*                                                                         *)
(* Faults: a command may fail before Redis runs it or after (the reply is  *)
(* lost, redisx.Client.Do), and the process of a worker may crash between   *)
(* two commands.  A process that crashes inside Push is one whose Push goes *)
(* no further.                                                             *)
(***************************************************************************)
EXTENDS Naturals, Sequences, FiniteSets

CONSTANTS
  Jobs,        \* jobs that are pushed, each once
  Workers,     \* the worker goroutines of all instances
  NoLease,     \* a worker has no leased payload in hand
  Capacity,    \* QUEUE_SIZE; 0 switches the check off
  BatchLimit,  \* the LIMIT of ZRANGEBYSCORE, 25 in the code
  MaxFaults,   \* bound on failed commands and crashes
  MaxCopies    \* a lease may expire while its job has this many copies or fewer

ASSUME WorkersAssumption == IsFiniteSet(Workers)
ASSUME NoLeaseAssumption == NoLease \notin Jobs
ASSUME CapacityAssumption == Capacity \in Nat
ASSUME BatchAssumption == BatchLimit \in Nat \ {0}
ASSUME BoundsAssumption == MaxFaults \in Nat /\ MaxCopies \in Nat

VARIABLES
  queue,       \* the list, oldest first: LPUSH appends, BRPOP takes the head
  processing,  \* members of the sorted set
  expired,     \* those whose score is in the past
  ppc,         \* job -> where its Push is
  depth,       \* job -> what LLEN told its Push
  wpc,         \* worker -> where its goroutine is
  hand,        \* worker -> payload it works with, NoLease if none
  batch,       \* worker -> expired payloads it still has to requeue
  processed,   \* jobs that some worker went through processJob with
  faults       \* faults so far

vars == <<queue, processing, expired, ppc, depth, wpc, hand, batch, processed,
          faults>>

\* The job and the worker that leased it, with a number in place of the time.
Lease == [job : Jobs, by : Workers, n : Nat]

PushStates == {"idle", "llen", "zcard", "lpush", "pushed", "full", "failed"}
WorkerStates == {"scan", "zrem", "relist", "brpop", "zadd", "giveback",
                 "process", "ack"}

\* Every variable has its type.
TypeOK ==
  /\ queue \in Seq(Jobs)
  /\ processing \subseteq Lease /\ expired \subseteq processing
  /\ ppc \in [Jobs -> PushStates] /\ depth \in [Jobs -> Nat]
  /\ wpc \in [Workers -> WorkerStates]
  /\ hand \in [Workers -> Lease \cup {NoLease}]
  /\ batch \in [Workers -> SUBSET Lease]
  /\ processed \subseteq Jobs
  /\ faults \in 0..MaxFaults

Init ==
  /\ queue = <<>> /\ processing = {} /\ expired = {}
  /\ ppc = [j \in Jobs |-> "idle"] /\ depth = [j \in Jobs |-> 0]
  /\ wpc = [w \in Workers |-> "scan"]
  /\ hand = [w \in Workers |-> NoLease]
  /\ batch = [w \in Workers |-> {}]
  /\ processed = {} /\ faults = 0

-----------------------------------------------------------------------------
(* redisx.Client.Do.                                                       *)

\* "refused": Do fails and Redis never ran the command; "unanswered": Redis
\* ran it and Do fails all the same.
Outcomes == {"ok"} \cup
  (IF faults < MaxFaults THEN {"refused", "unanswered"} ELSE {})

Count(outcome) == faults' = IF outcome = "ok" THEN faults ELSE faults + 1

Lpush(j, outcome) ==
  queue' = IF outcome = "refused" THEN queue ELSE Append(queue, j)

Zrem(lease, outcome) ==
  /\ processing' = IF outcome = "refused" THEN processing
                                          ELSE processing \ {lease}
  /\ expired' = expired \cap processing'

-----------------------------------------------------------------------------
(* Push: LLEN, ZCARD, compare, LPUSH.                                      *)

PushGoto(j, from, to) ==
  /\ ppc[j] = from
  /\ ppc' = [ppc EXCEPT ![j] = to]

PushBegin(j) ==
  /\ PushGoto(j, "idle", IF Capacity > 0 THEN "llen" ELSE "lpush")
  /\ UNCHANGED <<queue, processing, expired, depth, wpc, hand, batch,
                 processed, faults>>

PushLlen(j) ==
  \E o \in Outcomes :
    /\ PushGoto(j, "llen", IF o = "ok" THEN "zcard" ELSE "failed")
    /\ depth' = [depth EXCEPT ![j] = Len(queue)]
    /\ Count(o)
    /\ UNCHANGED <<queue, processing, expired, wpc, hand, batch, processed>>

PushZcard(j) ==
  \E o \in Outcomes :
    /\ PushGoto(j, "zcard",
         IF o # "ok" THEN "failed"
         ELSE IF depth[j] + Cardinality(processing) >= Capacity THEN "full"
         ELSE "lpush")
    /\ depth' = [depth EXCEPT ![j] = 0]
    /\ Count(o)
    /\ UNCHANGED <<queue, processing, expired, wpc, hand, batch, processed>>

PushSend(j) ==
  \E o \in Outcomes :
    /\ PushGoto(j, "lpush", IF o = "ok" THEN "pushed" ELSE "failed")
    /\ Lpush(j, o)
    /\ Count(o)
    /\ UNCHANGED <<processing, expired, depth, wpc, hand, batch, processed>>

PushStep(j) == PushLlen(j) \/ PushZcard(j) \/ PushSend(j)

-----------------------------------------------------------------------------
(* Pop: requeue what expired, then wait for a job and lease it.  An error  *)
(* makes worker sleep and call Pop again.                                  *)

Goto(w, from, to) ==
  /\ wpc[w] = from
  /\ wpc' = [wpc EXCEPT ![w] = to]

\* Mutant of Scan: expired leases are not looked for.
ScanSkips(w) ==
  /\ Goto(w, "scan", "brpop")
  /\ UNCHANGED <<queue, processing, expired, ppc, depth, hand, batch,
                 processed, faults>>

\* ZRANGEBYSCORE: up to BatchLimit of the expired members.
Scan(w) ==
  \E some \in SUBSET expired :
    /\ Cardinality(some) <= BatchLimit
    /\ Cardinality(some) < BatchLimit => some = expired
    /\ Goto(w, "scan", IF some = {} THEN "brpop" ELSE "zrem")
    /\ batch' = [batch EXCEPT ![w] = some]
    /\ UNCHANGED <<queue, processing, expired, ppc, depth, hand, processed,
                   faults>>

\* ZREM of one of them; how many members it removed is not looked at.
Remove(w) ==
  \E lease \in batch[w], o \in Outcomes :
    /\ Goto(w, "zrem", IF o = "ok" THEN "relist" ELSE "scan")
    /\ Zrem(lease, o)
    /\ hand' = [hand EXCEPT ![w] = IF o = "ok" THEN lease ELSE NoLease]
    /\ batch' = [batch EXCEPT ![w] = IF o = "ok" THEN @ \ {lease} ELSE {}]
    /\ Count(o)
    /\ UNCHANGED <<queue, ppc, depth, processed>>

\* Mutant of Relist: nothing is pushed back.
RelistDrops(w) ==
  /\ Goto(w, "relist", IF batch[w] = {} THEN "brpop" ELSE "zrem")
  /\ hand' = [hand EXCEPT ![w] = NoLease]
  /\ UNCHANGED <<queue, processing, expired, ppc, depth, batch, processed,
                 faults>>

\* LPUSH of its job.
Relist(w) ==
  \E o \in Outcomes :
    /\ Goto(w, "relist", IF o # "ok" THEN "scan"
                         ELSE IF batch[w] = {} THEN "brpop" ELSE "zrem")
    /\ Lpush(hand[w].job, o)
    /\ hand' = [hand EXCEPT ![w] = NoLease]
    /\ batch' = [batch EXCEPT ![w] = IF o = "ok" THEN @ ELSE {}]
    /\ Count(o)
    /\ UNCHANGED <<processing, expired, ppc, depth, processed>>

\* A lease number no payload of this job and worker carries any more.
FreshLease(j, w) ==
  LET used == {l.n : l \in {l \in processing \cup UNION {batch[v] : v \in Workers} :
                              l.job = j /\ l.by = w}}
  IN  [job |-> j, by |-> w,
       n |-> CHOOSE n \in 0..Cardinality(used) : n \notin used]

\* Mutant of Brpop: the head is read and left in the list.
BrpopPeeks(w) ==
  /\ queue # <<>>
  /\ Goto(w, "brpop", "zadd")
  /\ hand' = [hand EXCEPT ![w] = FreshLease(Head(queue), w)]
  /\ UNCHANGED <<queue, processing, expired, ppc, depth, batch, processed,
                 faults>>

Brpop(w) ==
  \E o \in Outcomes \ {"refused"} :
    /\ queue # <<>>
    /\ Goto(w, "brpop", IF o = "ok" THEN "zadd" ELSE "scan")
    /\ queue' = Tail(queue)
    /\ hand' = [hand EXCEPT ![w] =
         IF o = "ok" THEN FreshLease(Head(queue), w) ELSE NoLease]
    /\ Count(o)
    /\ UNCHANGED <<processing, expired, ppc, depth, batch, processed>>

\* Five seconds without a job, or an error before Redis ran the command.
BrpopNothing(w) ==
  \E o \in Outcomes \ {"unanswered"} :
    /\ o = "ok" => queue = <<>>
    /\ Goto(w, "brpop", "scan")
    /\ Count(o)
    /\ UNCHANGED <<queue, processing, expired, ppc, depth, hand, batch,
                   processed>>

Zadd(w) ==
  \E o \in Outcomes :
    /\ Goto(w, "zadd", IF o = "ok" THEN "process" ELSE "giveback")
    /\ processing' = IF o = "refused" THEN processing
                                      ELSE processing \cup {hand[w]}
    /\ Count(o)
    /\ UNCHANGED <<queue, expired, ppc, depth, hand, batch, processed>>

\* LPUSH of the unleased payload after a failed ZADD; its error is ignored.
GiveBack(w) ==
  \E o \in Outcomes :
    /\ Goto(w, "giveback", "scan")
    /\ Lpush(hand[w].job, o)
    /\ hand' = [hand EXCEPT ![w] = NoLease]
    /\ Count(o)
    /\ UNCHANGED <<processing, expired, ppc, depth, batch, processed>>

-----------------------------------------------------------------------------
(* worker: processJob, then Ack, whose error is only logged.               *)

Process(w) ==
  /\ Goto(w, "process", "ack")
  /\ processed' = processed \cup {hand[w].job}
  /\ UNCHANGED <<queue, processing, expired, ppc, depth, hand, batch, faults>>

\* Mutant of Ack: every lease of the job is removed.
AckJob(w) ==
  /\ Goto(w, "ack", "scan")
  /\ processing' = {lease \in processing : lease.job # hand[w].job}
  /\ expired' = expired \cap processing'
  /\ hand' = [hand EXCEPT ![w] = NoLease]
  /\ UNCHANGED <<queue, ppc, depth, batch, processed, faults>>

Ack(w) ==
  \E o \in Outcomes :
    /\ Goto(w, "ack", "scan")
    /\ Zrem(hand[w], o)
    /\ hand' = [hand EXCEPT ![w] = NoLease]
    /\ Count(o)
    /\ UNCHANGED <<queue, ppc, depth, batch, processed>>

WorkerStep(w) ==
  \/ Scan(w) \/ Remove(w) \/ Relist(w) \/ Brpop(w) \/ BrpopNothing(w)
  \/ Zadd(w) \/ GiveBack(w) \/ Process(w) \/ Ack(w)

\* The process of w dies and starts again; what w had in memory is gone.
Crash(w) ==
  /\ faults < MaxFaults
  /\ wpc' = [wpc EXCEPT ![w] = "scan"]
  /\ hand' = [hand EXCEPT ![w] = NoLease]
  /\ batch' = [batch EXCEPT ![w] = {}]
  /\ faults' = faults + 1
  /\ UNCHANGED <<queue, processing, expired, ppc, depth, processed>>

\* The copies of j that a worker can come to hold.
Copies(j) ==
  Cardinality({i \in 1..Len(queue) : queue[i] = j})
    + Cardinality({lease \in processing : lease.job = j})

\* The visibility timeout of a lease passes.
LeaseExpires(lease) ==
  /\ Copies(lease.job) <= MaxCopies
  /\ lease \in processing \ expired
  /\ expired' = expired \cup {lease}
  /\ UNCHANGED <<queue, processing, ppc, depth, wpc, hand, batch, processed,
                 faults>>

Expiry(j, w) == \E lease \in processing :
  lease.job = j /\ lease.by = w /\ LeaseExpires(lease)

Next ==
  \/ \E j \in Jobs : PushBegin(j) \/ PushStep(j)
  \/ \E w \in Workers : WorkerStep(w) \/ Crash(w)
  \/ \E j \in Jobs, w \in Workers : Expiry(j, w)

Spec == Init /\ [][Next]_vars

\* A worker calls Pop again and again, and time passes.
FairSpec ==
  /\ Spec
  /\ \A w \in Workers : WF_vars(WorkerStep(w))
  /\ \A j \in Jobs, w \in Workers : WF_vars(Expiry(j, w))

-----------------------------------------------------------------------------
(* Properties.                                                             *)

InQueue(j) == \E i \in 1..Len(queue) : queue[i] = j
Leased(j) == \E lease \in processing : lease.job = j

\* Between taking a job out of one Redis key and putting it into the other.
InTransit(j) == \E w \in Workers :
  wpc[w] \in {"relist", "zadd", "giveback"} /\ hand[w].job = j

\* A job the client got a 202 for, that no worker went through and that no
\* worker can ever find.
Lost(j) ==
  /\ ppc[j] = "pushed" /\ j \notin processed
  /\ ~InQueue(j) /\ ~Leased(j) /\ ~InTransit(j)

\* The faults that lose a job: they hit the worker that carries it, or the
\* command that takes it out of one of the keys.
FaultInTransit(j) ==
  /\ faults' # faults
  /\ \/ InTransit(j)
     \/ \E w \in Workers :
          \/ wpc[w] = "brpop" /\ InQueue(j) /\ wpc'[w] = "scan"
          \/ /\ wpc[w] = "zrem" /\ wpc'[w] = "scan"
             /\ \E lease \in batch[w] : lease.job = j

\* A job is lost only when a fault hits the worker that carries it from one
\* key to the other (or hits the very command that takes it out): no expiry,
\* no race of requeuing workers and no crash elsewhere loses one.
LossNeedsFaultInTransit ==
  [][\A j \in Jobs : Lost(j)' => Lost(j) \/ FaultInTransit(j)]_vars

\* A lease that has not expired is taken out of the sorted set by its own
\* worker's Ack and by nothing else: the late Ack of a worker whose lease ran
\* out, or a requeue of an older lease of the job, leaves it alone.
LeaseKept ==
  [][\A lease \in processing \ processing' :
       lease \in expired \/ (wpc[lease.by] = "ack" /\ hand[lease.by] = lease)]_vars

\* Every job that a client got a 202 for is processed in the end, unless it
\* gets lost: expired leases go back to the queue, whatever fails no job is
\* stuck in one of the keys, and no worker keeps the others from getting on.
Recovered ==
  \A j \in Jobs : ppc[j] = "pushed" ~> j \in processed \/ Lost(j)

\* What users of the queue see of it: the copies in the list, and the job a
\* worker holds from BRPOP until it acks it or gives it back.
Promise == INSTANCE AtLeastOnce WITH
  NoJob  <- NoLease,
  begun  <- {j \in Jobs : ppc[j] # "idle"},
  copies <- [j \in Jobs |-> Cardinality({i \in 1..Len(queue) : queue[i] = j})],
  held   <- [w \in Workers |->
              IF wpc[w] \in {"zadd", "giveback", "process", "ack"}
                THEN hand[w].job ELSE NoLease]

\* Whatever fails, a worker only ever gets a job whose Push was begun, one
\* copy goes to one worker, and a worker has one job at a time: requeueing,
\* giving back and dying make duplicates only by the steps AtLeastOnce names.
ImplementsAtLeastOnce == Promise!QueueSpec
=============================================================================
