---------------------------- MODULE LeaseClock ----------------------------
(***************************************************************************)
(* When a lease of the Redis queue ends (internal/queue/redis.go).         *)
(*                                                                         *)
(* RedisQueue lets a lease expire at any time; this module says when, for  *)
(* one message.  Every worker reads its own host's clock, which differs    *)
(* from true time by a constant offset.  The end of a lease and the time   *)
(* of a scan are both cut to whole seconds, and both are computed before   *)
(* the command that uses them is sent: another command may hold the        *)
(* client's mutex for any time in between.                                 *)
(***************************************************************************)
EXTENDS Integers

CONSTANTS
  Workers,      \* workers on any hosts
  Nobody,       \* the holder of a message that is not being processed
  Second,       \* ticks of the clock per second
  Visibility,   \* REDIS_VISIBILITY_TIMEOUT, in seconds
  Budget,       \* ticks for a job, from the stamp of its lease on
  Skew,         \* most by which two clocks may differ, in ticks
  MaxTime       \* bound on true time, in ticks

Timeout == Visibility * Second

ASSUME NobodyAssumption == Nobody \notin Workers
ASSUME SecondAssumption == Second \in Nat \ {0}
ASSUME VisibilityAssumption == Visibility \in Nat \ {0}
ASSUME BudgetAssumption == Budget \in Nat /\ Skew \in Nat
\* README.md asks for a timeout above PAGE_TIMEOUT plus the retry budget; it
\* takes a second and the difference of the clocks more.
ASSUME TimeoutAssumption == Budget + Second + Skew <= Timeout
ASSUME MaxTimeAssumption == MaxTime \in Nat

VARIABLES
  now,       \* true time
  offset,    \* worker -> how far its clock is ahead of true time
  state,     \* of the message
  holder,    \* the worker that took it from the list last
  stamp,     \* true time at which that worker computed the end of its lease
  score,     \* that end in whole seconds, as ZADD sends it
  readAt     \* worker -> true time of its scan's time.Now, -1 outside

vars == <<now, offset, state, holder, stamp, score, readAt>>

\* In the list; between BRPOP and ZADD; in the processing set while its worker
\* lives; there after it died; removed by Ack.
States == {"queued", "stamped", "leased", "abandoned", "acked"}

\* Every variable has its type; no time that was read is in the future.
TypeOK ==
  /\ now \in 0..MaxTime /\ offset \in [Workers -> 0..Skew]
  /\ state \in States /\ holder \in Workers \cup {Nobody}
  /\ stamp \in 0..now /\ score \in Nat
  /\ readAt \in [Workers -> -1..now]

Init ==
  /\ now = 0 /\ offset \in [Workers -> 0..Skew]
  /\ state = "queued" /\ holder = Nobody
  /\ stamp = 0 /\ score = 0
  /\ readAt = [w \in Workers |-> -1]

Clock(w, t) == t + offset[w]

Tick ==
  /\ now < MaxTime /\ now' = now + 1
  /\ UNCHANGED <<offset, state, holder, stamp, score, readAt>>

\* Mutant of LeaseUntil: the timeout is added after the time was cut, one
\* second short.
LeaseUntilShort(w) == Clock(w, now) \div Second + Visibility - 1

\* Mutant of LeaseUntil: the end of the lease is rounded to the second after.
LeaseUntilRounded(w) == (Clock(w, now) + Timeout) \div Second + 1

\* time.Now().UTC().Add(q.visibilityTimeout), then Unix().
LeaseUntil(w) == (Clock(w, now) + Timeout) \div Second

MessageGoto(from, to) == state = from /\ state' = to

\* After BRPOP: the worker has the message and computes the lease.
Stamp(w) ==
  /\ readAt[w] = -1
  /\ MessageGoto("queued", "stamped")
  /\ holder' = w /\ stamp' = now /\ score' = LeaseUntil(w)
  /\ UNCHANGED <<now, offset, readAt>>

Zadd == MessageGoto("stamped", "leased") /\ UNCHANGED <<now, offset, holder, stamp, score, readAt>>

\* processJob is over, and Ack removes the lease.
Ack == MessageGoto("leased", "acked") /\ UNCHANGED <<now, offset, holder, stamp, score, readAt>>

\* The worker's process dies and leaves the lease behind.
Die == MessageGoto("leased", "abandoned") /\ UNCHANGED <<now, offset, holder, stamp, score, readAt>>

\* Pop calls requeueExpired(ctx, time.Now().UTC()).
ReadClock(w) ==
  /\ readAt[w] = -1 /\ ~(state \in {"stamped", "leased", "abandoned"} /\ w = holder)
  /\ readAt' = [readAt EXCEPT ![w] = now]
  /\ UNCHANGED <<now, offset, state, holder, stamp, score>>

\* ZRANGEBYSCORE -inf now.Unix() lists the lease.
Expired(w) == score <= Clock(w, readAt[w]) \div Second

\* ZREM and LPUSH: the message is in the list again.  A worker that still
\* processes it goes on, and acks in vain (RedisQueue).  With one message the
\* LIMIT of 25 leases does not bite; it and commands that fail are in
\* RedisQueue.
Scan(w) ==
  /\ readAt[w] # -1
  /\ readAt' = [readAt EXCEPT ![w] = -1]
  /\ state' = IF state \in {"leased", "abandoned"} /\ Expired(w) THEN "queued" ELSE state
  /\ UNCHANGED <<now, offset, holder, stamp, score>>

Next ==
  \/ Tick \/ Zadd \/ Ack \/ Die
  \/ \E w \in Workers : Stamp(w) \/ ReadClock(w) \/ Scan(w)

Spec == Init /\ [][Next]_vars

-----------------------------------------------------------------------------
(* Properties.                                                             *)

\* A worker that is within its budget keeps its lease: no scan of another
\* worker, whose clock is ahead and cut to the second like the lease's end,
\* requeues a message that is being processed.
KeptForBudget ==
  [][state = "leased" /\ state' = "queued" => now > stamp + Budget]_vars

\* The lease of a worker that died does not survive a scan that read its
\* clock after the timeout and the difference of the clocks: it is not kept
\* for another second by the cut.  (Of more than 25 expired leases a scan
\* takes the 25 that ended first; those it leaves are the next scan's, see
\* Recovered of RedisQueue.)
AbandonedIsRequeued ==
  [][\A w \in Workers :
       /\ state = "abandoned"
       /\ readAt[w] >= stamp + Timeout + Skew /\ readAt'[w] = -1
       => state' = "queued"]_vars
=============================================================================
