-------------------------- MODULE RedisQueueProofs --------------------------
(***************************************************************************)
(* The Redis queue for any number of jobs, workers and faults: leases are  *)
(* told apart, one that has not expired is left to its worker, and a job   *)
(* gets lost only by a fault that hits the worker carrying it.             *)
(***************************************************************************)
EXTENDS RedisQueue, FiniteSetTheorems, SequenceTheorems, TLAPS

Carrying == {"relist", "zadd", "giveback", "process", "ack"}
Holding == {"zadd", "giveback", "process", "ack"}

\* Redis and the workers never have more than finitely many leases.
Finite ==
  /\ IsFiniteSet(processing)
  /\ \A w \in Workers : IsFiniteSet(batch[w])

\* A worker carries a leased payload from where it gets it to where it lets
\* go of it; the one it made itself bears its name.
Hands ==
  \A w \in Workers :
    /\ wpc[w] \in Carrying => hand[w] \in Lease
    /\ wpc[w] \in Holding => hand[w].by = w

Types == TypeOK /\ Finite /\ Hands

\* A lease that is about to be added is unknown to everybody else, and a job
\* is acked after it was processed.
Fresh ==
  \A w \in Workers :
    /\ wpc[w] = "zadd" => /\ hand[w] \notin processing
                          /\ \A v \in Workers : hand[w] \notin batch[v]
    /\ wpc[w] = "ack" => hand[w].job \in processed

\* What is left of a batch has expired or is gone from the sorted set: no
\* later lease is mistaken for it.
Stale == \A w \in Workers : batch[w] \cap processing \subseteq expired

Inv == Types /\ Fresh /\ Stale

-----------------------------------------------------------------------------
(* The lease BRPOP makes.                                                  *)

\* A finite set of numbers leaves one of the first Cardinality + 1 free.
LEMMA FreeNumber ==
  ASSUME NEW S, IsFiniteSet(S)
  PROVE  /\ Cardinality(S) \in Nat
         /\ \E n \in 0..Cardinality(S) : n \notin S
<1> DEFINE c == Cardinality(S)
<1>1. c \in Nat
  BY FS_CardinalityType
<1>2. IsFiniteSet(0..c) /\ Cardinality(0..c) = c + 1
  BY <1>1, FS_Interval
<1>3. ASSUME 0..c \subseteq S PROVE FALSE
  <2>1. Cardinality(0..c) <= Cardinality(S)
    BY <1>3, FS_Subset
  <2> QED
    BY <1>1, <1>2, <2>1
<1> QED
  BY <1>1, <1>3

\* A leased payload differs from every other one that is in the sorted set or
\* that some worker is about to remove from it.
LEMMA LeaseIsFresh ==
  ASSUME TypeOK, Finite, NEW j \in Jobs, NEW w \in Workers
  PROVE  /\ FreshLease(j, w) \in Lease
         /\ FreshLease(j, w).job = j /\ FreshLease(j, w).by = w
         /\ FreshLease(j, w) \notin processing
         /\ \A v \in Workers : FreshLease(j, w) \notin batch[v]
<1> DEFINE all == processing \cup UNION {batch[v] : v \in Workers}
           mine == {l \in all : l.job = j /\ l.by = w}
           used == {l.n : l \in mine}
           n == CHOOSE m \in 0..Cardinality(used) : m \notin used
<1>1. IsFiniteSet(all)
  <2> DEFINE f == [v \in Workers |-> batch[v]]
             batches == {batch[v] : v \in Workers}
  <2>1. f \in Surjection(Workers, batches)
    BY DEF Surjection
  <2>2. IsFiniteSet(batches)
    BY <2>1, WorkersAssumption, FS_Surjection
  <2>3. IsFiniteSet(UNION batches)
    BY <2>2, FS_UNION DEF Finite
  <2> QED
    BY <2>3, FS_Union DEF Finite
<1>2. IsFiniteSet(mine)
  <2>1. mine \in SUBSET all
    OBVIOUS
  <2> QED
    BY <1>1, <2>1, FS_Subset
<1>3. IsFiniteSet(used)
  <2> DEFINE g == [l \in mine |-> l.n]
  <2>1. g \in Surjection(mine, used)
    BY DEF Surjection
  <2> QED
    BY <1>2, <2>1, FS_Surjection
<1>4. n \in Nat /\ n \notin used
  <2> HIDE DEF used
  <2>1. Cardinality(used) \in Nat /\ \E m \in 0..Cardinality(used) : m \notin used
    BY <1>3, FreeNumber
  <2> QED
    BY <2>1
<1>5. FreshLease(j, w) = [job |-> j, by |-> w, n |-> n]
  BY Zenon DEF FreshLease
<1> HIDE DEF n
<1>6. FreshLease(j, w) \notin all
  <2>1. FreshLease(j, w) \in all => FreshLease(j, w) \in mine
    BY <1>5
  <2> QED
    BY <1>4, <1>5, <2>1
<1> QED
  BY <1>4, <1>5, <1>6 DEF Lease

-----------------------------------------------------------------------------
(* Types.                                                                  *)

\* Both keys are empty at first.
LEMMA InitInv == Init => Inv
<1> SUFFICES ASSUME Init PROVE Inv
  OBVIOUS
<1>1. TypeOK
  BY BoundsAssumption, EmptySeq DEF Init, TypeOK, PushStates, WorkerStates
<1>2. Finite
  BY FS_EmptySet DEF Init, Finite
<1>3. Hands /\ Fresh /\ Stale
  BY DEF Init, Hands, Fresh, Stale, Carrying, Holding
<1> QED
  BY <1>1, <1>2, <1>3 DEF Inv, Types

\* A fault is counted within its bound.
LEMMA CountType ==
  ASSUME faults \in 0..MaxFaults, NEW o \in Outcomes, Count(o)
  PROVE  /\ faults' \in 0..MaxFaults
         /\ o # "ok" => faults' # faults
BY BoundsAssumption DEF Outcomes, Count

\* LPUSH leaves a list of jobs.
LEMMA LpushType ==
  ASSUME queue \in Seq(Jobs), NEW j \in Jobs, NEW o, Lpush(j, o)
  PROVE  queue' \in Seq(Jobs)
BY AppendProperties DEF Lpush

\* Push keeps the types.
LEMMA PushTypes ==
  ASSUME Types, NEW j \in Jobs, PushBegin(j) \/ PushStep(j)
  PROVE  Types'
<1> USE DEF Types, PushGoto, PushStates
<1>1. UNCHANGED <<processing, expired, wpc, hand, batch, processed>>
  BY DEF PushBegin, PushStep, PushLlen, PushZcard, PushSend
<1>2. Finite' /\ Hands'
  BY <1>1 DEF Finite, Hands
<1>3. CASE PushBegin(j)
  BY <1>2, <1>3 DEF PushBegin, TypeOK
<1>4. CASE PushLlen(j)
  <2>1. PICK o \in Outcomes : Count(o)
    BY <1>4 DEF PushLlen
  <2>2. faults' \in 0..MaxFaults
    BY <2>1, CountType DEF TypeOK
  <2>3. depth' \in [Jobs -> Nat]
    BY <1>4, LenProperties DEF PushLlen, TypeOK
  <2> QED
    BY <1>2, <1>4, <2>2, <2>3 DEF PushLlen, TypeOK
<1>5. CASE PushZcard(j)
  <2>1. PICK o \in Outcomes : Count(o)
    BY <1>5 DEF PushZcard
  <2>2. faults' \in 0..MaxFaults
    BY <2>1, CountType DEF TypeOK
  <2>3. ppc' \in [Jobs -> PushStates]
    BY <1>5 DEF PushZcard, TypeOK
  <2> QED
    BY <1>2, <1>5, <2>2, <2>3 DEF PushZcard, TypeOK
<1>6. CASE PushSend(j)
  <2>1. PICK o \in Outcomes : Lpush(j, o) /\ Count(o)
    BY <1>6 DEF PushSend
  <2>2. faults' \in 0..MaxFaults /\ queue' \in Seq(Jobs)
    BY <2>1, CountType, LpushType DEF TypeOK
  <2> QED
    BY <1>2, <1>6, <2>2 DEF PushSend, TypeOK
<1> QED
  BY <1>3, <1>4, <1>5, <1>6 DEF PushStep

\* A worker and a crash keep the types.
LEMMA WorkerTypes ==
  ASSUME Types, NEW w \in Workers, WorkerStep(w) \/ Crash(w)
  PROVE  Types'
<1> USE DEF Types, Goto, WorkerStates
<1>1. /\ wpc \in [Workers -> WorkerStates] /\ hand \in [Workers -> Lease \cup {NoLease}]
      /\ batch \in [Workers -> SUBSET Lease] /\ queue \in Seq(Jobs)
      /\ faults \in 0..MaxFaults
  BY DEF TypeOK
<1>2. CASE Scan(w)
  <2>1. PICK some \in SUBSET expired :
          /\ batch' = [batch EXCEPT ![w] = some]
          /\ Goto(w, "scan", IF some = {} THEN "brpop" ELSE "zrem")
    BY <1>2 DEF Scan
  <2>2. some \in SUBSET Lease /\ IsFiniteSet(some)
    BY FS_Subset DEF TypeOK, Finite
  <2>3. Finite'
    BY <1>1, <1>2, <2>1, <2>2 DEF Scan, Finite
  <2>4. Hands'
    BY <1>1, <1>2, <2>1 DEF Scan, Hands, Carrying, Holding
  <2>5. TypeOK'
    BY <1>1, <1>2, <2>1, <2>2 DEF Scan, TypeOK
  <2> QED
    BY <2>3, <2>4, <2>5
<1>3. CASE Remove(w)
  <2>1. PICK lease \in batch[w], o \in Outcomes :
          /\ Goto(w, "zrem", IF o = "ok" THEN "relist" ELSE "scan")
          /\ Zrem(lease, o)
          /\ hand' = [hand EXCEPT ![w] = IF o = "ok" THEN lease ELSE NoLease]
          /\ batch' = [batch EXCEPT ![w] = IF o = "ok" THEN @ \ {lease} ELSE {}]
          /\ Count(o)
          /\ UNCHANGED <<queue, ppc, depth, processed>>
    BY <1>3 DEF Remove
  <2>2. faults' \in 0..MaxFaults
    BY <1>1, <2>1, CountType
  <2>3. processing' \subseteq processing /\ IsFiniteSet(processing')
    BY <2>1, FS_RemoveElement DEF Zrem, Finite
  <2>4. batch'[w] \subseteq batch[w] /\ IsFiniteSet(batch'[w])
    BY <1>1, <2>1, FS_RemoveElement, FS_EmptySet DEF Finite
  <2>5. Finite'
    BY <1>1, <2>1, <2>3, <2>4 DEF Finite
  <2>6. Hands'
    BY <1>1, <2>1 DEF Hands, Carrying, Holding
  <2>7. TypeOK'
    BY <1>1, <2>1, <2>2, <2>3 DEF Zrem, TypeOK
  <2> QED
    BY <2>5, <2>6, <2>7
<1>4. CASE Relist(w)
  <2>1. PICK o \in Outcomes :
          /\ Goto(w, "relist", IF o # "ok" THEN "scan"
                               ELSE IF batch[w] = {} THEN "brpop" ELSE "zrem")
          /\ Lpush(hand[w].job, o)
          /\ hand' = [hand EXCEPT ![w] = NoLease]
          /\ batch' = [batch EXCEPT ![w] = IF o = "ok" THEN @ ELSE {}]
          /\ Count(o)
          /\ UNCHANGED <<processing, expired, ppc, depth, processed>>
    BY <1>4 DEF Relist
  <2>2. hand[w].job \in Jobs
    BY <2>1 DEF Hands, Carrying, Lease
  <2>3. faults' \in 0..MaxFaults /\ queue' \in Seq(Jobs)
    BY <1>1, <2>1, <2>2, CountType, LpushType
  <2>4. Finite'
    BY <1>1, <2>1, FS_EmptySet DEF Finite
  <2>5. Hands'
    BY <1>1, <2>1 DEF Hands, Carrying, Holding
  <2>6. TypeOK'
    BY <1>1, <2>1, <2>3 DEF TypeOK
  <2> QED
    BY <2>4, <2>5, <2>6
<1>5. CASE Brpop(w)
  <2> DEFINE lease == FreshLease(Head(queue), w)
  <2>1. PICK o \in Outcomes :
          /\ queue # <<>>
          /\ Goto(w, "brpop", IF o = "ok" THEN "zadd" ELSE "scan")
          /\ queue' = Tail(queue)
          /\ hand' = [hand EXCEPT ![w] = IF o = "ok" THEN lease ELSE NoLease]
          /\ Count(o)
          /\ UNCHANGED <<processing, expired, ppc, depth, batch, processed>>
    BY <1>5 DEF Brpop
  <2>2. queue' \in Seq(Jobs) /\ Head(queue) \in Jobs
    BY <1>1, <2>1, HeadTailProperties
  <2>3. lease \in Lease /\ lease.by = w
    BY <2>2, LeaseIsFresh
  <2> HIDE DEF lease
  <2>4. faults' \in 0..MaxFaults
    BY <1>1, <2>1, CountType
  <2>5. Finite'
    BY <2>1 DEF Finite
  <2>6. Hands'
    BY <1>1, <2>1, <2>3 DEF Hands, Carrying, Holding
  <2>7. TypeOK'
    BY <1>1, <2>1, <2>2, <2>3, <2>4 DEF TypeOK
  <2> QED
    BY <2>5, <2>6, <2>7
<1>6. CASE BrpopNothing(w)
  <2>1. PICK o \in Outcomes : Count(o)
    BY <1>6 DEF BrpopNothing
  <2>2. faults' \in 0..MaxFaults
    BY <1>1, <2>1, CountType
  <2>3. Finite' /\ Hands'
    BY <1>1, <1>6 DEF BrpopNothing, Finite, Hands, Carrying, Holding
  <2> QED
    BY <1>1, <1>6, <2>2, <2>3 DEF BrpopNothing, TypeOK
<1>7. CASE Zadd(w)
  <2>1. PICK o \in Outcomes :
          /\ Goto(w, "zadd", IF o = "ok" THEN "process" ELSE "giveback")
          /\ processing' = IF o = "refused" THEN processing
                                            ELSE processing \cup {hand[w]}
          /\ Count(o)
          /\ UNCHANGED <<queue, expired, ppc, depth, hand, batch, processed>>
    BY <1>7 DEF Zadd
  <2>2. faults' \in 0..MaxFaults
    BY <1>1, <2>1, CountType
  <2>3. hand[w] \in Lease /\ hand[w].by = w
    BY <2>1 DEF Hands, Carrying, Holding
  <2>4. Finite'
    BY <2>1, FS_AddElement DEF Finite
  <2>5. Hands'
    BY <1>1, <2>1, <2>3 DEF Hands, Carrying, Holding
  <2>6. TypeOK'
    BY <1>1, <2>1, <2>2, <2>3 DEF TypeOK
  <2> QED
    BY <2>4, <2>5, <2>6
<1>8. CASE GiveBack(w)
  <2>1. PICK o \in Outcomes :
          /\ Goto(w, "giveback", "scan")
          /\ Lpush(hand[w].job, o)
          /\ hand' = [hand EXCEPT ![w] = NoLease]
          /\ Count(o)
          /\ UNCHANGED <<processing, expired, ppc, depth, batch, processed>>
    BY <1>8 DEF GiveBack
  <2>2. hand[w].job \in Jobs
    BY <2>1 DEF Hands, Carrying, Lease
  <2>3. faults' \in 0..MaxFaults /\ queue' \in Seq(Jobs)
    BY <1>1, <2>1, <2>2, CountType, LpushType
  <2>4. Finite' /\ Hands'
    BY <1>1, <2>1 DEF Finite, Hands, Carrying, Holding
  <2> QED
    BY <1>1, <2>1, <2>3, <2>4 DEF TypeOK
<1>9. CASE Process(w)
  <2>1. hand[w] \in Lease /\ hand[w].by = w
    BY <1>9 DEF Process, Hands, Carrying, Holding
  <2>2. Finite' /\ Hands'
    BY <1>1, <1>9, <2>1 DEF Process, Finite, Hands, Carrying, Holding
  <2> QED
    BY <1>1, <1>9, <2>1, <2>2 DEF Process, TypeOK, Lease
<1>10. CASE Ack(w)
  <2>1. PICK o \in Outcomes :
          /\ Goto(w, "ack", "scan")
          /\ Zrem(hand[w], o)
          /\ hand' = [hand EXCEPT ![w] = NoLease]
          /\ Count(o)
          /\ UNCHANGED <<queue, ppc, depth, batch, processed>>
    BY <1>10 DEF Ack
  <2>2. faults' \in 0..MaxFaults
    BY <1>1, <2>1, CountType
  <2>3. processing' \subseteq processing /\ IsFiniteSet(processing')
    BY <2>1, FS_RemoveElement DEF Zrem, Finite
  <2>4. Finite' /\ Hands'
    BY <1>1, <2>1, <2>3 DEF Finite, Hands, Carrying, Holding
  <2> QED
    BY <1>1, <2>1, <2>2, <2>3, <2>4 DEF Zrem, TypeOK
<1>11. CASE Crash(w)
  <2>1. faults' \in 0..MaxFaults
    BY <1>1, <1>11, BoundsAssumption DEF Crash
  <2>2. Finite' /\ Hands'
    BY <1>1, <1>11, FS_EmptySet DEF Crash, Finite, Hands, Carrying, Holding
  <2> QED
    BY <1>1, <1>11, <2>1, <2>2 DEF Crash, TypeOK
<1> QED
  BY <1>2, <1>3, <1>4, <1>5, <1>6, <1>7, <1>8, <1>9, <1>10, <1>11 DEF WorkerStep

-----------------------------------------------------------------------------
(* Leases.                                                                 *)

\* No step makes two leases alike, or a batch that names a lease which has
\* not expired.
LEMMA NextInv ==
  ASSUME Inv, [Next]_vars
  PROVE  Inv'
<1> USE DEF Inv, Goto
<1>1. /\ wpc \in [Workers -> WorkerStates] /\ hand \in [Workers -> Lease \cup {NoLease}]
      /\ batch \in [Workers -> SUBSET Lease] /\ queue \in Seq(Jobs)
      /\ expired \subseteq processing
  BY DEF Types, TypeOK
<1>2. ASSUME UNCHANGED <<processing, expired, wpc, hand, batch, processed>>
      PROVE  Fresh' /\ Stale'
  BY <1>2 DEF Fresh, Stale
<1>3. CASE UNCHANGED vars
  BY <1>2, <1>3 DEF vars, Types, TypeOK, Finite, Hands
<1>4. ASSUME NEW j \in Jobs, PushBegin(j) \/ PushStep(j) PROVE Inv'
  <2>1. UNCHANGED <<processing, expired, wpc, hand, batch, processed>>
    BY <1>4 DEF PushBegin, PushStep, PushLlen, PushZcard, PushSend
  <2> QED
    BY <1>2, <1>4, <2>1, PushTypes
<1>5. ASSUME NEW w \in Workers, WorkerStep(w) \/ Crash(w) PROVE Fresh' /\ Stale'
  <2>1. CASE Scan(w)
    <3>1. PICK some \in SUBSET expired : batch' = [batch EXCEPT ![w] = some]
      BY <2>1 DEF Scan
    <3>2. UNCHANGED <<processing, expired, hand, processed>>
      BY <2>1 DEF Scan
    <3>3. \A v \in Workers : batch'[v] = batch[v] \/ batch'[v] \subseteq expired
      BY <1>1, <3>1
    <3>4. \A v \in Workers \ {w} : wpc'[v] = wpc[v]
      BY <1>1, <2>1 DEF Scan
    <3>5. wpc'[w] \in {"brpop", "zrem"}
      BY <1>1, <2>1 DEF Scan
    <3>6. Fresh'
      BY <1>1, <3>2, <3>3, <3>4, <3>5 DEF Fresh
    <3> QED
      BY <3>2, <3>3, <3>6 DEF Stale
  <2>2. CASE Remove(w)
    <3>1. PICK lease \in batch[w], o \in Outcomes :
            /\ Goto(w, "zrem", IF o = "ok" THEN "relist" ELSE "scan")
            /\ Zrem(lease, o)
            /\ batch' = [batch EXCEPT ![w] = IF o = "ok" THEN @ \ {lease} ELSE {}]
            /\ \A v \in Workers \ {w} : hand'[v] = hand[v]
            /\ UNCHANGED processed
      BY <1>1, <2>2 DEF Remove
    <3>2. /\ processing' \subseteq processing /\ expired' = expired \cap processing'
          /\ \A v \in Workers : batch'[v] \subseteq batch[v]
          /\ \A v \in Workers \ {w} : wpc'[v] = wpc[v]
          /\ wpc'[w] \in {"relist", "scan"}
      BY <1>1, <3>1 DEF Zrem
    <3>3. Fresh'
      BY <3>1, <3>2 DEF Fresh
    <3> QED
      BY <3>2, <3>3 DEF Stale
  <2>3. CASE Relist(w) \/ GiveBack(w) \/ BrpopNothing(w) \/ Crash(w)
    <3>1. /\ UNCHANGED <<processing, expired, processed>>
          /\ \A v \in Workers : batch'[v] \subseteq batch[v]
          /\ \A v \in Workers \ {w} : wpc'[v] = wpc[v] /\ hand'[v] = hand[v]
          /\ wpc'[w] \notin {"zadd", "ack"}
      BY <1>1, <2>3 DEF Relist, GiveBack, BrpopNothing, Crash
    <3>2. Fresh'
      BY <3>1 DEF Fresh
    <3> QED
      BY <3>1, <3>2 DEF Stale
  <2>4. CASE Brpop(w)
    <3> DEFINE lease == FreshLease(Head(queue), w)
    <3>1. /\ UNCHANGED <<processing, expired, batch, processed>>
          /\ \A v \in Workers \ {w} : wpc'[v] = wpc[v] /\ hand'[v] = hand[v]
          /\ wpc'[w] \in {"zadd", "scan"}
          /\ wpc'[w] = "zadd" => hand'[w] = lease
      BY <1>1, <2>4 DEF Brpop
    <3>2. Head(queue) \in Jobs
      BY <1>1, <2>4, HeadTailProperties DEF Brpop
    <3>3. lease \notin processing /\ \A v \in Workers : lease \notin batch[v]
      BY <3>2, LeaseIsFresh DEF Types
    <3> HIDE DEF lease
    <3>4. Fresh'
      BY <3>1, <3>3 DEF Fresh
    <3> QED
      BY <3>1, <3>4 DEF Stale
  <2>5. CASE Zadd(w)
    <3>1. /\ wpc[w] = "zadd" /\ wpc'[w] \in {"process", "giveback"}
          /\ \A v \in Workers \ {w} : wpc'[v] = wpc[v]
          /\ processing \subseteq processing'
          /\ processing' \subseteq processing \cup {hand[w]}
          /\ UNCHANGED <<expired, hand, batch, processed>>
      BY <1>1, <2>5 DEF Zadd
    <3>2. \A v \in Workers : hand[w] \notin batch[v]
      BY <3>1 DEF Fresh
    <3>3. hand[w].by = w /\ \A v \in Workers : wpc[v] = "zadd" => hand[v].by = v
      BY <3>1 DEF Types, Hands, Holding
    <3>4. \A v \in Workers \ {w} : wpc[v] = "zadd" => hand[v] # hand[w]
      BY <3>3
    <3>5. Fresh'
      BY <3>1, <3>4 DEF Fresh
    <3> QED
      BY <3>1, <3>2, <3>5 DEF Stale
  <2>6. CASE Process(w)
    <3>1. /\ UNCHANGED <<processing, expired, batch, hand>>
          /\ \A v \in Workers \ {w} : wpc'[v] = wpc[v]
          /\ wpc'[w] = "ack" /\ processed' = processed \cup {hand[w].job}
      BY <1>1, <2>6 DEF Process
    <3>2. Fresh'
      BY <3>1 DEF Fresh
    <3> QED
      BY <3>1, <3>2 DEF Stale
  <2>7. CASE Ack(w)
    <3>1. /\ processing' \subseteq processing /\ expired' = expired \cap processing'
          /\ \A v \in Workers \ {w} : wpc'[v] = wpc[v] /\ hand'[v] = hand[v]
          /\ wpc'[w] = "scan" /\ UNCHANGED <<batch, processed>>
      BY <1>1, <2>7 DEF Ack, Zrem
    <3>2. Fresh'
      BY <3>1 DEF Fresh
    <3> QED
      BY <3>1, <3>2 DEF Stale
  <2> QED
    BY <1>5, <2>1, <2>2, <2>3, <2>4, <2>5, <2>6, <2>7 DEF WorkerStep
<1>6. ASSUME NEW lease \in processing, LeaseExpires(lease) PROVE Inv'
  <2>1. /\ expired' = expired \cup {lease}
        /\ UNCHANGED <<queue, processing, ppc, depth, wpc, hand, batch, processed,
                       faults>>
    BY <1>6 DEF LeaseExpires
  <2> QED
    BY <2>1 DEF Types, TypeOK, Finite, Hands, Fresh, Stale
<1> QED
  BY <1>3, <1>4, <1>5, <1>6, WorkerTypes DEF Next, Expiry

\* The invariant holds of every reachable state.
LEMMA InvAlways == Spec => []Inv
<1>1. Inv /\ [Next]_vars => Inv'
  BY NextInv
<1> QED
  BY <1>1, InitInv, PTL DEF Spec

\* Every variable has its type.
THEOREM TypeOKAlways == Spec => []TypeOK
<1>1. Inv => TypeOK
  BY DEF Inv, Types
<1> QED
  BY <1>1, InvAlways, PTL

\* A lease that has not expired leaves the sorted set only by the Ack of the
\* worker that took it: neither the late Ack of another worker nor the requeue
\* of an older lease of its job removes it.
THEOREM LeaseKeptAlways == Spec => LeaseKept
<1> DEFINE kept == \A lease \in processing \ processing' :
              lease \in expired \/ (wpc[lease.by] = "ack" /\ hand[lease.by] = lease)
<1>1. ASSUME Inv, [Next]_vars PROVE kept
  <2>1. CASE processing \subseteq processing'
    BY <2>1
  <2>2. ASSUME NEW w \in Workers, Remove(w) PROVE kept
    <3>1. PICK lease \in batch[w] : processing \ processing' \subseteq {lease}
      BY <2>2 DEF Remove, Zrem
    <3> QED
      BY <1>1, <3>1 DEF Inv, Stale
  <2>3. ASSUME NEW w \in Workers, Ack(w) PROVE kept
    <3>1. wpc[w] = "ack" /\ processing \ processing' \subseteq {hand[w]}
      BY <2>3 DEF Ack, Goto, Zrem
    <3>2. hand[w].by = w
      BY <1>1, <3>1 DEF Inv, Types, Hands, Holding
    <3> QED
      BY <3>1, <3>2
  <2>4. ASSUME NEW j \in Jobs, PushBegin(j) \/ PushStep(j)
        PROVE  processing \subseteq processing'
    BY <2>4 DEF PushBegin, PushStep, PushLlen, PushZcard, PushSend
  <2>5. ASSUME NEW w \in Workers,
               \/ Scan(w) \/ Relist(w) \/ Brpop(w) \/ BrpopNothing(w) \/ Zadd(w)
               \/ GiveBack(w) \/ Process(w) \/ Crash(w)
        PROVE  processing \subseteq processing'
    BY <2>5 DEF Scan, Relist, Brpop, BrpopNothing, Zadd, GiveBack, Process, Crash
  <2>6. ASSUME NEW lease, LeaseExpires(lease) PROVE processing \subseteq processing'
    BY <2>6 DEF LeaseExpires
  <2> QED
    BY <1>1, <2>1, <2>2, <2>3, <2>4, <2>5, <2>6
       DEF Next, WorkerStep, Expiry, vars
<1>2. ASSUME Inv, [Next]_vars PROVE [kept]_vars
  BY <1>1, <1>2
<1> QED
  BY <1>2, InvAlways, PTL DEF Spec, LeaseKept

-----------------------------------------------------------------------------
(* Losses.                                                                 *)

\* What LPUSH puts into the list is in it, and nothing leaves it.
LEMMA LpushKeeps ==
  ASSUME queue \in Seq(Jobs), NEW j \in Jobs, NEW o, Lpush(j, o)
  PROVE  /\ \A i : InQueue(i) => InQueue(i)'
         /\ o # "refused" => InQueue(j)'
BY AppendProperties, LenProperties DEF Lpush, InQueue

\* BRPOP takes one job out of the list and leaves all others.
LEMMA PopKeeps ==
  ASSUME queue \in Seq(Jobs), queue # <<>>, queue' = Tail(queue), NEW j,
         InQueue(j), ~InQueue(j)'
  PROVE  j = Head(queue)
<1>1. /\ Len(queue) \in Nat \ {0} /\ Len(queue') = Len(queue) - 1
      /\ \A n \in 1..Len(queue') : queue'[n] = queue[n + 1]
  BY EmptySeq, HeadTailProperties
<1>2. PICK n \in 1..Len(queue) : queue[n] = j
  BY DEF InQueue
<1>3. CASE n = 1
  BY <1>2, <1>3
<1>4. CASE n # 1
  <2>1. n - 1 \in 1..Len(queue') /\ (n - 1) + 1 = n
    BY <1>1, <1>4
  <2> QED
    BY <1>1, <1>2, <2>1 DEF InQueue
<1> QED
  BY <1>3, <1>4

\* A step of a worker loses a job only by such a fault.
LEMMA WorkerLoses ==
  ASSUME Inv, NEW w \in Workers, WorkerStep(w) \/ Crash(w),
         NEW j \in Jobs, Lost(j)', ~Lost(j)
  PROVE  FaultInTransit(j)
<1> USE DEF Goto
<1>1. /\ wpc \in [Workers -> WorkerStates] /\ hand \in [Workers -> Lease \cup {NoLease}]
      /\ batch \in [Workers -> SUBSET Lease] /\ queue \in Seq(Jobs)
      /\ faults \in 0..MaxFaults /\ processed \subseteq processed'
      /\ UNCHANGED ppc
  BY DEF Inv, Types, TypeOK, WorkerStep, Scan, Remove, Relist, Brpop,
         BrpopNothing, Zadd, GiveBack, Process, Ack, Crash
<1>2. /\ j \notin processed /\ ~InQueue(j)' /\ ~Leased(j)' /\ ~InTransit(j)'
      /\ InQueue(j) \/ Leased(j) \/ InTransit(j)
  BY <1>1 DEF Lost
<1>3. ASSUME UNCHANGED <<queue, processing>>, InTransit(j) => InTransit(j)'
      PROVE  FALSE
  BY <1>2, <1>3 DEF InQueue, Leased
<1>4. ASSUME \A v \in Workers \ {w} : wpc'[v] = wpc[v] /\ hand'[v] = hand[v],
             InTransit(j)
      PROVE  wpc[w] \in {"relist", "zadd", "giveback"} /\ hand[w].job = j
  BY <1>2, <1>4 DEF InTransit
<1>5. CASE Scan(w) \/ BrpopNothing(w) \/ Process(w)
  <2>1. UNCHANGED <<queue, processing>>
    BY <1>5 DEF Scan, BrpopNothing, Process
  <2>2. InTransit(j) => InTransit(j)'
    BY <1>1, <1>5 DEF Scan, BrpopNothing, Process, InTransit
  <2> QED
    BY <1>3, <2>1, <2>2
<1>6. CASE Remove(w)
  <2>1. PICK lease \in batch[w], o \in Outcomes :
          /\ Goto(w, "zrem", IF o = "ok" THEN "relist" ELSE "scan")
          /\ Zrem(lease, o)
          /\ hand' = [hand EXCEPT ![w] = IF o = "ok" THEN lease ELSE NoLease]
          /\ Count(o)
          /\ UNCHANGED queue
    BY <1>6 DEF Remove
  <2>2. ~InTransit(j)
    BY <1>1, <1>4, <2>1
  <2>3. Leased(j)
    BY <1>2, <2>1, <2>2 DEF InQueue
  <2>4. lease.job = j
    BY <1>2, <2>1, <2>3 DEF Zrem, Leased
  <2>5. o # "ok"
    BY <1>1, <1>2, <2>1, <2>4 DEF InTransit
  <2>6. faults' # faults
    BY <1>1, <2>1, <2>5, CountType
  <2> QED
    BY <1>1, <2>1, <2>4, <2>5, <2>6 DEF FaultInTransit
<1>7. CASE Relist(w) \/ GiveBack(w)
  <2>1. PICK o \in Outcomes : Lpush(hand[w].job, o) /\ Count(o)
    BY <1>7 DEF Relist, GiveBack
  <2>2. /\ wpc[w] \in {"relist", "giveback"} /\ UNCHANGED processing
        /\ \A v \in Workers \ {w} : wpc'[v] = wpc[v] /\ hand'[v] = hand[v]
    BY <1>1, <1>7 DEF Relist, GiveBack
  <2>3. hand[w].job \in Jobs
    BY <2>2 DEF Inv, Types, Hands, Carrying, Lease
  <2>4. InTransit(j)
    BY <1>1, <1>2, <2>1, <2>2, <2>3, LpushKeeps DEF Leased
  <2>5. hand[w].job = j
    BY <1>4, <2>2, <2>4
  <2>6. o = "refused"
    BY <1>1, <1>2, <2>1, <2>3, <2>5, LpushKeeps
  <2>7. faults' # faults
    BY <1>1, <2>1, <2>6, CountType
  <2> QED
    BY <2>4, <2>7 DEF FaultInTransit
<1>8. CASE Brpop(w)
  <2> DEFINE lease == FreshLease(Head(queue), w)
  <2>1. PICK o \in Outcomes :
          /\ queue # <<>>
          /\ Goto(w, "brpop", IF o = "ok" THEN "zadd" ELSE "scan")
          /\ queue' = Tail(queue)
          /\ hand' = [hand EXCEPT ![w] = IF o = "ok" THEN lease ELSE NoLease]
          /\ Count(o)
          /\ UNCHANGED processing
    BY <1>8 DEF Brpop
  <2>2. Head(queue) \in Jobs
    BY <1>1, <2>1, HeadTailProperties
  <2>3. lease.job = Head(queue)
    BY <2>2, LeaseIsFresh DEF Inv, Types
  <2> HIDE DEF lease
  <2>4. ~InTransit(j)
    BY <1>1, <1>4, <2>1
  <2>5. InQueue(j)
    BY <1>2, <2>1, <2>4 DEF Leased
  <2>6. j = Head(queue)
    BY <1>1, <1>2, <2>1, <2>5, PopKeeps
  <2>7. o # "ok"
    BY <1>1, <1>2, <2>1, <2>3, <2>6 DEF InTransit
  <2>8. faults' # faults
    BY <1>1, <2>1, <2>7, CountType
  <2> QED
    BY <1>1, <2>1, <2>5, <2>7, <2>8 DEF FaultInTransit
<1>9. CASE Zadd(w)
  <2>1. /\ wpc[w] = "zadd" /\ UNCHANGED <<queue, hand>>
        /\ processing \subseteq processing'
        /\ \/ wpc' = [wpc EXCEPT ![w] = "process"] /\ hand[w] \in processing'
           \/ wpc' = [wpc EXCEPT ![w] = "giveback"]
    BY <1>9 DEF Zadd
  <2>2. InTransit(j)
    BY <1>2, <2>1 DEF InQueue, Leased
  <2>3. hand[w].job = j
    BY <1>1, <1>4, <2>1, <2>2
  <2> QED
    BY <1>1, <1>2, <2>1, <2>3 DEF InTransit, Leased
<1>10. CASE Ack(w)
  <2>1. /\ wpc[w] = "ack" /\ UNCHANGED queue
        /\ processing \ processing' \subseteq {hand[w]}
        /\ \A v \in Workers \ {w} : wpc'[v] = wpc[v] /\ hand'[v] = hand[v]
    BY <1>1, <1>10 DEF Ack, Zrem
  <2>2. Leased(j)
    BY <1>2, <1>4, <2>1 DEF InQueue
  <2>3. hand[w].job = j
    BY <1>2, <2>1, <2>2 DEF Leased
  <2> QED
    BY <1>2, <2>1, <2>3 DEF Inv, Fresh
<1>11. CASE Crash(w)
  <2>1. /\ UNCHANGED <<queue, processing>> /\ faults' # faults
        /\ \A v \in Workers \ {w} : wpc'[v] = wpc[v] /\ hand'[v] = hand[v]
    BY <1>1, <1>11 DEF Crash
  <2>2. InTransit(j)
    BY <1>2, <2>1 DEF InQueue, Leased
  <2> QED
    BY <2>1, <2>2 DEF FaultInTransit
<1> QED
  BY <1>5, <1>6, <1>7, <1>8, <1>9, <1>10, <1>11 DEF WorkerStep

\* A job gets lost only when a fault hits the worker that carries it from one
\* key to the other, or the command that takes it out: no expiry, no race of
\* requeuing workers and no crash elsewhere loses one.
THEOREM LossNeedsFaultInTransitAlways == Spec => LossNeedsFaultInTransit
<1>1. ASSUME Inv, [Next]_vars, NEW j \in Jobs, Lost(j)', ~Lost(j)
      PROVE  FaultInTransit(j)
  <2>1. queue \in Seq(Jobs) /\ ppc \in [Jobs -> PushStates]
    BY <1>1 DEF Inv, Types, TypeOK
  <2>2. CASE UNCHANGED vars
    BY <1>1, <2>2 DEF vars, Lost, InQueue, Leased, InTransit
  <2>3. ASSUME NEW i \in Jobs, PushBegin(i) \/ PushStep(i) PROVE FALSE
    <3>1. UNCHANGED <<processing, wpc, hand, processed>>
      BY <2>3 DEF PushBegin, PushStep, PushLlen, PushZcard, PushSend
    <3>2. CASE PushSend(i)
      <4>1. PICK o \in Outcomes :
              /\ ppc' = [ppc EXCEPT ![i] = IF o = "ok" THEN "pushed" ELSE "failed"]
              /\ Lpush(i, o)
        BY <3>2 DEF PushSend, PushGoto
      <4>2. CASE i = j /\ o = "ok"
        BY <1>1, <2>1, <4>1, <4>2, LpushKeeps DEF Lost
      <4>3. CASE i # j \/ o # "ok"
        <5>1. ppc[j] = "pushed"
          BY <1>1, <2>1, <4>1, <4>3 DEF Lost
        <5>2. InQueue(j) => InQueue(j)'
          BY <2>1, <4>1, LpushKeeps
        <5> QED
          BY <1>1, <3>1, <5>1, <5>2 DEF Lost, Leased, InTransit
      <4> QED
        BY <4>2, <4>3
    <3>3. CASE ~PushSend(i)
      <4>1. UNCHANGED queue /\ (ppc'[j] = "pushed" => ppc[j] = "pushed")
        BY <2>1, <2>3, <3>3
           DEF PushBegin, PushStep, PushLlen, PushZcard, PushGoto
      <4> QED
        BY <1>1, <3>1, <4>1 DEF Lost, InQueue, Leased, InTransit
    <3> QED
      BY <3>2, <3>3
  <2>4. ASSUME NEW lease, LeaseExpires(lease) PROVE FALSE
    BY <1>1, <2>4 DEF LeaseExpires, Lost, InQueue, Leased, InTransit
  <2> QED
    BY <1>1, <2>2, <2>3, <2>4, WorkerLoses DEF Next, Expiry
<1>2. ASSUME Inv, [Next]_vars
      PROVE  [\A j \in Jobs : Lost(j)' => Lost(j) \/ FaultInTransit(j)]_vars
  BY <1>1, <1>2
<1> QED
  BY <1>2, InvAlways, PTL DEF Spec, LossNeedsFaultInTransit

-----------------------------------------------------------------------------
(* The queue implements AtLeastOnce.                                       *)

\* Where a job is in a list.
Positions(q, j) == {i \in 1..Len(q) : q[i] = j}

\* Positions can be counted.
LEMMA PositionsFinite ==
  ASSUME NEW q \in Seq(Jobs), NEW j
  PROVE  IsFiniteSet(Positions(q, j)) /\ Cardinality(Positions(q, j)) \in Nat
<1>1. IsFiniteSet(1..Len(q))
  BY FS_Interval, LenProperties
<1>2. Positions(q, j) \in SUBSET (1..Len(q))
  BY DEF Positions
<1> QED
  BY <1>1, <1>2, FS_Subset, FS_CardinalityType

\* Appending a job adds one to its copies and nothing to those of others.
LEMMA PositionsAppend ==
  ASSUME NEW q \in Seq(Jobs), NEW e \in Jobs, NEW j
  PROVE  Cardinality(Positions(Append(q, e), j)) =
           IF j = e THEN Cardinality(Positions(q, j)) + 1
                    ELSE Cardinality(Positions(q, j))
<1>1. /\ Len(q) \in Nat /\ Len(Append(q, e)) = Len(q) + 1
      /\ \A i \in 1..Len(q) : Append(q, e)[i] = q[i]
      /\ Append(q, e)[Len(q) + 1] = e
  BY LenProperties, AppendProperties
<1>2. CASE j = e
  <2>1. Positions(Append(q, e), j) = Positions(q, j) \cup {Len(q) + 1}
    BY <1>1, <1>2 DEF Positions
  <2>2. Len(q) + 1 \notin Positions(q, j)
    BY <1>1 DEF Positions
  <2>3. Cardinality(Positions(q, j) \cup {Len(q) + 1}) = Cardinality(Positions(q, j)) + 1
    BY <2>2, PositionsFinite, FS_AddElement
  <2> QED
    BY <1>2, <2>1, <2>3
<1>3. CASE j # e
  <2>1. Positions(Append(q, e), j) = Positions(q, j)
    BY <1>1, <1>3 DEF Positions
  <2> QED
    BY <1>3, <2>1
<1> QED
  BY <1>2, <1>3

\* Taking the head leaves one copy less of it and as many of all others.
LEMMA PositionsTail ==
  ASSUME NEW q \in Seq(Jobs), q # <<>>, NEW j
  PROVE  Cardinality(Positions(Tail(q), j)) =
           IF j = Head(q) THEN Cardinality(Positions(q, j)) - 1
                          ELSE Cardinality(Positions(q, j))
<1> DEFINE T == Positions(Tail(q), j)
           R == Positions(q, j) \ {1}
           f == [i \in T |-> i + 1]
<1>1. /\ Len(q) \in Nat \ {0} /\ Len(Tail(q)) = Len(q) - 1
      /\ Tail(q) \in Seq(Jobs)
      /\ \A i \in 1..Len(Tail(q)) : Tail(q)[i] = q[i + 1]
  BY EmptySeq, HeadTailProperties
<1>2. f \in [T -> R]
  BY <1>1 DEF Positions
<1>3. \A a, b \in T : f[a] = f[b] => a = b
  BY <1>1 DEF Positions
<1>4. \A r \in R : \E a \in T : f[a] = r
  <2> SUFFICES ASSUME NEW r \in R PROVE r - 1 \in T /\ f[r - 1] = r
    OBVIOUS
  <2>1. r \in 2..Len(q) /\ q[r] = j
    BY <1>1 DEF Positions
  <2>2. r - 1 \in 1..Len(Tail(q)) /\ (r - 1) + 1 = r
    BY <1>1, <2>1
  <2>3. r - 1 \in T
    BY <1>1, <2>1, <2>2 DEF Positions
  <2> QED
    BY <2>2, <2>3
<1>5. ExistsBijection(T, R)
  BY <1>2, <1>3, <1>4 DEF ExistsBijection, Bijection, Injection, IsInjective, Surjection
<1>6. Cardinality(T) = Cardinality(R)
  BY <1>1, <1>5, PositionsFinite, FS_Bijection
<1>7. Cardinality(R) = IF 1 \in Positions(q, j) THEN Cardinality(Positions(q, j)) - 1
                                                 ELSE Cardinality(Positions(q, j))
  BY PositionsFinite, FS_RemoveElement
<1>8. 1 \in Positions(q, j) <=> j = Head(q)
  BY <1>1 DEF Positions
<1> QED
  BY <1>6, <1>7, <1>8

\* The mapped state.
Begun == {j \in Jobs : ppc[j] # "idle"}
Queued == [j \in Jobs |-> Cardinality(Positions(queue, j))]
Held == [w \in Workers |-> IF wpc[w] \in Holding THEN hand[w].job ELSE NoLease]

\* Whatever is in the keys or with a worker comes from a Push that was begun.
Known ==
  /\ \A i \in 1..Len(queue) : queue[i] \in Begun
  /\ \A lease \in processing : lease.job \in Begun
  /\ \A w \in Workers : \A lease \in batch[w] : lease.job \in Begun
  /\ \A w \in Workers : wpc[w] \in Carrying => hand[w].job \in Begun

\* LPUSH of a known job leaves known jobs.
LEMMA LpushKnown ==
  ASSUME queue \in Seq(Jobs), NEW j \in Jobs, j \in Begun', NEW o, Lpush(j, o),
         \A i \in 1..Len(queue) : queue[i] \in Begun'
  PROVE  \A i \in 1..Len(queue') : queue'[i] \in Begun'
<1>1. CASE o = "refused"
  BY <1>1 DEF Lpush
<1>2. CASE o # "refused"
  <2>1. /\ Len(queue) \in Nat /\ Len(queue') = Len(queue) + 1
        /\ \A i \in 1..Len(queue) : queue'[i] = queue[i]
        /\ queue'[Len(queue) + 1] = j
    BY <1>2, LenProperties, AppendProperties DEF Lpush
  <2> QED
    BY <2>1
<1> QED
  BY <1>1, <1>2

\* No step makes up a job.
LEMMA NextKnown ==
  ASSUME Inv, Known, [Next]_vars
  PROVE  Known'
<1> USE DEF Goto
<1>1. /\ wpc \in [Workers -> WorkerStates] /\ hand \in [Workers -> Lease \cup {NoLease}]
      /\ batch \in [Workers -> SUBSET Lease] /\ queue \in Seq(Jobs)
      /\ expired \subseteq processing /\ ppc \in [Jobs -> PushStates]
      /\ Len(queue) \in Nat
  BY LenProperties DEF Inv, Types, TypeOK
<1>2. CASE UNCHANGED vars
  BY <1>2 DEF vars, Known, Begun
<1>3. ASSUME NEW j \in Jobs, PushBegin(j) \/ PushStep(j) PROVE Known'
  <2>1. /\ UNCHANGED <<processing, wpc, hand, batch>>
        /\ Begun \subseteq Begun'
    BY <1>1, <1>3 DEF PushBegin, PushStep, PushLlen, PushZcard, PushSend,
                      PushGoto, Begun, PushStates
  <2>2. \A i \in 1..Len(queue) : queue[i] \in Begun'
    BY <2>1 DEF Known
  <2>3. \A i \in 1..Len(queue') : queue'[i] \in Begun'
    <3>1. CASE PushSend(j)
      <4>1. PICK o \in Outcomes : Lpush(j, o)
        BY <3>1 DEF PushSend
      <4>2. j \in Begun'
        BY <1>1, <2>1, <3>1 DEF PushSend, PushGoto, Begun
      <4> QED
        BY <1>1, <2>2, <4>1, <4>2, LpushKnown
    <3>2. CASE ~PushSend(j)
      BY <1>3, <2>2, <3>2 DEF PushBegin, PushStep, PushLlen, PushZcard
    <3> QED
      BY <3>1, <3>2
  <2> QED
    BY <2>1, <2>3 DEF Known
<1>4. ASSUME NEW w \in Workers, WorkerStep(w) \/ Crash(w) PROVE Known'
  <2>1. Begun' = Begun
    BY <1>4 DEF WorkerStep, Scan, Remove, Relist, Brpop, BrpopNothing, Zadd,
                GiveBack, Process, Ack, Crash, Begun
  <2>2. CASE Scan(w)
    <3>1. /\ UNCHANGED <<queue, processing, hand>>
          /\ \A v \in Workers \ {w} : wpc'[v] = wpc[v] /\ batch'[v] = batch[v]
          /\ wpc'[w] \notin Carrying /\ batch'[w] \subseteq processing
      BY <1>1, <2>2 DEF Scan, Carrying
    <3> QED
      BY <2>1, <3>1 DEF Known
  <2>3. CASE Remove(w)
    <3>1. PICK lease \in batch[w] :
            /\ UNCHANGED queue /\ processing' \subseteq processing
            /\ \A v \in Workers \ {w} : wpc'[v] = wpc[v] /\ hand'[v] = hand[v]
            /\ \A v \in Workers : batch'[v] \subseteq batch[v]
            /\ wpc'[w] \in Carrying => hand'[w] = lease
      BY <1>1, <2>3 DEF Remove, Zrem, Carrying
    <3> QED
      BY <2>1, <3>1 DEF Known
  <2>4. CASE Relist(w) \/ GiveBack(w)
    <3>1. /\ UNCHANGED processing /\ wpc[w] \in Carrying
          /\ \A v \in Workers \ {w} : wpc'[v] = wpc[v] /\ hand'[v] = hand[v]
          /\ \A v \in Workers : batch'[v] \subseteq batch[v]
          /\ wpc'[w] \notin Carrying
      BY <1>1, <2>4 DEF Relist, GiveBack, Carrying
    <3>2. PICK o \in Outcomes : Lpush(hand[w].job, o)
      BY <2>4 DEF Relist, GiveBack
    <3>3. hand[w].job \in Begun /\ hand[w].job \in Jobs
      BY <3>1 DEF Known, Begun
    <3>4. \A i \in 1..Len(queue') : queue'[i] \in Begun'
      BY <1>1, <2>1, <3>2, <3>3, LpushKnown DEF Known
    <3> QED
      BY <2>1, <3>1, <3>4 DEF Known
  <2>5. CASE Brpop(w)
    <3> DEFINE lease == FreshLease(Head(queue), w)
    <3>1. /\ queue # <<>> /\ queue' = Tail(queue)
          /\ UNCHANGED <<processing, batch>>
          /\ \A v \in Workers \ {w} : wpc'[v] = wpc[v] /\ hand'[v] = hand[v]
          /\ wpc'[w] \in Carrying => hand'[w] = lease
      BY <1>1, <2>5 DEF Brpop, Carrying
    <3>2. /\ Len(queue) \in Nat \ {0} /\ Len(queue') = Len(queue) - 1
          /\ \A n \in 1..Len(queue') : queue'[n] = queue[n + 1]
      BY <1>1, <3>1, EmptySeq, HeadTailProperties
    <3>3. Head(queue) = queue[1] /\ queue[1] \in Begun
      BY <1>1, <3>1, <3>2 DEF Known
    <3>4. lease.job \in Begun
      BY <3>3, LeaseIsFresh DEF Inv, Types, Begun
    <3> HIDE DEF lease
    <3>5. \A i \in 1..Len(queue') : queue'[i] \in Begun'
      BY <2>1, <3>2 DEF Known
    <3> QED
      BY <2>1, <3>1, <3>4, <3>5 DEF Known
  <2>6. CASE BrpopNothing(w) \/ Process(w) \/ Ack(w) \/ Crash(w)
    <3>1. /\ UNCHANGED queue /\ processing' \subseteq processing
          /\ \A v \in Workers \ {w} : wpc'[v] = wpc[v] /\ hand'[v] = hand[v]
          /\ \A v \in Workers : batch'[v] \subseteq batch[v]
          /\ \/ wpc'[w] \notin Carrying
             \/ wpc[w] \in Carrying /\ hand'[w] = hand[w]
      BY <1>1, <2>6 DEF BrpopNothing, Process, Ack, Zrem, Crash, Carrying
    <3> QED
      BY <2>1, <3>1 DEF Known
  <2>7. CASE Zadd(w)
    <3>1. /\ UNCHANGED <<queue, hand, batch>> /\ wpc[w] \in Carrying
          /\ processing' \subseteq processing \cup {hand[w]}
          /\ \A v \in Workers \ {w} : wpc'[v] = wpc[v]
      BY <1>1, <2>7 DEF Zadd, Carrying
    <3> QED
      BY <2>1, <3>1 DEF Known
  <2> QED
    BY <1>4, <2>2, <2>3, <2>4, <2>5, <2>6, <2>7 DEF WorkerStep
<1>5. ASSUME NEW lease, LeaseExpires(lease) PROVE Known'
  BY <1>5 DEF LeaseExpires, Known, Begun
<1> QED
  BY <1>2, <1>3, <1>4, <1>5 DEF Next, Expiry

\* What LPUSH is to a user of the queue: nothing when it was refused, another
\* copy otherwise.
LEMMA LpushCopies ==
  ASSUME queue \in Seq(Jobs), NEW j \in Jobs, NEW o, Lpush(j, o)
  PROVE  /\ o = "refused" => Queued' = Queued
         /\ o # "refused" => Queued' = [Queued EXCEPT ![j] = @ + 1]
<1>1. CASE o = "refused"
  BY <1>1 DEF Lpush, Queued
<1>2. CASE o # "refused"
  <2>1. queue' = Append(queue, j)
    BY <1>2 DEF Lpush
  <2>2. \A i \in Jobs : Cardinality(Positions(queue', i)) =
          IF i = j THEN Cardinality(Positions(queue, i)) + 1
                   ELSE Cardinality(Positions(queue, i))
    BY <2>1, PositionsAppend
  <2> QED
    BY <1>2, <2>2 DEF Queued
<1> QED
  BY <1>1, <1>2

\* A worker's step is a step of AtLeastOnce or leaves it alone.
LEMMA WorkerRefines ==
  ASSUME Inv, Known, NEW w \in Workers, WorkerStep(w) \/ Crash(w)
  PROVE  Promise!QueueNext \/ UNCHANGED Promise!queueVars
<1> USE DEF Goto, Holding
<1>1. /\ wpc \in [Workers -> WorkerStates] /\ hand \in [Workers -> Lease \cup {NoLease}]
      /\ queue \in Seq(Jobs)
  BY DEF Inv, Types, TypeOK
<1>2. Begun' = Begun
  BY DEF WorkerStep, Scan, Remove, Relist, Brpop, BrpopNothing, Zadd, GiveBack,
         Process, Ack, Crash, Begun
<1>3. ASSUME Queued' = Queued, Held' = Held PROVE UNCHANGED Promise!queueVars
  BY <1>2, <1>3 DEF Promise!queueVars, Begun, Queued, Positions, Held
<1>4. ASSUME NEW j \in Begun, Queued' = [Queued EXCEPT ![j] = @ + 1], Held' = Held
      PROVE  Promise!QueueNext
  <2>1. Promise!Enqueue(j)
    BY <1>2, <1>4 DEF Promise!Enqueue, Begun, Queued, Positions, Held
  <2> QED
    BY <2>1 DEF Promise!QueueNext, Begun
<1>5. ASSUME Queued' = Queued, Held' = [Held EXCEPT ![w] = NoLease]
      PROVE  Promise!QueueNext
  <2>1. Promise!Release(w)
    BY <1>2, <1>5 DEF Promise!Release, Begun, Queued, Positions, Held
  <2> QED
    BY <2>1 DEF Promise!QueueNext
<1>6. ASSUME wpc[w] \notin Holding, wpc'[w] \notin Holding,
             \A v \in Workers \ {w} : wpc'[v] = wpc[v] /\ hand'[v] = hand[v]
      PROVE  Held' = Held
  BY <1>6 DEF Held
<1>7. ASSUME wpc'[w] \notin Holding,
             \A v \in Workers \ {w} : wpc'[v] = wpc[v] /\ hand'[v] = hand[v]
      PROVE  Held' = [Held EXCEPT ![w] = NoLease]
  BY <1>7 DEF Held
<1>8. CASE Scan(w) \/ Remove(w) \/ BrpopNothing(w)
  <2>1. UNCHANGED queue
    BY <1>8 DEF Scan, Remove, BrpopNothing
  <2>2. Held' = Held
    BY <1>1, <1>6, <1>8 DEF Scan, Remove, BrpopNothing
  <2> QED
    BY <1>3, <2>1, <2>2 DEF Queued
<1>9. CASE Relist(w)
  <2>1. PICK o \in Outcomes : Lpush(hand[w].job, o)
    BY <1>9 DEF Relist
  <2>2. Held' = Held
    BY <1>1, <1>6, <1>9 DEF Relist
  <2>3. PICK j \in Begun : j = hand[w].job
    BY <1>9 DEF Relist, Known, Carrying
  <2>4. Queued' = Queued \/ Queued' = [Queued EXCEPT ![j] = @ + 1]
    BY <1>1, <2>1, <2>3, LpushCopies DEF Begun
  <2> QED
    BY <1>3, <1>4, <2>2, <2>4
<1>10. CASE Brpop(w)
  <2> DEFINE lease == FreshLease(Head(queue), w)
  <2>1. PICK o \in Outcomes :
          /\ queue # <<>> /\ queue' = Tail(queue)
          /\ wpc[w] = "brpop"
          /\ wpc' = [wpc EXCEPT ![w] = IF o = "ok" THEN "zadd" ELSE "scan"]
          /\ hand' = [hand EXCEPT ![w] = IF o = "ok" THEN lease ELSE NoLease]
    BY <1>10 DEF Brpop
  <2>2. PICK j \in Jobs : j = Head(queue)
    BY <1>1, <2>1, HeadTailProperties
  <2>3. lease.job = j
    BY <2>2, LeaseIsFresh DEF Inv, Types
  <2> HIDE DEF lease
  <2>4. \A i \in Jobs : Cardinality(Positions(queue', i)) =
          IF i = j THEN Cardinality(Positions(queue, i)) - 1
                   ELSE Cardinality(Positions(queue, i))
    BY <1>1, <2>1, <2>2, PositionsTail
  <2>5. Queued' = [Queued EXCEPT ![j] = @ - 1]
    BY <2>4 DEF Queued
  <2>6. Queued[j] > 0
    <3>1. Len(queue) \in Nat \ {0} /\ Head(queue) = queue[1]
      BY <1>1, <2>1, EmptySeq
    <3>2. 1 \in Positions(queue, j)
      BY <2>2, <3>1 DEF Positions
    <3>3. Cardinality(Positions(queue, j)) # 0
      BY <1>1, <3>2, PositionsFinite, FS_EmptySet
    <3>4. Cardinality(Positions(queue, j)) \in Nat
      BY <1>1, PositionsFinite
    <3> QED
      BY <3>3, <3>4 DEF Queued
  <2>7. CASE o = "ok"
    <3>1. Held[w] = NoLease /\ Held' = [Held EXCEPT ![w] = j]
      BY <1>1, <2>1, <2>3, <2>7 DEF Held
    <3>2. Promise!Take(w, j)
      BY <1>2, <2>5, <2>6, <3>1
         DEF Promise!Take, Begun, Queued, Positions, Held
    <3> QED
      BY <3>2 DEF Promise!QueueNext
  <2>8. CASE o # "ok"
    <3>1. Held' = Held
      BY <1>1, <1>6, <2>1, <2>8
    <3>2. Promise!Lose(j)
      BY <1>2, <2>5, <2>6, <3>1
         DEF Promise!Lose, Begun, Queued, Positions, Held
    <3> QED
      BY <3>2 DEF Promise!QueueNext
  <2> QED
    BY <2>7, <2>8
<1>11. CASE Zadd(w) \/ Process(w)
  <2>1. UNCHANGED queue
    BY <1>11 DEF Zadd, Process
  <2>2. Held' = Held
    BY <1>1, <1>11 DEF Zadd, Process, Held
  <2> QED
    BY <1>3, <2>1, <2>2 DEF Queued
<1>12. CASE GiveBack(w)
  <2>1. PICK o \in Outcomes : Lpush(hand[w].job, o)
    BY <1>12 DEF GiveBack
  <2>2. Held' = [Held EXCEPT ![w] = NoLease]
    BY <1>1, <1>7, <1>12 DEF GiveBack
  <2>3. PICK j \in Begun : j = hand[w].job
    BY <1>12 DEF GiveBack, Known, Carrying
  <2>4. Held[w] = j /\ j # NoLease
    BY <1>12, <2>3, NoLeaseAssumption DEF GiveBack, Held, Begun
  <2>5. Queued' = Queued \/ Queued' = [Queued EXCEPT ![j] = @ + 1]
    BY <1>1, <2>1, <2>3, LpushCopies DEF Begun
  <2>6. ASSUME Queued' = [Queued EXCEPT ![j] = @ + 1] PROVE Promise!QueueNext
    <3>1. Promise!GiveBack(w)
      BY <1>2, <2>2, <2>4, <2>6
         DEF Promise!GiveBack, Begun, Queued, Positions, Held
    <3> QED
      BY <3>1 DEF Promise!QueueNext
  <2> QED
    BY <1>5, <2>2, <2>5, <2>6
<1>13. CASE Ack(w) \/ Crash(w)
  <2>1. UNCHANGED queue
    BY <1>13 DEF Ack, Crash
  <2>2. Held' = [Held EXCEPT ![w] = NoLease]
    BY <1>1, <1>7, <1>13 DEF Ack, Crash
  <2> QED
    BY <1>5, <2>1, <2>2 DEF Queued
<1> QED
  BY <1>8, <1>9, <1>10, <1>11, <1>12, <1>13 DEF WorkerStep

\* So is a step of Push.
LEMMA PushRefines ==
  ASSUME Inv, NEW j \in Jobs, PushBegin(j) \/ PushStep(j)
  PROVE  Promise!QueueNext \/ UNCHANGED Promise!queueVars
<1> USE DEF PushGoto
<1>1. ppc \in [Jobs -> PushStates] /\ queue \in Seq(Jobs)
  BY DEF Inv, Types, TypeOK
<1>2. Held' = Held
  BY DEF PushBegin, PushStep, PushLlen, PushZcard, PushSend, Held
<1>3. CASE PushBegin(j)
  <2>1. Begun' = Begun \cup {j}
    BY <1>1, <1>3 DEF PushBegin, Begun
  <2>2. Queued' = Queued
    BY <1>3 DEF PushBegin, Queued
  <2>3. Promise!Begin(j)
    BY <1>2, <2>1, <2>2
       DEF Promise!Begin, Begun, Queued, Positions, Held, Holding
  <2> QED
    BY <2>3 DEF Promise!QueueNext
<1>4. CASE PushStep(j)
  <2>1. Begun' = Begun /\ j \in Begun
    BY <1>1, <1>4 DEF PushStep, PushLlen, PushZcard, PushSend, Begun
  <2>2. Queued' = Queued \/ Queued' = [Queued EXCEPT ![j] = @ + 1]
    <3>1. CASE PushSend(j)
      BY <1>1, <3>1, LpushCopies DEF PushSend
    <3> QED
      BY <1>4, <3>1 DEF PushStep, PushLlen, PushZcard, Queued
  <2>3. CASE Queued' = Queued
    BY <1>2, <2>1, <2>3
       DEF Promise!queueVars, Begun, Queued, Positions, Held, Holding
  <2>4. CASE Queued' = [Queued EXCEPT ![j] = @ + 1]
    <3>1. Promise!Enqueue(j)
      BY <1>2, <2>1, <2>4
         DEF Promise!Enqueue, Begun, Queued, Positions, Held, Holding
    <3> QED
      BY <3>1 DEF Promise!QueueNext
  <2> QED
    BY <2>2, <2>3, <2>4
<1> QED
  BY <1>3, <1>4

\* Whatever fails, a worker only ever gets a job whose Push was begun, one
\* copy goes to one worker, and a worker has one job at a time.
THEOREM AtLeastOnceImplemented == Spec => ImplementsAtLeastOnce
<1>1. Init => Promise!QueueInit /\ Known
  <2> SUFFICES ASSUME Init PROVE Promise!QueueInit /\ Known
    OBVIOUS
  <2>1. Begun = {} /\ queue = <<>>
    BY DEF Init, Begun
  <2>2. \A j \in Jobs : Positions(queue, j) = {}
    BY <2>1 DEF Positions
  <2>3. Queued = [j \in Jobs |-> 0]
    BY <2>2, FS_EmptySet DEF Queued
  <2>4. Held = [w \in Workers |-> NoLease]
    BY DEF Init, Held, Holding
  <2>5. Promise!QueueInit
    BY <2>1, <2>3, <2>4
       DEF Promise!QueueInit, Begun, Queued, Positions, Held, Holding
  <2>6. Known
    BY DEF Init, Known, Carrying
  <2> QED
    BY <2>5, <2>6
<1>2. ASSUME Inv, Known, [Next]_vars
      PROVE  [Promise!QueueNext]_(Promise!queueVars)
  <2>1. CASE UNCHANGED vars
    BY <2>1 DEF vars, Promise!queueVars
  <2>2. ASSUME NEW lease, LeaseExpires(lease) PROVE UNCHANGED Promise!queueVars
    BY <2>2 DEF LeaseExpires, Promise!queueVars
  <2> QED
    BY <1>2, <2>1, <2>2, WorkerRefines, PushRefines DEF Next, Expiry
<1>3. Inv /\ Known /\ [Next]_vars => Known'
  BY NextKnown
<1> QED
  BY <1>1, <1>2, <1>3, InvAlways, PTL
     DEF Spec, ImplementsAtLeastOnce, Promise!QueueSpec
=============================================================================
