---------------------------- MODULE RedisStorage ----------------------------
(***************************************************************************)
(* The Redis metadata store (internal/storage/redis.go).  Its methods are  *)
(* sequences of Redis commands, each of which is atomic, may be refused    *)
(* (Redis never ran it) or unanswered (Redis ran it, the caller gets an    *)
(* error); most of those errors are ignored.                               *)
(*                                                                         *)
(* A goroutine inside a method is a record: the command it is at, the job, *)
(* and the JobResult it will write or, for Delete, the one it read.        *)
(***************************************************************************)
EXTENDS JobTypes

CONSTANTS
  Callers,     \* goroutines that use the store
  MaxFaults    \* bound on failed commands and crashes

ASSUME MaxFaultsAssumption == MaxFaults \in Nat

VARIABLES
  hash,     \* job -> its hash, NoResult when there is none
  order,    \* jobs in the order list, as a set: LREM removes every entry of a
            \* job, and List skips repeated ones and sorts by creation time
  idem,     \* idempotency key -> job identifier, NoJob when unset
  call,     \* goroutine -> the method it is in
  faults    \* faults so far

redisVars == <<hash, order, idem, call, faults>>

Commands == {"set.hgetall", "set.lpush", "set.hset", "delete.hgetall",
             "delete.del", "delete.lrem", "delete.key", "cancel.hgetall"}

NoCall == [at |-> "returned", job |-> NoJob, arg |-> NoResult, err |-> FALSE]

StoreTypeOK ==
  /\ hash \in [Jobs -> JobResult]
  /\ order \subseteq Jobs
  /\ idem \in [Keys -> Jobs \cup {NoJob}]
  /\ call \in [Callers -> [at : Commands \cup {"returned"},
                           job : Jobs \cup {NoJob}, arg : JobResult,
                           err : BOOLEAN]]
  /\ faults \in 0..MaxFaults

StoreInit ==
  /\ hash = [j \in Jobs |-> NoResult] /\ order = {}
  /\ idem = [k \in Keys |-> NoJob]
  /\ call = [p \in Callers |-> NoCall] /\ faults = 0

-----------------------------------------------------------------------------
(* Client.Do as the store sees it.                                         *)

Outcomes == {"ok"} \cup
  (IF faults < MaxFaults THEN {"refused", "unanswered"} ELSE {})

Count(o) == faults' = IF o = "ok" THEN faults ELSE faults + 1

\* Get: an error and a job that does not exist are the same to most callers.
Get(j, o) == IF o = "ok" THEN hash[j] ELSE NoResult

-----------------------------------------------------------------------------
(* Calling, and the commands of Set, Delete and Cancel.                    *)

Returned(p) == call[p].at = "returned"

Call(p, at, j, arg) ==
  call' = [call EXCEPT ![p] = [NoCall EXCEPT !.at = at, !.job = j, !.arg = arg]]

Set(p, j, result) == Call(p, "set.hgetall", j, result)
Delete(p, j) == Call(p, "delete.hgetall", j, NoResult)
Cancel(p, j) == Call(p, "cancel.hgetall", j, NoResult)

Return(p, err) == call' = [call EXCEPT ![p] = [NoCall EXCEPT !.err = err]]

Goto(p, at) == call' = [call EXCEPT ![p].at = at]

\* The fields the caller left empty are taken from the hash.
Merge(result, existing) ==
  [result EXCEPT
     !.key = IF @ = NoKey THEN existing.key ELSE @,
     !.callback = @ \/ existing.callback]

SetHgetall(p) ==
  /\ call[p].at = "set.hgetall"
  /\ \E o \in Outcomes : LET existing == Get(call[p].job, o) IN
       /\ call' = [call EXCEPT
            ![p].at = IF existing = NoResult THEN "set.lpush" ELSE "set.hset",
            ![p].arg = Merge(@, existing)]
       /\ Count(o)
  /\ UNCHANGED <<hash, order, idem>>

\* LPUSH to the order list; its error is ignored.
SetLpush(p) ==
  /\ call[p].at = "set.lpush"
  /\ Goto(p, "set.hset")
  /\ \E o \in Outcomes :
       /\ order' = IF o = "refused" THEN order ELSE order \cup {call[p].job}
       /\ Count(o)
  /\ UNCHANGED <<hash, idem>>

SetHset(p) ==
  /\ call[p].at = "set.hset"
  /\ \E o \in Outcomes :
       /\ hash' = IF o = "refused" THEN hash
                  ELSE [hash EXCEPT ![call[p].job] = call[p].arg]
       /\ Return(p, o # "ok")
       /\ Count(o)
  /\ UNCHANGED <<order, idem>>

DeleteHgetall(p) ==
  /\ call[p].at = "delete.hgetall"
  /\ \E o \in Outcomes :
       /\ call' = [call EXCEPT ![p].at = "delete.del",
                               ![p].arg = Get(call[p].job, o)]
       /\ Count(o)
  /\ UNCHANGED <<hash, order, idem>>

\* Its error is what Delete returns, in the end, to a caller that ignores it.
DeleteDel(p) ==
  /\ call[p].at = "delete.del"
  /\ Goto(p, "delete.lrem")
  /\ \E o \in Outcomes :
       /\ hash' = IF o = "refused" THEN hash
                  ELSE [hash EXCEPT ![call[p].job] = NoResult]
       /\ Count(o)
  /\ UNCHANGED <<order, idem>>

\* Mutant of DeleteLrem: the idempotency key is left alone.
DeleteLremLast(p) ==
  /\ call[p].at = "delete.lrem"
  /\ order' = order \ {call[p].job}
  /\ Return(p, FALSE)
  /\ UNCHANGED <<hash, idem, faults>>

DeleteLrem(p) ==
  /\ call[p].at = "delete.lrem"
  /\ \E o \in Outcomes :
       /\ order' = IF o = "refused" THEN order
                   ELSE order \ {call[p].job}
       /\ Count(o)
  /\ IF call[p].arg.key = NoKey THEN Return(p, FALSE) ELSE Goto(p, "delete.key")
  /\ UNCHANGED <<hash, idem>>

DeleteKey(p) ==
  /\ call[p].at = "delete.key"
  /\ \E o \in Outcomes :
       /\ idem' = IF o = "refused" THEN idem
                  ELSE [idem EXCEPT ![call[p].arg.key] = NoJob]
       /\ Count(o)
  /\ Return(p, FALSE)
  /\ UNCHANGED <<hash, order>>

\* Mutant of CancelHgetall: a status no reader knows.
CancelMisspelled(p) ==
  /\ call[p].at = "cancel.hgetall"
  /\ Set(p, call[p].job, [hash[call[p].job] EXCEPT !.status = "cancelled"])
  /\ UNCHANGED <<hash, order, idem, faults>>

\* Mutant of CancelHgetall: a job that has ended is canceled as well.
CancelUnchecked(p) ==
  /\ call[p].at = "cancel.hgetall"
  /\ IF hash[call[p].job] = NoResult
       THEN Return(p, TRUE)
       ELSE Set(p, call[p].job, [hash[call[p].job] EXCEPT !.status = "canceled",
                                                         !.error = "job canceled"])
  /\ UNCHANGED <<hash, order, idem, faults>>

\* A terminal job is left alone, any other is written back with Set.
CancelHgetall(p) ==
  /\ call[p].at = "cancel.hgetall"
  /\ \E o \in Outcomes : LET result == Get(call[p].job, o) IN
       /\ IF result.status \in Terminal \cup {"none"}
            THEN Return(p, result = NoResult)
            ELSE Set(p, call[p].job, [result EXCEPT !.status = "canceled",
                                                    !.error = "job canceled"])
       /\ Count(o)
  /\ UNCHANGED <<hash, order, idem>>

StoreStep(p) ==
  \/ SetHgetall(p) \/ SetLpush(p) \/ SetHset(p) \/ CancelHgetall(p)
  \/ DeleteHgetall(p) \/ DeleteDel(p) \/ DeleteLrem(p) \/ DeleteKey(p)

-----------------------------------------------------------------------------
(* ReserveIdempotencyKey: SET NX and, when the key was there, GET.         *)

SetNX(k, j, o) ==
  idem' = IF o = "refused" \/ idem[k] # NoJob THEN idem
          ELSE [idem EXCEPT ![k] = j]

\* Mutant of Reserved: any answer of SET NX is taken for OK.
ReservedAlways(k, o) == o = "ok"

Reserved(k, o) == o = "ok" /\ idem[k] = NoJob
=============================================================================
