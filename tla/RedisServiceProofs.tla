------------------------- MODULE RedisServiceProofs -------------------------
(***************************************************************************)
(* The job service on Redis for any number of jobs, keys, workers and      *)
(* cancellers, any number of failed commands and crashes, and any number   *)
(* of repeated deliveries.                                                 *)
(***************************************************************************)
EXTENDS RedisService, TLAPS

-----------------------------------------------------------------------------
(* The inductive invariant.                                                *)

Setting == {"set.hgetall", "set.lpush", "set.hset"}
Deleting == {"delete.hgetall", "delete.del", "delete.lrem", "delete.key"}

InSet(p) == call[p].at \in Setting

\* The handlers and workers are in a method of the store only where they
\* called it, and for their own job.
SubmitCalls ==
  \A j \in Jobs :
    /\ spc[j] \in {"idle", "getkey", "done"} => Returned(j)
    /\ spc[j] = "init" => Returned(j) \/ InSet(j)
    /\ spc[j] = "rollback" => Returned(j) \/ call[j].at \in Deleting
    /\ ~Returned(j) => call[j].job = j

CancelCalls ==
  \A c \in Cancellers :
    /\ cpc[c] # "cancel" => Returned(c)
    /\ cpc[c] = "cancel" => cjob[c] \in Jobs
    /\ Returned(c) \/ InSet(c) \/ call[c].at = "cancel.hgetall"
    /\ ~Returned(c) => call[c].job = cjob[c]
    /\ InSet(c) => call[c].arg.status = "canceled"

WorkCalls ==
  \A w \in Workers :
    /\ wpc[w] \notin {"mark", "write"} => call[w] = NoCall
    /\ Returned(w) \/ InSet(w)
    /\ ~Returned(w) => call[w].job = held[w]
    /\ InSet(w) /\ wpc[w] = "write" => call[w].arg.status \in Terminal
    /\ wpc[w] = "pop" <=> held[w] = NoJob

OtherCalls ==
  \A p \in Callers \ (Jobs \cup Cancellers \cup Workers) : Returned(p)

\* A record, and what a caller is about to write, has a status and the key of
\* the job's request; a rollback knows no other key.
Recorded ==
  /\ \A j \in Jobs : /\ hash[j] = NoResult \/ hash[j].key = key[j]
                     /\ hash[j].status = "none" => hash[j] = NoResult
                     /\ spc[j] # "idle" => key[j] \in Keys
  /\ \A p \in Callers : InSet(p) =>
       call[p].arg.status # "none" /\ call[p].arg.key = key[call[p].job]
  /\ \A j \in Jobs : call[j].at \in Deleting => call[j].arg.key \in {NoKey, key[j]}

\* The submission of j has not written its record yet: nobody else has
\* either, or is about to.
Fresh(j) == spc[j] \in {"idle", "getkey"} \/ (spc[j] = "init" /\ ~Returned(j))

Unwritten ==
  \A j \in Jobs : Fresh(j) =>
    /\ hash[j] = NoResult
    /\ \A p \in Callers : InSet(p) /\ call[p].job = j => p = j

\* What has not been pushed is nowhere.
Unqueued ==
  \A j \in Jobs : spc[j] \in {"idle", "getkey", "init"} =>
    /\ copies[j] = 0 /\ j \notin orphans /\ taken[j] = 0
    /\ \A w \in Workers : held[w] # j

\* The record of a submission that went well, until it is rolled back.
HasRecord(j) ==
  \/ spc[j] = "init" /\ Returned(j) /\ ~call[j].err
  \/ spc[j] = "rollback" /\ call[j].at = "delete.hgetall"
  \/ Accepted(j)

OnRecord ==
  \A j \in Jobs :
    /\ HasRecord(j) => hash[j] # NoResult /\ (j \in order \/ faults > 0)
    /\ spc[j] = "init" /\ call[j].at = "set.hset" => j \in order \/ faults > 0
    /\ spc[j] = "init" /\ Returned(j) /\ call[j].err => faults > 0

\* Who has reserved its key and not given it back.
Owner(j) ==
  \/ spc[j] = "init" \/ (spc[j] = "rollback" /\ ~Returned(j)) \/ Accepted(j)

KeysOwned ==
  /\ \A j \in Jobs : Owner(j) => idem[key[j]] = j
  /\ \A k \in Keys, j \in Jobs : idem[k] = j => spc[j] # "idle" /\ key[j] = k

\* How far the answers are.
Replied ==
  \A j \in Jobs :
    /\ spc[j] \in {"idle", "getkey", "init"} => reply[j].code = "none"
    /\ spc[j] = "rollback" => reply[j].code \in {"queue_full", "enqueue_error"}

\* A rollback will give the key back, unless a command has failed.
Free(j) == faults > 0 \/ \A k \in Keys : idem[k] # j

RolledBack ==
  \A j \in Jobs :
    /\ call[j].at \in {"delete.del", "delete.lrem", "delete.key"} =>
         faults > 0 \/ call[j].arg.key = key[j]
    /\ call[j].at = "delete.key" => call[j].arg.key = key[j]
    /\ spc[j] = "rollback" /\ Returned(j) => Free(j)
    /\ spc[j] = "getkey" =>
         \/ idem[key[j]] # NoJob
         \/ \E i \in Jobs : key[i] = key[j] /\ reply[i].code \in Rejections

\* A job that is not delivered early is in one place only.
Exclusive ==
  \A j \in Jobs \ early :
    /\ copies[j] <= 1
    /\ copies[j] > 0 => j \notin orphans /\ \A w \in Workers : held[w] # j
    /\ j \in orphans => \A w \in Workers : held[w] # j
    /\ \A v, w \in Workers : held[v] = j /\ held[w] = j => v = w

\* A worker that will still write the record of j, or notice that it could not.
Active(w, j) ==
  /\ held[w] = j /\ wpc[w] # "ack"
  /\ ~(wpc[w] = "write" /\ Returned(w) /\ ~call[w].err)

Moving ==
  \A j \in Jobs : Accepted(j) =>
    \/ hash[j].status \in Terminal
    \/ copies[j] > 0 \/ j \in orphans \/ j \in lost \/ j \in dropped
    \/ \E w \in Workers : Active(w, j)

Inv ==
  /\ TypeOK /\ SubmitCalls /\ CancelCalls /\ WorkCalls /\ OtherCalls
  /\ Recorded /\ Unwritten /\ Unqueued /\ OnRecord /\ KeysOwned /\ Replied
  /\ RolledBack /\ KeysFollowJobs /\ Exclusive /\ RegistryServesRender /\ Moving

CallType == [at : Commands \cup {"returned"}, job : Jobs \cup {NoJob},
             arg : JobResult, err : BOOLEAN]

-----------------------------------------------------------------------------
(* What the operators of the store do to the goroutine that uses them.     *)

\* A command that fails is counted, and a fault is never forgotten.
LEMMA CountUp ==
  ASSUME StoreTypeOK, NEW o \in Outcomes, Count(o)
  PROVE  /\ faults' \in 0..MaxFaults
         /\ o # "ok" => faults' > 0 /\ faults' # faults
         /\ o = "ok" => faults' = faults
         /\ faults > 0 => faults' > 0
BY MaxFaultsAssumption DEF StoreTypeOK, Outcomes, Count

\* The empty record and the call of nobody have their types.
LEMMA NoneTypes ==
  /\ NoResult \in JobResult /\ NoResult.status = "none" /\ NoResult.key = NoKey
  /\ NoCall \in CallType /\ NoCall.at = "returned" /\ ~NoCall.err
<1>1. NoResult \in JobResult /\ NoResult.status = "none" /\ NoResult.key = NoKey
  BY DEF NoResult, JobResult, Status, Errors
<1> QED
  BY <1>1 DEF NoCall, CallType

\* Calling a method puts its first command, job and argument into call.
LEMMA Calling ==
  ASSUME StoreTypeOK, NEW p \in Callers, NEW at \in Commands, NEW j \in Jobs,
         NEW arg \in JobResult, Call(p, at, j, arg)
  PROVE  /\ call' \in [Callers -> CallType]
         /\ call'[p].at = at /\ call'[p].job = j /\ call'[p].arg = arg
         /\ ~call'[p].err
         /\ \A q \in Callers \ {p} : call'[q] = call[q]
<1> DEFINE r == [NoCall EXCEPT !.at = at, !.job = j, !.arg = arg]
<1>1. /\ r \in CallType /\ r.at = at /\ r.job = j /\ r.arg = arg /\ ~r.err
  BY DEF CallType, NoCall
<1>2. call \in [Callers -> CallType] /\ call' = [call EXCEPT ![p] = r]
  BY DEF StoreTypeOK, CallType, Call
<1> HIDE DEF r
<1> QED
  BY <1>1, <1>2

\* Returning leaves nothing but the error.
LEMMA Returning ==
  ASSUME StoreTypeOK, NEW p \in Callers, NEW err \in BOOLEAN, Return(p, err)
  PROVE  /\ call' \in [Callers -> CallType]
         /\ call'[p].at = "returned" /\ call'[p].err = err
         /\ \A q \in Callers \ {p} : call'[q] = call[q]
<1> DEFINE r == [NoCall EXCEPT !.err = err]
<1>1. r \in CallType /\ r.at = "returned" /\ r.err = err
  BY NoneTypes DEF CallType, NoCall
<1>2. call \in [Callers -> CallType] /\ call' = [call EXCEPT ![p] = r]
  BY DEF StoreTypeOK, CallType, Return
<1> HIDE DEF r
<1> QED
  BY <1>1, <1>2

\* Going on with the next command changes nothing else.
LEMMA GoingOn ==
  ASSUME StoreTypeOK, NEW p \in Callers, NEW at \in Commands, Goto(p, at)
  PROVE  /\ call' \in [Callers -> CallType]
         /\ call'[p].at = at /\ call'[p].job = call[p].job
         /\ call'[p].arg = call[p].arg /\ call'[p].err = call[p].err
         /\ \A q \in Callers \ {p} : call'[q] = call[q]
<1> DEFINE r == [call[p] EXCEPT !.at = at]
<1>1. call \in [Callers -> CallType] /\ call' = [call EXCEPT ![p] = r]
  BY DEF StoreTypeOK, CallType, Goto
<1>2. /\ r \in CallType /\ r.at = at /\ r.job = call[p].job
      /\ r.arg = call[p].arg /\ r.err = call[p].err
  BY <1>1 DEF CallType
<1> HIDE DEF r
<1> QED
  BY <1>1, <1>2

\* A record is written as its caller made it, but for a callback.
LEMMA Merging ==
  ASSUME NEW r \in JobResult, NEW e \in JobResult, r.key # NoKey
  PROVE  /\ Merge(r, e) \in JobResult
         /\ Merge(r, e).key = r.key /\ Merge(r, e).status = r.status
         /\ Merge(r, e).pdfKey = r.pdfKey
BY DEF JobResult, Merge

\* What Get returns is a record.
LEMMA Getting ==
  ASSUME StoreTypeOK, NEW j \in Jobs, NEW o
  PROVE  Get(j, o) \in JobResult
BY NoneTypes DEF StoreTypeOK, Get

-----------------------------------------------------------------------------
(* The commands of the store.                                              *)

\* What a command leaves to the handlers, the workers and the queue.
frameVars == <<registryVars, submitVars, cancelVars, workVars, queueVars>>

\* The parts of the invariant that no command can disturb.
LEMMA CommandFrame ==
  ASSUME Inv, UNCHANGED frameVars
  PROVE  Unqueued' /\ Replied' /\ Exclusive' /\ RegistryServesRender'
BY DEF Inv, frameVars, registryVars, submitVars, cancelVars, workVars, leaseVars, queueVars,
       Unqueued, Replied, Exclusive, RegistryServesRender, InRender

\* A goroutine in a method of the store has one of three roles, and a job;
\* whoever is in Set writes for a request whose key is known.
LEMMA WhoCalls ==
  ASSUME Inv, NEW p \in Callers, ~Returned(p)
  PROVE  /\ p \in Jobs \cup Cancellers \cup Workers
         /\ call[p].job \in Jobs
         /\ p \in Jobs => /\ p \notin Cancellers /\ p \notin Workers /\ call[p].job = p
                          /\ spc[p] \in {"init", "rollback"}
                          /\ spc[p] = "init" <=> InSet(p)
                          /\ spc[p] = "rollback" <=> call[p].at \in Deleting
         /\ p \in Cancellers => p \notin Workers /\ p \notin Jobs /\ cpc[p] = "cancel"
         /\ p \in Workers => /\ p \notin Jobs /\ p \notin Cancellers /\ InSet(p)
                             /\ wpc[p] \in {"mark", "write"} /\ call[p].job = held[p]
         /\ InSet(p) => key[call[p].job] \in Keys /\ call[p].arg.key # NoKey
<1>1. p \in Jobs \cup Cancellers \cup Workers
  BY DEF Inv, OtherCalls
<1>2. p \in Jobs => /\ p \notin Cancellers /\ p \notin Workers /\ call[p].job = p
                    /\ spc[p] \in {"init", "rollback"}
                    /\ spc[p] = "init" <=> InSet(p)
                    /\ spc[p] = "rollback" <=> call[p].at \in Deleting
  BY RolesAssumption
     DEF Inv, TypeOK, SubmitCalls, InSet, Setting, Deleting, Returned
<1>3. p \in Cancellers => p \notin Workers /\ p \notin Jobs /\ cpc[p] = "cancel"
                          /\ call[p].job \in Jobs
  BY RolesAssumption DEF Inv, CancelCalls
<1>4. p \in Workers => /\ p \notin Jobs /\ p \notin Cancellers /\ InSet(p)
                       /\ wpc[p] \in {"mark", "write"} /\ call[p].job = held[p]
                       /\ held[p] \in Jobs
  <2> SUFFICES ASSUME p \in Workers
               PROVE  /\ p \notin Jobs /\ p \notin Cancellers /\ InSet(p)
                      /\ wpc[p] \in {"mark", "write"} /\ call[p].job = held[p]
                      /\ held[p] \in Jobs
    OBVIOUS
  <2>1. wpc[p] \in {"mark", "write"}
    BY DEF Inv, WorkCalls, Returned, NoCall
  <2> QED
    BY <2>1, RolesAssumption DEF Inv, WorkCalls, TypeOK
<1>5. call[p].job \in Jobs
  BY <1>1, <1>2, <1>3, <1>4
<1>6. InSet(p) => key[call[p].job] \in Keys /\ call[p].arg.key # NoKey
  <2> SUFFICES ASSUME InSet(p)
               PROVE  key[call[p].job] \in Keys /\ call[p].arg.key # NoKey
    OBVIOUS
  <2>1. spc[call[p].job] # "idle"
    BY <1>2, <1>5 DEF Inv, Unwritten, Fresh
  <2>2. key[call[p].job] \in Keys
    BY <1>5, <2>1 DEF Inv, Recorded
  <2> QED
    BY <2>2, NoKeyAssumption DEF Inv, Recorded
<1> QED
  BY <1>1, <1>2, <1>3, <1>4, <1>5, <1>6

\* The first commands of Set prepare the write, and only put the job into the
\* order list.
LEMMA SetAdvances ==
  ASSUME Inv, NEW p \in Callers, SetHgetall(p) \/ SetLpush(p), UNCHANGED frameVars
  PROVE  Inv'
<1> USE DEF Inv
<1>1. StoreTypeOK /\ call \in [Callers -> CallType]
  BY DEF TypeOK, StoreTypeOK, CallType
<1>2. InSet(p) /\ ~Returned(p)
  BY DEF SetHgetall, SetLpush, InSet, Setting, Returned
<1>3. /\ call[p].job \in Jobs /\ call[p].arg \in JobResult /\ call[p].arg.key # NoKey
      /\ p \in Jobs => call[p].job = p /\ spc[p] = "init"
  BY <1>1, <1>2, WhoCalls DEF CallType
<1>4. /\ call' \in [Callers -> CallType]
      /\ call'[p].at \in {"set.lpush", "set.hset"}
      /\ call'[p].job = call[p].job /\ call'[p].err = call[p].err
      /\ call'[p].arg.key = call[p].arg.key
      /\ call'[p].arg.status = call[p].arg.status
      /\ \A q \in Callers \ {p} : call'[q] = call[q]
      /\ hash' = hash /\ idem' = idem /\ order \subseteq order' /\ order' \subseteq Jobs
      /\ faults' \in 0..MaxFaults /\ (faults > 0 => faults' > 0)
      /\ p \in Jobs /\ call'[p].at = "set.hset" => p \in order' \/ faults' > 0
  <2>1. CASE SetHgetall(p)
    <3>1. PICK o \in Outcomes :
            /\ call' = [call EXCEPT
                 ![p].at = IF Get(call[p].job, o) = NoResult THEN "set.lpush" ELSE "set.hset",
                 ![p].arg = Merge(@, Get(call[p].job, o))]
            /\ Count(o)
      BY <2>1 DEF SetHgetall
    <3> DEFINE m == Merge(call[p].arg, Get(call[p].job, o))
               at == IF Get(call[p].job, o) = NoResult THEN "set.lpush" ELSE "set.hset"
    <3>2. m \in JobResult /\ m.key = call[p].arg.key /\ m.status = call[p].arg.status
      BY <1>1, <1>3, Merging, Getting
    <3>3. at \in {"set.lpush", "set.hset"} /\ (p \in Jobs => at = "set.lpush")
      BY <1>2, <1>3 DEF Unwritten, Fresh, Get
    <3>4. call' = [call EXCEPT ![p] = [call[p] EXCEPT !.at = at, !.arg = m]]
      BY <3>1
    <3> HIDE DEF m, at
    <3>5. /\ call' \in [Callers -> CallType]
          /\ call'[p].at = at /\ call'[p].arg = m
          /\ call'[p].job = call[p].job /\ call'[p].err = call[p].err
          /\ \A q \in Callers \ {p} : call'[q] = call[q]
      BY <1>1, <3>2, <3>3, <3>4 DEF CallType, Commands
    <3>6. faults' \in 0..MaxFaults /\ (faults > 0 => faults' > 0)
      BY <1>1, <3>1, CountUp
    <3>7. hash' = hash /\ idem' = idem /\ order' = order /\ order \subseteq Jobs
      BY <1>1, <2>1 DEF SetHgetall, StoreTypeOK
    <3> QED
      BY <3>2, <3>3, <3>5, <3>6, <3>7
  <2>2. CASE SetLpush(p)
    <3>1. PICK o \in Outcomes :
            /\ order' = IF o = "refused" THEN order ELSE order \cup {call[p].job}
            /\ Count(o)
      BY <2>2 DEF SetLpush
    <3>2. Goto(p, "set.hset") /\ hash' = hash /\ idem' = idem
      BY <2>2 DEF SetLpush
    <3>3. /\ call' \in [Callers -> CallType]
          /\ call'[p].at = "set.hset" /\ call'[p].job = call[p].job
          /\ call'[p].arg = call[p].arg /\ call'[p].err = call[p].err
          /\ \A q \in Callers \ {p} : call'[q] = call[q]
      BY <1>1, <3>2, GoingOn DEF Commands
    <3>4. /\ faults' \in 0..MaxFaults /\ (faults > 0 => faults' > 0)
          /\ o # "ok" => faults' > 0
      BY <1>1, <3>1, CountUp
    <3>5. order \subseteq order' /\ order' \subseteq Jobs
      BY <1>1, <1>3, <3>1 DEF StoreTypeOK
    <3> QED
      BY <1>3, <3>1, <3>2, <3>3, <3>4, <3>5
  <2> QED
    BY <2>1, <2>2
<1>5. /\ UNCHANGED <<registryVars, spc, key, reply, cpc, cjob, wpc, blobs, taken, early,
                     orphans, dropped, leased, lost, copies, held>>
  BY DEF frameVars, submitVars, cancelVars, workVars, leaseVars, queueVars
<1>6. ASSUME NEW q \in Callers
      PROVE  /\ Returned(q)' <=> Returned(q)
             /\ InSet(q)' <=> InSet(q)
             /\ call'[q].job = call[q].job /\ call'[q].err = call[q].err
             /\ call'[q].arg.key = call[q].arg.key
             /\ call'[q].arg.status = call[q].arg.status
             /\ call'[q] = call[q] \/ (q = p /\ call'[q].at \in Setting)
  BY <1>2, <1>4 DEF Returned, InSet, Setting
<1>7. TypeOK'
  BY <1>1, <1>4, <1>5 DEF TypeOK, StoreTypeOK, RegistryTypeOK, registryVars, CallType
<1>8. SubmitCalls'
  BY <1>3, <1>5, <1>6, CallersAssumption DEF SubmitCalls
<1>9. CancelCalls'
  BY <1>5, <1>6, CallersAssumption DEF CancelCalls, Setting, InSet
<1>10. WorkCalls'
  <2>1. p \in Workers => wpc[p] \in {"mark", "write"}
    BY <1>2, WhoCalls
  <2> QED
    BY <1>5, <1>6, <2>1, CallersAssumption DEF WorkCalls
<1>11. OtherCalls'
  BY <1>6 DEF OtherCalls
<1>12. Recorded'
  BY <1>4, <1>5, <1>6, CallersAssumption DEF Recorded, Deleting, Setting
<1>13. Unwritten'
  BY <1>4, <1>5, <1>6, CallersAssumption DEF Unwritten, Fresh
<1>14. OnRecord'
  <2>1. \A j \in Jobs : HasRecord(j)' => HasRecord(j)
    BY <1>5, <1>6, CallersAssumption DEF HasRecord, Accepted, Setting
  <2> QED
    BY <1>4, <1>5, <1>6, <2>1, CallersAssumption DEF OnRecord, Setting
<1>15. KeysOwned'
  BY <1>4, <1>5, <1>6, CallersAssumption DEF KeysOwned, Owner, Accepted
<1>16. RolledBack'
  BY <1>4, <1>5, <1>6, CallersAssumption DEF RolledBack, Free, Setting
<1>17. KeysFollowJobs'
  BY <1>4, <1>5 DEF KeysFollowJobs
<1>18. Moving'
  <2>1. \A w \in Workers, j \in Jobs : Active(w, j)' <=> Active(w, j)
    BY <1>5, <1>6, CallersAssumption DEF Active
  <2> QED
    BY <1>4, <1>5, <2>1 DEF Moving, Accepted
<1> QED
  BY <1>7, <1>8, <1>9, <1>10, <1>11, <1>12, <1>13, <1>14, <1>15, <1>16, <1>17, <1>18,
     CommandFrame

\* HSET writes the record of the job, with its status and key, and Set is over.
LEMMA SetWrites ==
  ASSUME Inv, NEW p \in Callers, SetHset(p), UNCHANGED frameVars
  PROVE  Inv'
<1> USE DEF Inv
<1>1. StoreTypeOK /\ call \in [Callers -> CallType]
  BY DEF TypeOK, StoreTypeOK, CallType
<1>2. InSet(p) /\ ~Returned(p)
  BY DEF SetHset, InSet, Setting, Returned
<1>job. PICK job \in Jobs : job = call[p].job
  BY <1>2, WhoCalls
<1>arg. PICK arg \in JobResult : arg = call[p].arg
  BY <1>1 DEF CallType
<1>3. /\ job \in Jobs /\ arg \in JobResult /\ arg.key = key[job] /\ arg.key # NoKey
      /\ arg.status # "none" /\ key[job] \in Keys
      /\ p \in Jobs => job = p /\ spc[p] = "init" /\ p \notin Cancellers /\ p \notin Workers
      /\ p \in Cancellers => p \notin Jobs /\ p \notin Workers
      /\ p \in Workers => /\ p \notin Jobs /\ p \notin Cancellers /\ job = held[p]
                          /\ wpc[p] \in {"mark", "write"}
      /\ p \in Jobs \cup Cancellers \cup Workers
  BY <1>2, <1>job, <1>arg, WhoCalls DEF Recorded
<1>4. PICK o \in Outcomes :
        /\ hash' = IF o = "refused" THEN hash ELSE [hash EXCEPT ![job] = arg]
        /\ Return(p, o # "ok") /\ Count(o)
  BY <1>job, <1>arg DEF SetHset
<1>5. /\ call' \in [Callers -> CallType]
      /\ call'[p].at = "returned" /\ call'[p].err = (o # "ok")
      /\ \A q \in Callers \ {p} : call'[q] = call[q]
  BY <1>1, <1>4, Returning
<1>6. /\ faults' \in 0..MaxFaults /\ (faults > 0 => faults' > 0)
      /\ o # "ok" => faults' > 0
  BY <1>1, <1>4, CountUp
<1>7. /\ hash' \in [Jobs -> JobResult] /\ order' = order /\ idem' = idem
      /\ \A j \in Jobs \ {job} : hash'[j] = hash[j]
      /\ hash'[job] = arg \/ (o # "ok" /\ hash'[job] = hash[job])
  BY <1>1, <1>3, <1>4 DEF StoreTypeOK, SetHset
<1>8. /\ UNCHANGED <<registryVars, spc, key, reply, cpc, cjob, wpc, blobs, taken, early,
                     orphans, dropped, leased, lost, copies, held>>
  BY DEF frameVars, submitVars, cancelVars, workVars, leaseVars, queueVars
<1>9. /\ Returned(p)' /\ ~InSet(p)'
      /\ \A q \in Callers \ {p} : /\ Returned(q)' <=> Returned(q)
                                  /\ InSet(q)' <=> InSet(q)
  BY <1>5 DEF Returned, InSet, Setting
<1>10. ~Fresh(job)'
  <2>1. CASE p \in Jobs
    BY <1>3, <1>8, <1>9, <2>1 DEF Fresh
  <2>2. CASE p \notin Jobs
    <3>1. ~Fresh(job)
      BY <1>2, <1>3, <1>job, <2>2 DEF Unwritten
    <3> QED
      BY <1>3, <1>8, <1>9, <2>2, <3>1, CallersAssumption DEF Fresh
  <2> QED
    BY <2>1, <2>2
<1>11. TypeOK'
  BY <1>1, <1>5, <1>6, <1>7, <1>8
     DEF TypeOK, StoreTypeOK, RegistryTypeOK, registryVars, CallType
<1>12. SubmitCalls'
  BY <1>5, <1>8, <1>9, CallersAssumption DEF SubmitCalls
<1>13. CancelCalls'
  BY <1>5, <1>8, <1>9, CallersAssumption DEF CancelCalls
<1>14. WorkCalls'
  BY <1>3, <1>5, <1>8, <1>9, CallersAssumption DEF WorkCalls
<1>15. OtherCalls'
  BY <1>9 DEF OtherCalls
<1>16. Recorded'
  <2>1. \A j \in Jobs : /\ hash'[j] = NoResult \/ hash'[j].key = key[j]
                        /\ hash'[j].status = "none" => hash'[j] = NoResult
    BY <1>3, <1>7 DEF Recorded
  <2>2. \A j \in Jobs : call'[j].at \in Deleting => call'[j] = call[j]
    BY <1>5, CallersAssumption DEF Deleting
  <2> QED
    BY <1>5, <1>8, <1>9, <2>1, <2>2 DEF Recorded
<1>17. Unwritten'
  <2>1. \A j \in Jobs : Fresh(j)' => Fresh(j) /\ j # job
    BY <1>5, <1>8, <1>9, <1>10, CallersAssumption DEF Fresh
  <2> QED
    BY <1>5, <1>7, <1>9, <2>1 DEF Unwritten
<1>18. OnRecord'
  <2>1. \A j \in Jobs : hash[j] # NoResult => hash'[j] # NoResult
    BY <1>3, <1>7, NoneTypes
  <2>2. ASSUME NEW j \in Jobs, j # p
        PROVE  /\ HasRecord(j)' => HasRecord(j)
               /\ call'[j] = call[j] /\ (Returned(j)' <=> Returned(j))
    BY <1>5, <1>8, <1>9, <2>2, CallersAssumption DEF HasRecord, Accepted
  <2>3. ASSUME NEW j \in Jobs, j # p
        PROVE  /\ HasRecord(j)' => hash'[j] # NoResult /\ (j \in order \/ faults' > 0)
               /\ spc[j] = "init" /\ call'[j].at = "set.hset" => j \in order \/ faults' > 0
               /\ spc[j] = "init" /\ Returned(j)' /\ call'[j].err => faults' > 0
    BY <1>6, <2>1, <2>2, <2>3 DEF OnRecord
  <2>4. ASSUME p \in Jobs
        PROVE  /\ HasRecord(p)' => hash'[p] # NoResult /\ (p \in order \/ faults' > 0)
               /\ call'[p].err => faults' > 0
    <3>1. p = job /\ spc[p] = "init" /\ ~Accepted(p)
      BY <1>3, <2>4 DEF Replied, Accepted
    <3>2. p \in order \/ faults > 0
      BY <2>4, <3>1 DEF OnRecord, SetHset
    <3>3. HasRecord(p)' => ~call'[p].err
      BY <1>8, <3>1 DEF HasRecord, Accepted
    <3>4. ~call'[p].err => hash'[p] = arg
      BY <1>5, <1>7, <3>1
    <3>5. arg # NoResult
      BY <1>3, NoneTypes
    <3> QED
      BY <1>5, <1>6, <3>2, <3>3, <3>4, <3>5
  <2> QED
    BY <1>5, <1>7, <1>8, <2>3, <2>4 DEF OnRecord
<1>19. KeysOwned'
  <2>1. \A j \in Jobs : Owner(j)' => Owner(j)
    BY <1>5, <1>8, <1>9, CallersAssumption DEF Owner, Accepted
  <2> QED
    BY <1>7, <1>8, <2>1 DEF KeysOwned
<1>20. RolledBack'
  BY <1>3, <1>5, <1>6, <1>7, <1>8, <1>9, CallersAssumption DEF RolledBack, Free
<1>21. KeysFollowJobs'
  BY <1>6, <1>7, <1>8 DEF KeysFollowJobs
<1>22. Moving'
  <2> SUFFICES ASSUME NEW j \in Jobs, Accepted(j)
               PROVE  \/ hash'[j].status \in Terminal
                      \/ copies[j] > 0 \/ j \in orphans \/ j \in lost \/ j \in dropped
                      \/ \E w \in Workers : Active(w, j)'
    BY <1>8 DEF Moving, Accepted
  <2>1. \A w \in Workers \ {p} : Active(w, j)' <=> Active(w, j)
    BY <1>5, <1>8, <1>9, CallersAssumption DEF Active
  <2>2. CASE p \in Workers
    <3>1. CASE j = job
      <4>1. CASE wpc[p] = "mark" \/ o # "ok"
        <5>1. Active(p, j)'
          BY <1>3, <1>5, <1>8, <2>2, <3>1, <4>1 DEF Active
        <5> QED
          BY <2>2, <5>1
      <4>2. CASE wpc[p] = "write" /\ o = "ok"
        BY <1>2, <1>7, <1>arg, <2>2, <3>1, <4>2 DEF WorkCalls
      <4> QED
        BY <1>3, <2>2, <4>1, <4>2
    <3>2. CASE j # job
      <4>1. ~Active(p, j)
        BY <1>3, <2>2, <3>2 DEF Active
      <4> QED
        BY <1>7, <2>1, <3>2, <4>1 DEF Moving
    <3> QED
      BY <3>1, <3>2
  <2>3. CASE p \in Jobs
    <3>1. j # job
      BY <1>3, <2>3 DEF Replied, Accepted
    <3> QED
      BY <1>3, <1>7, <2>1, <2>3, <3>1 DEF Moving
  <2>4. CASE p \in Cancellers
    <3>1. arg.status = "canceled"
      BY <1>2, <1>arg, <2>4 DEF CancelCalls
    <3>2. hash'[j].status \in Terminal \/ hash'[j] = hash[j]
      BY <1>7, <3>1 DEF Terminal
    <3> QED
      BY <1>3, <2>1, <2>4, <3>2 DEF Moving
  <2> QED
    BY <1>3, <2>2, <2>3, <2>4
<1> QED
  BY <1>11, <1>12, <1>13, <1>14, <1>15, <1>16, <1>17, <1>18, <1>19, <1>20, <1>21, <1>22,
     CommandFrame

\* What a canceller does with its call alone concerns nobody else.
LEMMA CancellerKeeps ==
  ASSUME Inv, NEW c \in Cancellers, \A q \in Callers \ {c} : call'[q] = call[q],
         faults > 0 => faults' > 0,
         UNCHANGED <<hash, order, idem, spc, key, reply, wpc, taken, early, orphans,
                     dropped, leased, lost, copies, held, cancels>>
  PROVE  /\ SubmitCalls' /\ WorkCalls' /\ Unqueued' /\ OnRecord' /\ KeysOwned'
         /\ Replied' /\ RolledBack' /\ KeysFollowJobs' /\ Exclusive'
         /\ RegistryServesRender' /\ Moving'
<1> USE DEF Inv
<1>1. /\ \A j \in Jobs : call'[j] = call[j] /\ (Returned(j)' <=> Returned(j))
                         /\ (InSet(j)' <=> InSet(j))
      /\ \A w \in Workers : call'[w] = call[w] /\ (Returned(w)' <=> Returned(w))
                            /\ (InSet(w)' <=> InSet(w))
  BY RolesAssumption, CallersAssumption DEF Returned, InSet
<1>2. SubmitCalls'
  BY <1>1 DEF SubmitCalls
<1>3. WorkCalls'
  BY <1>1 DEF WorkCalls
<1>4. Unqueued' /\ Replied' /\ Exclusive' /\ RegistryServesRender'
  BY DEF Unqueued, Replied, Exclusive, RegistryServesRender, InRender
<1>5. OnRecord'
  BY <1>1 DEF OnRecord, HasRecord, Accepted
<1>6. KeysOwned'
  BY <1>1 DEF KeysOwned, Owner, Accepted
<1>7. RolledBack'
  BY <1>1 DEF RolledBack, Free
<1>8. KeysFollowJobs'
  BY DEF KeysFollowJobs
<1>9. Moving'
  BY <1>1 DEF Moving, Active, Accepted
<1> QED
  BY <1>2, <1>3, <1>4, <1>5, <1>6, <1>7, <1>8, <1>9

\* Cancel writes back what it read, canceled; it read it after the submission
\* had written it.
LEMMA CancelReads ==
  ASSUME Inv, NEW p \in Callers, CancelHgetall(p), UNCHANGED frameVars
  PROVE  Inv'
<1> USE DEF Inv
<1>1. StoreTypeOK /\ call \in [Callers -> CallType]
  BY DEF TypeOK, StoreTypeOK, CallType
<1>2. call[p].at = "cancel.hgetall" /\ ~Returned(p) /\ ~InSet(p)
  BY DEF CancelHgetall, Returned, InSet, Setting
<1>3. PICK job \in Jobs : job = call[p].job
  BY <1>2, WhoCalls
<1>4. /\ p \in Cancellers /\ p \notin Jobs /\ p \notin Workers /\ cpc[p] = "cancel"
      /\ cjob[p] = job
  <2>1. p \in Cancellers
    BY <1>2, WhoCalls DEF Deleting
  <2> QED
    BY <1>2, <1>3, <2>1, WhoCalls DEF CancelCalls
<1>5. PICK o \in Outcomes :
        /\ IF Get(job, o).status \in Terminal \cup {"none"}
             THEN Return(p, Get(job, o) = NoResult)
             ELSE Set(p, job, [Get(job, o) EXCEPT !.status = "canceled",
                                                  !.error = "job canceled"])
        /\ Count(o)
  BY <1>3 DEF CancelHgetall
<1>6. faults' \in 0..MaxFaults /\ (faults > 0 => faults' > 0)
  BY <1>1, <1>5, CountUp
<1>7. /\ call' \in [Callers -> CallType]
      /\ \A q \in Callers \ {p} : call'[q] = call[q]
      /\ \/ call'[p].at = "returned"
         \/ /\ hash[job] # NoResult
            /\ call'[p].at = "set.hgetall" /\ call'[p].job = job
            /\ call'[p].arg.status = "canceled" /\ call'[p].arg.key = key[job]
  <2>1. CASE Get(job, o).status \in Terminal \cup {"none"}
    BY <1>1, <1>5, <2>1, Returning
  <2>2. CASE Get(job, o).status \notin Terminal \cup {"none"}
    <3>1. Get(job, o) = hash[job] /\ hash[job] # NoResult /\ hash[job] \in JobResult
      BY <1>1, <2>2, NoneTypes DEF Get, StoreTypeOK
    <3>2. hash[job].key = key[job]
      BY <3>1 DEF Recorded
    <3>3. PICK r \in JobResult : r = [hash[job] EXCEPT !.status = "canceled",
                                                       !.error = "job canceled"]
      BY <3>1 DEF JobResult, Status, Terminal, Errors
    <3>4. r.status = "canceled" /\ r.key = key[job]
      BY <3>1, <3>2, <3>3 DEF JobResult
    <3>5. Call(p, "set.hgetall", job, r)
      BY <1>5, <2>2, <3>1, <3>3 DEF Set
    <3> QED
      BY <1>1, <3>1, <3>4, <3>5, Calling DEF Commands
  <2> QED
    BY <2>1, <2>2
<1>8. /\ UNCHANGED <<hash, order, idem>>
      /\ UNCHANGED <<registryVars, spc, key, reply, cpc, cjob, wpc, blobs, taken, early,
                     orphans, dropped, leased, lost, copies, held>>
  BY DEF CancelHgetall, frameVars, submitVars, cancelVars, workVars, leaseVars, queueVars
<1>9. /\ SubmitCalls' /\ WorkCalls' /\ Unqueued' /\ OnRecord' /\ KeysOwned'
      /\ Replied' /\ RolledBack' /\ KeysFollowJobs' /\ Exclusive'
      /\ RegistryServesRender' /\ Moving'
  BY <1>4, <1>6, <1>7, <1>8, CancellerKeeps DEF registryVars
<1>10. TypeOK'
  BY <1>1, <1>6, <1>7, <1>8
     DEF TypeOK, StoreTypeOK, RegistryTypeOK, registryVars, CallType
<1>11. \A q \in Callers \ {p} : /\ Returned(q)' <=> Returned(q)
                                /\ InSet(q)' <=> InSet(q)
  BY <1>7 DEF Returned, InSet
<1>12. CancelCalls'
  <2>1. /\ Returned(p)' \/ InSet(p)'
        /\ InSet(p)' => call'[p].job = job /\ call'[p].arg.status = "canceled"
    BY <1>7 DEF Returned, InSet, Setting
  <2> QED
    BY <1>4, <1>7, <1>8, <1>11, <2>1, CallersAssumption DEF CancelCalls, InSet, Setting,
       Returned
<1>13. OtherCalls'
  BY <1>4, <1>11 DEF OtherCalls
<1>14. Recorded'
  <2>1. InSet(p)' => /\ call'[p].arg.status # "none" /\ call'[p].job = job
                     /\ call'[p].arg.key = key[job]
    BY <1>7 DEF InSet, Setting
  <2>2. \A j \in Jobs : call'[j] = call[j]
    BY <1>4, <1>7, CallersAssumption
  <2> QED
    BY <1>7, <1>8, <1>11, <2>1, <2>2 DEF Recorded
<1>15. Unwritten'
  <2>1. InSet(p)' => call'[p].job = job /\ ~Fresh(job)
    BY <1>7 DEF InSet, Setting, Unwritten
  <2>2. \A j \in Jobs : Fresh(j)' <=> Fresh(j)
    BY <1>4, <1>8, <1>11, CallersAssumption DEF Fresh
  <2> QED
    BY <1>7, <1>8, <1>11, <2>1, <2>2 DEF Unwritten
<1> QED
  BY <1>9, <1>10, <1>12, <1>13, <1>14, <1>15

\* What a submission does with its call alone concerns no canceller or worker.
LEMMA SubmitterKeeps ==
  ASSUME Inv, NEW j \in Jobs, \A q \in Callers \ {j} : call'[q] = call[q],
         UNCHANGED <<cpc, cjob, wpc, held>>
  PROVE  CancelCalls' /\ WorkCalls' /\ OtherCalls'
<1> USE DEF Inv
<1>1. \A q \in Callers \ {j} : (Returned(q)' <=> Returned(q)) /\ (InSet(q)' <=> InSet(q))
  BY DEF Returned, InSet
<1>2. j \notin Cancellers /\ j \notin Workers
  BY RolesAssumption
<1>3. CancelCalls'
  BY <1>1, <1>2, CallersAssumption DEF CancelCalls
<1>4. WorkCalls'
  BY <1>1, <1>2, CallersAssumption DEF WorkCalls
<1> QED
  BY <1>1, <1>3, <1>4 DEF OtherCalls

\* A command of Delete takes away its own record, its own entries or its own
\* key, and knows which key that is unless a command failed.
DeleteStep(p) ==
  DeleteHgetall(p) \/ DeleteDel(p) \/ DeleteLrem(p) \/ DeleteKey(p)

LEMMA DeleteFacts ==
  ASSUME Inv, NEW j \in Jobs, DeleteStep(j)
  PROVE  /\ ~Returned(j) /\ spc[j] = "rollback"
         /\ call' \in [Callers -> CallType]
         /\ \A q \in Callers \ {j} : call'[q] = call[q]
         /\ \/ call'[j].at = "returned"
            \/ /\ call'[j].at \in {"delete.del", "delete.lrem", "delete.key"}
               /\ call'[j].job = j /\ idem' = idem
               /\ call'[j].arg.key \in {NoKey, key[j]}
               /\ faults' > 0 \/ call'[j].arg.key = key[j]
               /\ call'[j].at = "delete.key" => call'[j].arg.key = key[j]
         /\ hash' \in [Jobs -> JobResult] /\ order' \subseteq Jobs
         /\ hash'[j] \in {hash[j], NoResult}
         /\ \A i \in Jobs \ {j} : hash'[i] = hash[i] /\ (i \in order => i \in order')
         /\ idem' \in {idem, [idem EXCEPT ![key[j]] = NoJob]}
         /\ call'[j].at = "returned" =>
              faults' > 0 \/ idem' = [idem EXCEPT ![key[j]] = NoJob]
         /\ faults' \in 0..MaxFaults /\ (faults > 0 => faults' > 0)
<1> USE DEF Inv
<1>1. StoreTypeOK /\ call \in [Callers -> CallType] /\ j \in Callers
  BY CallersAssumption DEF TypeOK, StoreTypeOK, CallType
<1>2. call[j].at \in Deleting /\ ~Returned(j)
  BY DEF DeleteStep, DeleteHgetall, DeleteDel, DeleteLrem, DeleteKey, Deleting, Returned
<1>3. spc[j] = "rollback" /\ call[j].job = j /\ key[j] \in Keys
  BY <1>1, <1>2, WhoCalls DEF Recorded
<1>4. /\ hash \in [Jobs -> JobResult] /\ order \subseteq Jobs
      /\ call[j].arg.key \in {NoKey, key[j]} /\ NoKey # key[j]
  BY <1>1, <1>2, <1>3, NoKeyAssumption DEF StoreTypeOK, Recorded
<1>5. CASE DeleteHgetall(j)
  <2>1. PICK o \in Outcomes :
          /\ call' = [call EXCEPT ![j].at = "delete.del", ![j].arg = Get(j, o)]
          /\ Count(o)
    BY <1>3, <1>5 DEF DeleteHgetall
  <2>2. PICK r \in JobResult : r = Get(j, o)
    BY <1>1, Getting
  <2>3. call' = [call EXCEPT ![j] = [call[j] EXCEPT !.at = "delete.del", !.arg = r]]
    BY <2>1, <2>2
  <2>4. /\ call' \in [Callers -> CallType]
        /\ call'[j].at = "delete.del" /\ call'[j].arg = r /\ call'[j].job = call[j].job
        /\ \A q \in Callers \ {j} : call'[q] = call[q]
    BY <1>1, <2>3 DEF CallType, Commands
  <2>5. /\ faults' \in 0..MaxFaults /\ (faults > 0 => faults' > 0)
        /\ o # "ok" => faults' > 0
    BY <1>1, <2>1, CountUp
  <2>6. r.key \in {NoKey, key[j]} /\ (o = "ok" => r.key = key[j])
    <3>1. hash[j] # NoResult
      BY <1>3, <1>5 DEF DeleteHgetall, OnRecord, HasRecord
    <3> QED
      BY <2>2, <3>1, NoneTypes DEF Get, Recorded
  <2>7. UNCHANGED <<hash, order, idem>>
    BY <1>5 DEF DeleteHgetall
  <2> QED
    BY <1>2, <1>3, <1>4, <2>4, <2>5, <2>6, <2>7
<1>6. CASE DeleteDel(j)
  <2>1. PICK o \in Outcomes :
          /\ hash' = IF o = "refused" THEN hash ELSE [hash EXCEPT ![j] = NoResult]
          /\ Count(o)
    BY <1>3, <1>6 DEF DeleteDel
  <2>2. Goto(j, "delete.lrem") /\ UNCHANGED <<order, idem>>
    BY <1>6 DEF DeleteDel
  <2>3. /\ call' \in [Callers -> CallType]
        /\ call'[j].at = "delete.lrem" /\ call'[j].job = call[j].job
        /\ call'[j].arg = call[j].arg
        /\ \A q \in Callers \ {j} : call'[q] = call[q]
    BY <1>1, <2>2, GoingOn DEF Commands
  <2>4. faults' \in 0..MaxFaults /\ (faults > 0 => faults' > 0)
    BY <1>1, <2>1, CountUp
  <2>5. /\ hash' \in [Jobs -> JobResult] /\ hash'[j] \in {hash[j], NoResult}
        /\ \A i \in Jobs \ {j} : hash'[i] = hash[i]
    BY <1>4, <2>1, NoneTypes
  <2>6. faults > 0 \/ call[j].arg.key = key[j]
    BY <1>6 DEF DeleteDel, RolledBack
  <2> QED
    BY <1>2, <1>3, <1>4, <2>2, <2>3, <2>4, <2>5, <2>6
<1>7. CASE DeleteLrem(j)
  <2>1. PICK o \in Outcomes :
          /\ order' = IF o = "refused" THEN order ELSE order \ {j}
          /\ Count(o)
    BY <1>3, <1>7 DEF DeleteLrem
  <2>2. /\ call[j].arg.key = NoKey => Return(j, FALSE)
        /\ call[j].arg.key # NoKey => Goto(j, "delete.key")
        /\ UNCHANGED <<hash, idem>>
    BY <1>7 DEF DeleteLrem
  <2>3. faults' \in 0..MaxFaults /\ (faults > 0 => faults' > 0)
    BY <1>1, <2>1, CountUp
  <2>4. faults > 0 \/ call[j].arg.key = key[j]
    BY <1>7 DEF DeleteLrem, RolledBack
  <2>5. order' \subseteq Jobs /\ \A i \in Jobs \ {j} : i \in order => i \in order'
    BY <1>4, <2>1
  <2>6. CASE call[j].arg.key = NoKey
    <3>1. /\ call' \in [Callers -> CallType] /\ call'[j].at = "returned"
          /\ \A q \in Callers \ {j} : call'[q] = call[q]
      BY <1>1, <2>2, <2>6, Returning
    <3> QED
      BY <1>2, <1>3, <1>4, <2>2, <2>3, <2>4, <2>5, <2>6, <3>1
  <2>7. CASE call[j].arg.key # NoKey
    <3>1. /\ call' \in [Callers -> CallType]
          /\ call'[j].at = "delete.key" /\ call'[j].job = call[j].job
          /\ call'[j].arg = call[j].arg
          /\ \A q \in Callers \ {j} : call'[q] = call[q]
      BY <1>1, <2>2, <2>7, GoingOn DEF Commands
    <3> QED
      BY <1>2, <1>3, <1>4, <2>2, <2>3, <2>5, <2>7, <3>1
  <2> QED
    BY <2>6, <2>7
<1>8. CASE DeleteKey(j)
  <2>1. call[j].arg.key = key[j]
    BY <1>8 DEF DeleteKey, RolledBack
  <2>2. PICK o \in Outcomes :
          /\ idem' = IF o = "refused" THEN idem ELSE [idem EXCEPT ![key[j]] = NoJob]
          /\ Count(o)
    BY <1>8, <2>1 DEF DeleteKey
  <2>3. Return(j, FALSE) /\ UNCHANGED <<hash, order>>
    BY <1>8 DEF DeleteKey
  <2>4. /\ call' \in [Callers -> CallType] /\ call'[j].at = "returned"
        /\ \A q \in Callers \ {j} : call'[q] = call[q]
    BY <1>1, <2>3, Returning
  <2>5. /\ faults' \in 0..MaxFaults /\ (faults > 0 => faults' > 0)
        /\ o # "ok" => faults' > 0
    BY <1>1, <2>2, CountUp
  <2> QED
    BY <1>2, <1>3, <1>4, <2>2, <2>3, <2>4, <2>5
<1> QED
  BY <1>5, <1>6, <1>7, <1>8 DEF DeleteStep

\* A rollback does not touch what belongs to another job.
LEMMA DeleteSteps ==
  ASSUME Inv, NEW j \in Jobs, DeleteStep(j), UNCHANGED frameVars
  PROVE  Inv'
<1> USE DEF Inv
<1>1. /\ ~Returned(j) /\ spc[j] = "rollback"
      /\ call' \in [Callers -> CallType]
      /\ \A q \in Callers \ {j} : call'[q] = call[q]
      /\ hash' \in [Jobs -> JobResult] /\ order' \subseteq Jobs
      /\ hash'[j] \in {hash[j], NoResult}
      /\ \A i \in Jobs \ {j} : hash'[i] = hash[i] /\ (i \in order => i \in order')
      /\ faults' \in 0..MaxFaults /\ (faults > 0 => faults' > 0)
  BY DeleteFacts
<1>2. \/ call'[j].at = "returned"
      \/ /\ call'[j].at \in {"delete.del", "delete.lrem", "delete.key"}
         /\ call'[j].job = j /\ idem' = idem
         /\ call'[j].arg.key \in {NoKey, key[j]}
         /\ faults' > 0 \/ call'[j].arg.key = key[j]
         /\ call'[j].at = "delete.key" => call'[j].arg.key = key[j]
  BY DeleteFacts
<1>3. /\ idem' \in {idem, [idem EXCEPT ![key[j]] = NoJob]}
      /\ call'[j].at = "returned" =>
           faults' > 0 \/ idem' = [idem EXCEPT ![key[j]] = NoJob]
  BY DeleteFacts
<1>4. /\ UNCHANGED <<registryVars, spc, key, reply, cpc, cjob, wpc, blobs, taken, early,
                     orphans, dropped, leased, lost, copies, held>>
  BY DEF frameVars, submitVars, cancelVars, workVars, leaseVars, queueVars
<1>5. /\ key[j] \in Keys /\ idem \in [Keys -> Jobs \cup {NoJob}]
      /\ reply[j].code \in {"queue_full", "enqueue_error"}
      /\ ~Accepted(j) /\ ~Fresh(j) /\ Owner(j)
  BY <1>1 DEF TypeOK, StoreTypeOK, Recorded, Replied, Accepted, Fresh, Owner
<1>6. /\ \A q \in Callers \ {j} : /\ Returned(q)' <=> Returned(q)
                                  /\ InSet(q)' <=> InSet(q)
      /\ ~InSet(j)'
  BY <1>1, <1>2 DEF Returned, InSet, Setting
<1>7. /\ idem' \in [Keys -> Jobs \cup {NoJob}]
      /\ \A k \in Keys : idem'[k] = idem[k] \/ (k = key[j] /\ idem'[k] = NoJob)
      /\ \A k \in Keys : \A i \in Jobs : idem'[k] = i => idem[k] = i
      /\ idem[key[j]] = j
      /\ \A k \in Keys : k # key[j] => idem[k] # j
  <2>1. idem[key[j]] = j /\ \A k \in Keys : k # key[j] => idem[k] # j
    BY <1>5 DEF KeysOwned
  <2>2. /\ idem' \in [Keys -> Jobs \cup {NoJob}]
        /\ \A k \in Keys : idem'[k] = idem[k] \/ (k = key[j] /\ idem'[k] = NoJob)
    BY <1>3, <1>5
  <2> QED
    BY <2>1, <2>2, NoJobAssumption
<1>8. TypeOK'
  BY <1>1, <1>4, <1>7
     DEF TypeOK, StoreTypeOK, RegistryTypeOK, registryVars, CallType
<1>9. SubmitCalls'
  <2>1. Returned(j)' \/ (call'[j].at \in Deleting /\ call'[j].job = j)
    BY <1>2 DEF Returned, Deleting
  <2> QED
    BY <1>1, <1>4, <1>6, <2>1, CallersAssumption DEF SubmitCalls
<1>10. CancelCalls' /\ WorkCalls' /\ OtherCalls'
  BY <1>1, <1>4, SubmitterKeeps
<1>11. Recorded'
  <2>1. \A i \in Jobs : /\ hash'[i] = NoResult \/ hash'[i].key = key[i]
                        /\ hash'[i].status = "none" => hash'[i] = NoResult
    BY <1>1 DEF Recorded
  <2>2. call'[j].at \in Deleting => call'[j].arg.key \in {NoKey, key[j]}
    BY <1>2 DEF Deleting
  <2> QED
    BY <1>1, <1>4, <1>6, <2>1, <2>2, CallersAssumption DEF Recorded
<1>12. Unwritten'
  <2>1. \A i \in Jobs : Fresh(i)' => Fresh(i) /\ i # j
    BY <1>1, <1>4, <1>5, <1>6, CallersAssumption DEF Fresh
  <2> QED
    BY <1>1, <1>4, <1>6, <2>1 DEF Unwritten
<1>13. OnRecord'
  <2>1. \A i \in Jobs : HasRecord(i)' => HasRecord(i) /\ i # j
    BY <1>1, <1>2, <1>4, <1>5, <1>6, CallersAssumption DEF HasRecord, Accepted
  <2> QED
    BY <1>1, <1>4, <1>6, <2>1, CallersAssumption DEF OnRecord
<1>14. KeysOwned'
  <2>1. ASSUME NEW i \in Jobs, Owner(i)'
        PROVE  idem'[key[i]] = i
    <3>1. Owner(i) /\ idem[key[i]] = i /\ key[i] \in Keys
      BY <1>1, <1>4, <1>5, <1>6, <2>1, CallersAssumption
         DEF Owner, Accepted, KeysOwned, Recorded, Replied
    <3>2. CASE i = j
      <4>1. ~Returned(j)'
        BY <1>1, <1>4, <1>5, <2>1, <3>2 DEF Owner, Accepted
      <4> QED
        BY <1>2, <1>7, <3>2, <4>1 DEF Returned
    <3>3. CASE i # j
      BY <1>7, <3>1, <3>3
    <3> QED
      BY <3>2, <3>3
  <2> QED
    BY <1>4, <1>7, <2>1 DEF KeysOwned
<1>15. RolledBack'
  <2>1. ASSUME NEW i \in Jobs, spc[i] = "getkey"
        PROVE  \/ idem'[key[i]] # NoJob
               \/ \E h \in Jobs : key[h] = key[i] /\ reply[h].code \in Rejections
    <3>1. key[i] \in Keys
      BY <2>1 DEF Recorded
    <3>2. CASE idem'[key[i]] = idem[key[i]]
      BY <2>1, <3>2 DEF RolledBack
    <3>3. CASE key[i] = key[j]
      BY <1>5, <3>3 DEF Rejections
    <3> QED
      BY <1>7, <3>1, <3>2, <3>3
  <2>2. \A i \in Jobs : Free(i) => Free(i)'
    BY <1>1, <1>7 DEF Free
  <2>3. Returned(j)' => Free(j)'
    BY <1>3, <1>5, <1>7, NoJobAssumption DEF Returned, Free
  <2>4. ASSUME NEW i \in Jobs
        PROVE  /\ call'[i].at \in {"delete.del", "delete.lrem", "delete.key"} =>
                    faults' > 0 \/ call'[i].arg.key = key[i]
               /\ call'[i].at = "delete.key" => call'[i].arg.key = key[i]
               /\ spc[i] = "rollback" /\ Returned(i)' => Free(i)'
    <3>1. CASE i = j
      BY <1>2, <2>3, <3>1
    <3>2. CASE i # j
      BY <1>1, <1>6, <2>2, <3>2, CallersAssumption DEF RolledBack
    <3> QED
      BY <3>1, <3>2
  <2> QED
    BY <1>4, <2>1, <2>4 DEF RolledBack
<1>16. KeysFollowJobs'
  BY <1>1, <1>4, <1>7 DEF KeysFollowJobs
<1>17. Moving'
  <2>1. \A w \in Workers, i \in Jobs : Active(w, i)' <=> Active(w, i)
    BY <1>1, <1>4, <1>6, CallersAssumption, RolesAssumption DEF Active
  <2> QED
    BY <1>1, <1>4, <1>5, <2>1 DEF Moving, Accepted
<1> QED
  BY <1>8, <1>9, <1>10, <1>11, <1>12, <1>13, <1>14, <1>15, <1>16, <1>17, CommandFrame

\* No command of the store breaks the invariant, whoever sends it.
LEMMA CommandStep ==
  ASSUME Inv, NEW p \in Callers, Command(p)
  PROVE  Inv'
<1>1. StoreStep(p) /\ UNCHANGED frameVars
  BY DEF Command, frameVars
<1>2. DeleteStep(p) => p \in Jobs
  <2> SUFFICES ASSUME DeleteStep(p)
               PROVE  p \in Jobs
    OBVIOUS
  <2>1. call[p].at \in Deleting /\ ~Returned(p) /\ ~InSet(p)
    BY DEF DeleteStep, DeleteHgetall, DeleteDel, DeleteLrem, DeleteKey, Deleting,
           Returned, InSet, Setting
  <2>2. p \notin Cancellers
    BY <2>1 DEF Inv, CancelCalls, Deleting
  <2> QED
    BY <2>1, <2>2, WhoCalls
<1> QED
  BY <1>1, <1>2, SetAdvances, SetWrites, CancelReads, DeleteSteps DEF StoreStep, DeleteStep

-----------------------------------------------------------------------------
(* SubmitJob.                                                              *)

\* What the invariant says of one submission, its call, key and answer.
Own(j) ==
  /\ spc[j] \in {"idle", "getkey", "done"} => Returned(j)
  /\ spc[j] = "init" => Returned(j) \/ InSet(j)
  /\ spc[j] = "rollback" => Returned(j) \/ call[j].at \in Deleting
  /\ ~Returned(j) => call[j].job = j
  /\ spc[j] # "idle" => key[j] \in Keys
  /\ InSet(j) => call[j].arg.status # "none" /\ call[j].arg.key = key[j]
  /\ call[j].at \in Deleting => call[j].arg.key \in {NoKey, key[j]}
  /\ HasRecord(j) => hash[j] # NoResult /\ (j \in order \/ faults > 0)
  /\ spc[j] = "init" /\ call[j].at = "set.hset" => j \in order \/ faults > 0
  /\ spc[j] = "init" /\ Returned(j) /\ call[j].err => faults > 0
  /\ Owner(j) => idem[key[j]] = j
  /\ spc[j] \in {"idle", "getkey", "init"} => reply[j].code = "none"
  /\ spc[j] = "rollback" => reply[j].code \in {"queue_full", "enqueue_error"}
  /\ call[j].at \notin {"delete.del", "delete.lrem", "delete.key"}
  /\ spc[j] = "rollback" /\ Returned(j) => Free(j)
  /\ spc[j] = "done" /\ reply[j].code \in Rejections => Free(j)

\* Some request with this key was turned down.
Refused(k) == \E i \in Jobs : key[i] = k /\ reply[i].code \in Rejections

\* A step of a submission changes its own call, key, answer and copies, and
\* takes a key only if it is free: nothing of another job is touched.
LEMMA SubmitKeeps ==
  ASSUME Inv, NEW j \in Jobs, spc[j] # "done", spc'[j] # "idle", Own(j)',
         UNCHANGED <<hash, order, cpc, cjob, registryVars, workVars, held>>,
         call' \in [Callers -> CallType], \A q \in Callers \ {j} : call'[q] = call[q],
         spc' \in [Jobs -> {"idle", "getkey", "init", "rollback", "done"}],
         key' \in [Jobs -> Keys \cup {NoKey}],
         reply' \in [Jobs -> [code : {"none", "accepted", "idempotent"} \cup Rejections,
                              job : Jobs \cup {NoJob}]],
         copies' \in [Jobs -> Nat],
         \A i \in Jobs \ {j} : /\ spc'[i] = spc[i] /\ key'[i] = key[i]
                               /\ reply'[i] = reply[i] /\ copies'[i] = copies[i],
         faults' \in 0..MaxFaults, faults > 0 => faults' > 0,
         idem' \in [Keys -> Jobs \cup {NoJob}],
         \A k \in Keys : \/ idem'[k] = idem[k]
                         \/ idem[k] = NoJob /\ idem'[k] = j /\ k = key'[j],
         key'[j] = key[j] \/ spc[j] = "idle",
         spc[j] = "rollback" => reply'[j] = reply[j],
         spc'[j] \in {"getkey", "init"} => spc[j] = "idle" /\ copies'[j] = copies[j],
         copies'[j] = copies[j] \/ (copies'[j] = copies[j] + 1 /\ spc[j] = "init"),
         Accepted(j)' => copies'[j] > 0,
         spc'[j] = "getkey" => idem'[key'[j]] # NoJob,
         reply'[j].code = "idempotent" /\ reply'[j].job = NoJob =>
           Refused(key[j]) /\ key'[j] = key[j]
  PROVE  Inv'
<1> USE DEF Inv
<1>1. /\ UNCHANGED <<cancels, jobCtx, wpc, blobs, taken, early, orphans, dropped, leased,
                     lost>>
      /\ j \in Callers /\ j \notin Workers /\ j \notin Cancellers
  BY CallersAssumption, RolesAssumption DEF registryVars, workVars, leaseVars
<1>2. \A q \in Callers \ {j} : (Returned(q)' <=> Returned(q)) /\ (InSet(q)' <=> InSet(q))
  BY DEF Returned, InSet
<1>3. /\ \A i \in Jobs \ {j} : Fresh(i)' <=> Fresh(i)
      /\ \A i \in Jobs \ {j} : HasRecord(i)' <=> HasRecord(i)
      /\ \A i \in Jobs \ {j} : Owner(i)' <=> Owner(i)
      /\ \A i \in Jobs \ {j} : Accepted(i)' <=> Accepted(i)
  BY <1>2, CallersAssumption DEF Fresh, HasRecord, Owner, Accepted
<1>4. /\ Fresh(j)' => spc[j] = "idle"
      /\ spc[j] = "idle" => Fresh(j)
  BY DEF Fresh
<1>5. /\ ~Accepted(j)
      /\ reply[j].code \in Rejections => reply'[j] = reply[j] /\ key'[j] = key[j]
  BY DEF Replied, TypeOK, Accepted, Rejections
<1>6. TypeOK'
  BY <1>1 DEF TypeOK, StoreTypeOK, RegistryTypeOK, CallType
<1>7. SubmitCalls'
  BY <1>2, CallersAssumption DEF SubmitCalls, Own
<1>8. CancelCalls' /\ WorkCalls' /\ OtherCalls'
  BY <1>1, SubmitterKeeps
<1>9. Recorded'
  <2>1. \A i \in Jobs : hash'[i] = NoResult \/ hash'[i].key = key'[i]
    BY <1>4 DEF Recorded, Unwritten
  <2>2. \A i \in Jobs : /\ hash'[i].status = "none" => hash'[i] = NoResult
                        /\ spc'[i] # "idle" => key'[i] \in Keys
    BY DEF Recorded, Own
  <2>3. ASSUME NEW p \in Callers, InSet(p)'
        PROVE  call'[p].arg.status # "none" /\ call'[p].arg.key = key'[call'[p].job]
    <3>1. CASE p = j
      BY <2>3, <3>1 DEF Own, InSet, Returned, Setting
    <3>2. CASE p # j
      <4>1. InSet(p) /\ call'[p] = call[p] /\ ~Returned(p)
        BY <1>2, <2>3, <3>2 DEF InSet, Setting, Returned
      <4>2. call[p].job \in Jobs
        BY <4>1, WhoCalls
      <4>3. key'[call[p].job] = key[call[p].job]
        BY <1>4, <3>2, <4>1, <4>2 DEF Unwritten
      <4> QED
        BY <4>1, <4>3 DEF Recorded
    <3> QED
      BY <3>1, <3>2
  <2>4. \A i \in Jobs : call'[i].at \in Deleting => call'[i].arg.key \in {NoKey, key'[i]}
    BY CallersAssumption DEF Recorded, Own
  <2> QED
    BY <2>1, <2>2, <2>3, <2>4 DEF Recorded
<1>10. Unwritten'
  <2>1. InSet(j)' => call'[j].job = j
    BY DEF Own, InSet, Setting, Returned
  <2> QED
    BY <1>2, <1>3, <1>4, <2>1 DEF Unwritten
<1>11. Unqueued'
  BY <1>1 DEF Unqueued
<1>12. OnRecord'
  BY <1>2, <1>3, CallersAssumption DEF OnRecord, Own
<1>13. KeysOwned'
  <2>1. ASSUME NEW i \in Jobs, Owner(i)'
        PROVE  idem'[key'[i]] = i
    <3>1. CASE i = j
      BY <2>1, <3>1 DEF Own
    <3>2. CASE i # j
      <4>1. idem[key[i]] = i /\ key'[i] = key[i] /\ key[i] \in Keys
        BY <1>3, <2>1, <3>2 DEF KeysOwned, Recorded, Owner, Accepted, Replied
      <4> QED
        BY <4>1, NoJobAssumption
    <3> QED
      BY <3>1, <3>2
  <2>2. ASSUME NEW k \in Keys, NEW i \in Jobs, idem'[k] = i
        PROVE  spc'[i] # "idle" /\ key'[i] = k
    <3>1. CASE i = j
      BY <2>2, <3>1 DEF KeysOwned
    <3>2. CASE i # j
      BY <2>2, <3>2 DEF KeysOwned
    <3> QED
      BY <3>1, <3>2
  <2> QED
    BY <2>1, <2>2 DEF KeysOwned
<1>14. Replied'
  BY DEF Replied, Own
<1>15. /\ \A k : Refused(k) => Refused(k)'
       /\ \A i \in Jobs \ {j} : Free(i) => Free(i)'
  <2>1. \A k : Refused(k) => Refused(k)'
    BY <1>5 DEF Refused
  <2>2. \A i \in Jobs \ {j} : Free(i) => Free(i)'
    BY DEF Free
  <2> QED
    BY <2>1, <2>2
<1>16. RolledBack'
  <2>1. ASSUME NEW i \in Jobs, spc'[i] = "getkey", NEW k \in Keys, k = key'[i]
        PROVE  idem'[k] # NoJob \/ Refused(k)'
    <3>1. CASE i = j
      BY <2>1, <3>1
    <3>2. CASE i # j
      <4>1. idem[k] # NoJob \/ Refused(k)
        BY <2>1, <3>2 DEF RolledBack, Refused
      <4> QED
        BY <1>15, <4>1, NoJobAssumption
    <3> QED
      BY <3>1, <3>2
  <2>2. ASSUME NEW i \in Jobs, i # j
        PROVE  /\ call'[i].at \in {"delete.del", "delete.lrem", "delete.key"} =>
                    faults' > 0 \/ call'[i].arg.key = key'[i]
               /\ call'[i].at = "delete.key" => call'[i].arg.key = key'[i]
               /\ spc'[i] = "rollback" /\ Returned(i)' => Free(i)'
    BY <1>2, <1>15, <2>2, CallersAssumption DEF RolledBack
  <2>3. ASSUME NEW i \in Jobs, spc'[i] = "getkey"
        PROVE  \/ idem'[key'[i]] # NoJob
               \/ \E h \in Jobs : key'[h] = key'[i] /\ reply'[h].code \in Rejections
    <3>1. key'[i] \in Keys
      BY <1>9, <2>3 DEF Recorded
    <3> QED
      BY <2>1, <2>3, <3>1 DEF Refused
  <2>4. /\ call'[j].at \notin {"delete.del", "delete.lrem", "delete.key"}
        /\ spc'[j] = "rollback" /\ Returned(j)' => Free(j)'
    BY DEF Own
  <2> QED
    BY <2>2, <2>3, <2>4 DEF RolledBack
<1>17. KeysFollowJobs'
  <2>1. ASSUME NEW i \in Jobs, spc'[i] = "done", reply'[i].code \in Rejections
        PROVE  Free(i)'
    <3>1. CASE i = j
      BY <2>1, <3>1 DEF Own
    <3>2. CASE i # j
      <4>1. Free(i)
        BY <2>1, <3>2 DEF KeysFollowJobs, Free
      <4> QED
        BY <1>15, <3>2, <4>1
    <3> QED
      BY <3>1, <3>2
  <2>2. ASSUME NEW i \in Jobs, reply'[i].code = "idempotent", reply'[i].job = NoJob
        PROVE  \E h \in Jobs : key'[h] = key'[i] /\ reply'[h].code \in Rejections
    <3>1. PICK k : k = key'[i]
      OBVIOUS
    <3>2. Refused(k)
      BY <2>2, <3>1 DEF KeysFollowJobs, Refused
    <3> QED
      BY <1>15, <3>1, <3>2 DEF Refused
  <2> QED
    BY <2>1, <2>2 DEF KeysFollowJobs, Free
<1>18. Exclusive'
  <2>1. spc[j] = "init" => /\ copies[j] = 0 /\ j \notin orphans
                           /\ \A w \in Workers : held[w] # j
    BY DEF Unqueued
  <2>2. copies'[j] = copies[j] \/ copies'[j] = 1
    BY <2>1 DEF TypeOK
  <2> QED
    BY <1>1, <2>1, <2>2 DEF Exclusive
<1>19. RegistryServesRender'
  BY <1>1 DEF RegistryServesRender, InRender
<1>20. Moving'
  <2>1. \A w \in Workers, i \in Jobs : Active(w, i)' <=> Active(w, i)
    BY <1>1, <1>2, CallersAssumption DEF Active
  <2> QED
    BY <1>1, <1>3, <2>1 DEF Moving
<1> QED
  BY <1>6, <1>7, <1>8, <1>9, <1>10, <1>11, <1>12, <1>13, <1>14, <1>16, <1>17, <1>18,
     <1>19, <1>20

\* What a submission that answers, or goes on, does to answers and places.
LEMMA Answering ==
  ASSUME TypeOK, NEW j \in Jobs,
         NEW code \in {"none", "accepted", "idempotent"} \cup Rejections,
         NEW named \in Jobs \cup {NoJob},
         NEW to \in {"idle", "getkey", "init", "rollback", "done"},
         spc' = [spc EXCEPT ![j] = to],
         reply' = [reply EXCEPT ![j] = [code |-> code, job |-> named]]
  PROVE  /\ spc' \in [Jobs -> {"idle", "getkey", "init", "rollback", "done"}]
         /\ reply' \in [Jobs -> [code : {"none", "accepted", "idempotent"} \cup Rejections,
                                 job : Jobs \cup {NoJob}]]
         /\ spc'[j] = to /\ reply'[j].code = code /\ reply'[j].job = named
         /\ \A i \in Jobs \ {j} : spc'[i] = spc[i] /\ reply'[i] = reply[i]
BY DEF TypeOK

\* SET NX: the first of several submissions with a key goes on, and the
\* others ask who it was.
LEMMA ReserveInv ==
  ASSUME Inv, NEW j \in Jobs, SubmitReserve(j)
  PROVE  Inv'
<1> USE DEF Inv
<1>1. PICK k \in Keys, o \in Outcomes :
        /\ key' = [key EXCEPT ![j] = k] /\ SetNX(k, j, o) /\ Count(o)
        /\ CASE Reserved(k, o) -> Initialize(j, k)
             [] o # "ok" -> Answer(j, "idempotency_error", NoJob) /\ UNCHANGED call
             [] OTHER -> SubmitGoto(j, "getkey") /\ UNCHANGED call
  BY DEF SubmitReserve
<1>2. /\ spc[j] = "idle" /\ UNCHANGED <<hash, order, cpc, cjob, registryVars, workVars>>
      /\ copies' = copies /\ held' = held
  BY DEF SubmitReserve, cancelVars, queueVars
<1>3. /\ StoreTypeOK /\ call \in [Callers -> CallType] /\ j \in Callers
      /\ Returned(j) /\ reply[j].code = "none" /\ hash[j] = NoResult
      /\ \A i \in Keys : idem[i] # j
  BY <1>2, CallersAssumption
     DEF TypeOK, StoreTypeOK, CallType, SubmitCalls, Replied, KeysOwned, Unwritten, Fresh
<1>4. /\ faults' \in 0..MaxFaults /\ (faults > 0 => faults' > 0)
      /\ o # "ok" => faults' > 0
  BY <1>1, <1>3, CountUp
<1>5. /\ key' \in [Jobs -> Keys \cup {NoKey}] /\ key'[j] = k
      /\ \A i \in Jobs \ {j} : key'[i] = key[i]
  BY <1>1 DEF TypeOK
<1>6. /\ idem' \in [Keys -> Jobs \cup {NoJob}]
      /\ \A i \in Keys : \/ idem'[i] = idem[i]
                         \/ idem[i] = NoJob /\ idem'[i] = j /\ i = k
      /\ Reserved(k, o) => idem'[k] = j
      /\ o = "ok" /\ ~Reserved(k, o) => idem'[k] # NoJob
  BY <1>1, <1>3, NoJobAssumption DEF SetNX, Reserved, StoreTypeOK
<1>7. copies' \in [Jobs -> Nat] /\ \A i \in Jobs \ {j} : copies'[i] = copies[i]
  BY <1>2 DEF TypeOK
<1>8. CASE Reserved(k, o)
  <2>1. /\ spc' = [spc EXCEPT ![j] = "init"] /\ reply' = reply
        /\ Set(j, j, Record(j, "pending", "", NoJob, k))
    BY <1>1, <1>8 DEF Initialize, SubmitGoto, Reserved
  <2>2. PICK r \in JobResult : r = Record(j, "pending", "", NoJob, k)
    BY DEF Record, NewResult, JobResult, Status, Errors
  <2>3. r.status = "pending" /\ r.key = k
    BY <2>2 DEF Record, NewResult
  <2>4. Call(j, "set.hgetall", j, r) /\ "set.hgetall" \in Commands
    BY <2>1, <2>2 DEF Set, Commands
  <2>5. /\ call' \in [Callers -> CallType]
        /\ call'[j].at = "set.hgetall" /\ call'[j].job = j /\ call'[j].arg = r
        /\ \A q \in Callers \ {j} : call'[q] = call[q]
    BY <1>3, <2>4, Calling
  <2>6. /\ spc' \in [Jobs -> {"idle", "getkey", "init", "rollback", "done"}]
        /\ spc'[j] = "init" /\ reply'[j].code = "none"
        /\ reply' \in [Jobs -> [code : {"none", "accepted", "idempotent"} \cup Rejections,
                                job : Jobs \cup {NoJob}]]
        /\ \A i \in Jobs \ {j} : spc'[i] = spc[i] /\ reply'[i] = reply[i]
    BY <1>3, <2>1 DEF TypeOK
  <2>7. Own(j)'
    BY <1>5, <1>6, <1>8, <2>3, <2>5, <2>6
       DEF Own, InSet, Setting, Deleting, Returned, HasRecord, Accepted, Owner, Rejections
  <2> QED
    BY <1>2, <1>4, <1>5, <1>6, <1>7, <2>5, <2>6, <2>7, SubmitKeeps DEF Accepted
<1>9. CASE ~Reserved(k, o) /\ o # "ok"
  <2>1. Answer(j, "idempotency_error", NoJob) /\ call' = call
    BY <1>1, <1>9
  <2>2. /\ spc' \in [Jobs -> {"idle", "getkey", "init", "rollback", "done"}]
        /\ spc'[j] = "done" /\ reply'[j].code = "idempotency_error"
        /\ reply' \in [Jobs -> [code : {"none", "accepted", "idempotent"} \cup Rejections,
                                job : Jobs \cup {NoJob}]]
        /\ \A i \in Jobs \ {j} : spc'[i] = spc[i] /\ reply'[i] = reply[i]
    BY <2>1, Answering DEF Answer, Rejections
  <2>3. Own(j)'
    BY <1>3, <1>4, <1>5, <1>9, <2>1, <2>2
       DEF Own, InSet, Setting, Deleting, Returned, HasRecord, Accepted, Owner, Free
  <2> QED
    BY <1>2, <1>3, <1>4, <1>5, <1>6, <1>7, <2>1, <2>2, <2>3, SubmitKeeps DEF Accepted
<1>10. CASE ~Reserved(k, o) /\ o = "ok"
  <2>1. spc' = [spc EXCEPT ![j] = "getkey"] /\ reply' = reply /\ call' = call
    BY <1>1, <1>10 DEF SubmitGoto
  <2>2. /\ spc' \in [Jobs -> {"idle", "getkey", "init", "rollback", "done"}]
        /\ spc'[j] = "getkey" /\ reply'[j].code = "none"
        /\ reply' \in [Jobs -> [code : {"none", "accepted", "idempotent"} \cup Rejections,
                                job : Jobs \cup {NoJob}]]
        /\ \A i \in Jobs \ {j} : spc'[i] = spc[i] /\ reply'[i] = reply[i]
    BY <1>3, <2>1 DEF TypeOK
  <2>3. Own(j)'
    BY <1>3, <1>5, <2>1, <2>2
       DEF Own, InSet, Setting, Deleting, Returned, HasRecord, Accepted, Owner, Rejections
  <2> QED
    BY <1>2, <1>3, <1>4, <1>5, <1>6, <1>7, <1>10, <2>1, <2>2, <2>3, SubmitKeeps DEF Accepted
<1> QED
  BY <1>8, <1>9, <1>10

\* GET: the key may have been given back in between, by a rollback.
LEMMA GetKeyInv ==
  ASSUME Inv, NEW j \in Jobs, SubmitGetKey(j)
  PROVE  Inv'
<1> USE DEF Inv
<1>1. PICK o \in Outcomes :
        /\ IF o = "ok" THEN Answer(j, "idempotent", idem[key[j]])
                       ELSE Answer(j, "idempotency_error", NoJob)
        /\ Count(o)
  BY DEF SubmitGetKey
<1>2. /\ spc[j] = "getkey" /\ UNCHANGED <<hash, order, cpc, cjob, registryVars, workVars>>
      /\ UNCHANGED <<copies, held, idem, call, key>>
  BY DEF SubmitGetKey, cancelVars, queueVars
<1>3. /\ StoreTypeOK /\ call \in [Callers -> CallType] /\ j \in Callers
      /\ Returned(j) /\ reply[j].code = "none" /\ key[j] \in Keys
      /\ idem \in [Keys -> Jobs \cup {NoJob}] /\ key \in [Jobs -> Keys \cup {NoKey}]
      /\ copies \in [Jobs -> Nat]
  BY <1>2, CallersAssumption
     DEF TypeOK, StoreTypeOK, CallType, SubmitCalls, Replied, Recorded
<1>4. /\ faults' \in 0..MaxFaults /\ (faults > 0 => faults' > 0)
      /\ o # "ok" => faults' > 0
  BY <1>1, <1>3, CountUp
<1>5. PICK code \in {"idempotent", "idempotency_error"}, named \in Jobs \cup {NoJob} :
        /\ Answer(j, code, named)
        /\ code = "idempotent" => named = idem[key[j]]
        /\ code = "idempotency_error" => o # "ok"
  BY <1>1, <1>3
<1>6. code \in {"none", "accepted", "idempotent"} \cup Rejections
  BY DEF Rejections
<1>7. /\ spc' \in [Jobs -> {"idle", "getkey", "init", "rollback", "done"}]
      /\ spc'[j] = "done" /\ reply'[j].code = code /\ reply'[j].job = named
      /\ reply' \in [Jobs -> [code : {"none", "accepted", "idempotent"} \cup Rejections,
                              job : Jobs \cup {NoJob}]]
      /\ \A i \in Jobs \ {j} : spc'[i] = spc[i] /\ reply'[i] = reply[i]
  BY <1>5, <1>6, Answering DEF Answer
<1>8. Own(j)'
  BY <1>2, <1>3, <1>4, <1>5, <1>7
     DEF Own, InSet, Setting, Deleting, Returned, HasRecord, Accepted, Owner, Free,
         Rejections
<1>9. reply'[j].code = "idempotent" /\ reply'[j].job = NoJob => Refused(key[j])
  BY <1>2, <1>5, <1>7 DEF RolledBack, Refused
<1> QED
  BY <1>2, <1>3, <1>4, <1>7, <1>8, <1>9, SubmitKeeps DEF Accepted

\* The handler gives up: a command of Set failed, and the key stays.
LEMMA StorageErrorInv ==
  ASSUME Inv, NEW j \in Jobs, SubmitStorageError(j)
  PROVE  Inv'
<1> USE DEF Inv
<1>1. /\ spc[j] = "init" /\ Returned(j) /\ call[j].err
      /\ Answer(j, "storage_error", NoJob)
      /\ UNCHANGED <<hash, order, cpc, cjob, registryVars, workVars>>
      /\ UNCHANGED <<copies, held, idem, call, key, faults>>
  BY DEF SubmitStorageError, cancelVars, queueVars, redisVars
<1>2. /\ call \in [Callers -> CallType] /\ j \in Callers /\ key[j] \in Keys
      /\ idem \in [Keys -> Jobs \cup {NoJob}] /\ key \in [Jobs -> Keys \cup {NoKey}]
      /\ copies \in [Jobs -> Nat] /\ faults \in 0..MaxFaults /\ faults > 0
  BY <1>1, CallersAssumption DEF TypeOK, StoreTypeOK, CallType, Recorded, OnRecord
<1>3. /\ spc' \in [Jobs -> {"idle", "getkey", "init", "rollback", "done"}]
      /\ spc'[j] = "done" /\ reply'[j].code = "storage_error" /\ reply'[j].job = NoJob
      /\ reply' \in [Jobs -> [code : {"none", "accepted", "idempotent"} \cup Rejections,
                              job : Jobs \cup {NoJob}]]
      /\ \A i \in Jobs \ {j} : spc'[i] = spc[i] /\ reply'[i] = reply[i]
  BY <1>1, Answering DEF Answer, Rejections
<1>4. Own(j)'
  BY <1>1, <1>2, <1>3
     DEF Own, InSet, Setting, Deleting, Returned, HasRecord, Accepted, Owner, Free
<1> QED
  BY <1>1, <1>2, <1>3, <1>4, SubmitKeeps DEF Accepted

\* The job is queued, or its record is taken back: in between it may already
\* be queued, when the answer of LPUSH got lost.
LEMMA PushInv ==
  ASSUME Inv, NEW j \in Jobs, SubmitPush(j) \/ SubmitQueueFull(j)
  PROVE  Inv'
<1> USE DEF Inv
<1>1. /\ spc[j] = "init" /\ Returned(j) /\ ~call[j].err
      /\ UNCHANGED <<hash, order, cpc, cjob, registryVars, workVars>>
      /\ UNCHANGED <<idem, key>>
  BY DEF SubmitPush, SubmitQueueFull, cancelVars
<1>2. /\ StoreTypeOK /\ call \in [Callers -> CallType] /\ j \in Callers /\ key[j] \in Keys
      /\ idem \in [Keys -> Jobs \cup {NoJob}] /\ key \in [Jobs -> Keys \cup {NoKey}]
      /\ copies \in [Jobs -> Nat] /\ faults \in 0..MaxFaults
      /\ reply[j].code = "none" /\ reply[j].job \in Jobs \cup {NoJob}
      /\ hash[j] # NoResult /\ (j \in order \/ faults > 0) /\ idem[key[j]] = j
  BY <1>1, CallersAssumption
     DEF TypeOK, StoreTypeOK, CallType, Recorded, OnRecord, HasRecord, Replied, KeysOwned,
         Owner
<1>3. /\ held' = held /\ copies' \in [Jobs -> Nat]
      /\ \A i \in Jobs \ {j} : copies'[i] = copies[i]
      /\ copies'[j] \in {copies[j], copies[j] + 1}
  BY <1>2 DEF SubmitPush, SubmitQueueFull, queueVars, Queue!Enqueue
<1>4. faults' \in 0..MaxFaults /\ (faults > 0 => faults' > 0)
  BY <1>2, CountUp DEF SubmitPush, SubmitQueueFull
<1>5. \/ /\ call' = call /\ Answer(j, "accepted", j) /\ copies'[j] > 0
      \/ /\ spc' = [spc EXCEPT ![j] = "rollback"] /\ Delete(j, j)
         /\ \E code \in {"queue_full", "enqueue_error"} :
              reply' = [reply EXCEPT ![j].code = code]
  <2>1. CASE SubmitQueueFull(j)
    BY <2>1 DEF SubmitQueueFull
  <2>2. CASE SubmitPush(j)
    <3>1. PICK o \in Outcomes :
            /\ IF o = "ok"
                 THEN Answer(j, "accepted", j) /\ UNCHANGED call
                 ELSE /\ spc' = [spc EXCEPT ![j] = "rollback"]
                      /\ reply' = [reply EXCEPT ![j].code = "enqueue_error"]
                      /\ Delete(j, j)
            /\ IF o = "refused" THEN UNCHANGED queueVars ELSE Queue!Enqueue(j)
      BY <2>2 DEF SubmitPush
    <3>2. o = "ok" => copies'[j] = copies[j] + 1
      BY <1>2, <3>1 DEF Queue!Enqueue
    <3> QED
      BY <1>2, <3>1, <3>2
  <2> QED
    BY <2>1, <2>2
<1>6. CASE call' = call /\ Answer(j, "accepted", j) /\ copies'[j] > 0
  <2>1. /\ spc' \in [Jobs -> {"idle", "getkey", "init", "rollback", "done"}]
        /\ spc'[j] = "done" /\ reply'[j].code = "accepted" /\ reply'[j].job = j
        /\ reply' \in [Jobs -> [code : {"none", "accepted", "idempotent"} \cup Rejections,
                                job : Jobs \cup {NoJob}]]
        /\ \A i \in Jobs \ {j} : spc'[i] = spc[i] /\ reply'[i] = reply[i]
    BY <1>6, Answering DEF Answer
  <2>2. Own(j)'
    BY <1>1, <1>2, <1>4, <1>6, <2>1
       DEF Own, InSet, Setting, Deleting, Returned, HasRecord, Accepted, Owner, Rejections
  <2> QED
    BY <1>1, <1>2, <1>3, <1>4, <1>6, <2>1, <2>2, SubmitKeeps
<1>7. ASSUME spc' = [spc EXCEPT ![j] = "rollback"], Delete(j, j),
             NEW code \in {"queue_full", "enqueue_error"},
             reply' = [reply EXCEPT ![j].code = code]
      PROVE  Inv'
  <2>1. PICK named \in Jobs \cup {NoJob} :
          reply' = [reply EXCEPT ![j] = [code |-> code, job |-> named]]
    <3>1. PICK named \in Jobs \cup {NoJob} : named = reply[j].job
      BY <1>2
    <3>2. [reply[j] EXCEPT !.code = code] = [code |-> code, job |-> named]
      BY <3>1 DEF TypeOK
    <3> QED
      BY <1>7, <3>2
  <2>2. code \in {"none", "accepted", "idempotent"} \cup Rejections
    BY DEF Rejections
  <2>3. /\ spc' \in [Jobs -> {"idle", "getkey", "init", "rollback", "done"}]
        /\ spc'[j] = "rollback" /\ reply'[j].code = code
        /\ reply' \in [Jobs -> [code : {"none", "accepted", "idempotent"} \cup Rejections,
                                job : Jobs \cup {NoJob}]]
        /\ \A i \in Jobs \ {j} : spc'[i] = spc[i] /\ reply'[i] = reply[i]
    <3>1. /\ TypeOK /\ spc' = [spc EXCEPT ![j] = "rollback"]
          /\ "rollback" \in {"idle", "getkey", "init", "rollback", "done"}
      BY <1>7
    <3> HIDE DEF Inv
    <3> QED
      BY <2>1, <2>2, <3>1, Answering
  <2>4. /\ Call(j, "delete.hgetall", j, NoResult) /\ "delete.hgetall" \in Commands
        /\ NoResult \in JobResult /\ NoResult.key = NoKey
    BY <1>7, NoneTypes DEF Delete, Commands
  <2>5. /\ call' \in [Callers -> CallType]
        /\ call'[j].at = "delete.hgetall" /\ call'[j].job = j /\ call'[j].arg = NoResult
        /\ \A q \in Callers \ {j} : call'[q] = call[q]
    BY <1>2, <2>4, Calling
  <2>6. Own(j)'
    BY <1>1, <1>2, <1>4, <2>3, <2>4, <2>5
       DEF Own, InSet, Setting, Deleting, Returned, HasRecord, Accepted, Owner
  <2> QED
    BY <1>1, <1>2, <1>3, <1>4, <2>3, <2>5, <2>6, SubmitKeeps DEF Accepted
<1> QED
  BY <1>5, <1>6, <1>7

\* Delete is back, and its error does not matter.
LEMMA RejectedInv ==
  ASSUME Inv, NEW j \in Jobs, SubmitRejected(j)
  PROVE  Inv'
<1> USE DEF Inv
<1>1. /\ spc[j] = "rollback" /\ Returned(j)
      /\ spc' = [spc EXCEPT ![j] = "done"] /\ reply' = reply
      /\ UNCHANGED <<hash, order, cpc, cjob, registryVars, workVars>>
      /\ UNCHANGED <<copies, held, idem, call, key, faults>>
  BY DEF SubmitRejected, SubmitGoto, cancelVars, queueVars, redisVars
<1>2. /\ call \in [Callers -> CallType] /\ j \in Callers /\ key[j] \in Keys
      /\ idem \in [Keys -> Jobs \cup {NoJob}] /\ key \in [Jobs -> Keys \cup {NoKey}]
      /\ copies \in [Jobs -> Nat] /\ faults \in 0..MaxFaults /\ Free(j)
      /\ reply[j].code \in {"queue_full", "enqueue_error"}
  BY <1>1, CallersAssumption
     DEF TypeOK, StoreTypeOK, CallType, Recorded, RolledBack, Replied
<1>3. /\ spc' \in [Jobs -> {"idle", "getkey", "init", "rollback", "done"}]
      /\ spc'[j] = "done" /\ reply'[j] = reply[j]
      /\ reply' \in [Jobs -> [code : {"none", "accepted", "idempotent"} \cup Rejections,
                              job : Jobs \cup {NoJob}]]
      /\ \A i \in Jobs \ {j} : spc'[i] = spc[i] /\ reply'[i] = reply[i]
  BY <1>1 DEF TypeOK
<1>4. Own(j)'
  BY <1>1, <1>2, <1>3
     DEF Own, InSet, Setting, Deleting, Returned, HasRecord, Accepted, Owner, Free
<1> QED
  BY <1>1, <1>2, <1>3, <1>4, SubmitKeeps DEF Accepted

\* No step of SubmitJob breaks the invariant.
LEMMA SubmitInv ==
  ASSUME Inv, NEW j \in Jobs, Submit(j)
  PROVE  Inv'
BY ReserveInv, GetKeyInv, StorageErrorInv, PushInv, RejectedInv DEF Submit

-----------------------------------------------------------------------------
(* CancelJob.                                                              *)

\* A cancel request that begins or ends has nothing to write yet, or any more.
LEMMA CancelInv ==
  ASSUME Inv, NEW c \in Cancellers,
         CancelSignal(c) \/ \E j \in Jobs : CancelBegin(c, j)
  PROVE  Inv'
<1> USE DEF Inv
<1>1. /\ StoreTypeOK /\ call \in [Callers -> CallType] /\ c \in Callers
      /\ cpc \in [Cancellers -> {"idle", "cancel", "done"}]
      /\ cjob \in [Cancellers -> Jobs \cup {NoJob}]
  BY CallersAssumption DEF TypeOK, StoreTypeOK, CallType
<1>2. /\ UNCHANGED <<hash, order, idem, faults, spc, key, reply, wpc, blobs, taken, early,
                     orphans, dropped, leased, lost, copies, held>>
      /\ cancels' = cancels
  BY DEF CancelSignal, CancelBegin, CancelContext, submitVars, workVars, leaseVars, queueVars,
         registryVars
<1>3. jobCtx' \in [Workers -> BOOLEAN]
  <2>1. jobCtx \in [Workers -> BOOLEAN]
    BY DEF TypeOK, RegistryTypeOK
  <2> QED
    BY <2>1, ZenonT(30) DEF CancelSignal, CancelBegin, CancelContext, registryVars
<1>4. /\ call' \in [Callers -> CallType] /\ ~InSet(c)' /\ call'[c].at \notin Deleting
      /\ \A q \in Callers \ {c} : call'[q] = call[q]
      /\ \/ cpc'[c] = "done" /\ Returned(c)'
         \/ /\ cpc'[c] = "cancel" /\ cjob'[c] \in Jobs
            /\ call'[c].at = "cancel.hgetall" /\ call'[c].job = cjob'[c]
      /\ cpc' \in [Cancellers -> {"idle", "cancel", "done"}]
      /\ cjob' \in [Cancellers -> Jobs \cup {NoJob}]
      /\ \A d \in Cancellers \ {c} : cpc'[d] = cpc[d] /\ cjob'[d] = cjob[d]
  <2>1. CASE CancelSignal(c)
    BY <1>1, <2>1, NoneTypes DEF CancelSignal, InSet, Setting, Deleting, Returned
  <2>2. ASSUME NEW j \in Jobs, CancelBegin(c, j)
        PROVE  <1>4!:
    <3>1. /\ Call(c, "cancel.hgetall", j, NoResult) /\ "cancel.hgetall" \in Commands
          /\ NoResult \in JobResult
      BY <2>2, NoneTypes DEF CancelBegin, Cancel, Commands
    <3>2. /\ call' \in [Callers -> CallType]
          /\ call'[c].at = "cancel.hgetall" /\ call'[c].job = j
          /\ \A q \in Callers \ {c} : call'[q] = call[q]
      BY <1>1, <3>1, Calling
    <3> QED
      BY <1>1, <2>2, <3>2 DEF CancelBegin, InSet, Setting, Deleting, Returned
  <2> QED
    BY <2>1, <2>2
<1>5. /\ SubmitCalls' /\ WorkCalls' /\ Unqueued' /\ OnRecord' /\ KeysOwned'
      /\ Replied' /\ RolledBack' /\ KeysFollowJobs' /\ Exclusive'
      /\ RegistryServesRender' /\ Moving'
  BY <1>2, <1>4, CancellerKeeps
<1>6. \A q \in Callers \ {c} : /\ Returned(q)' <=> Returned(q)
                               /\ InSet(q)' <=> InSet(q)
  BY <1>4 DEF Returned, InSet
<1>7. TypeOK'
  BY <1>2, <1>3, <1>4 DEF TypeOK, StoreTypeOK, RegistryTypeOK, CallType
<1>8. CancelCalls'
  BY <1>1, <1>4, <1>6, CallersAssumption DEF CancelCalls
<1>9. OtherCalls'
  BY <1>6 DEF OtherCalls
<1>10. Recorded'
  BY <1>2, <1>4, <1>6, CallersAssumption DEF Recorded
<1>11. Unwritten'
  <2>1. \A j \in Jobs : Fresh(j)' <=> Fresh(j)
    BY <1>2, <1>6, CallersAssumption, RolesAssumption DEF Fresh
  <2> QED
    BY <1>2, <1>4, <1>6, <2>1 DEF Unwritten
<1> QED
  BY <1>5, <1>7, <1>8, <1>9, <1>10, <1>11

-----------------------------------------------------------------------------
(* The workers.                                                            *)

\* What a worker is about to write is a record of a job that was pushed.
Writes(w, j) ==
  /\ call[w].job = j /\ spc[j] \in {"rollback", "done"}
  /\ call[w].arg.status # "none" /\ call[w].arg.key = key[j]

\* Calls of the workers alone concern no submission and no canceller.
LEMMA WorkersKeep ==
  ASSUME Inv, call' \in [Callers -> CallType],
         \A q \in Callers \ Workers : call'[q] = call[q],
         \A w \in Workers : \/ call'[w] = call[w] \/ Returned(w)'
                            \/ InSet(w)' /\ \E j \in Jobs : Writes(w, j)',
         faults > 0 => faults' > 0,
         UNCHANGED <<hash, order, idem, spc, key, reply, cpc, cjob>>
  PROVE  /\ SubmitCalls' /\ CancelCalls' /\ OtherCalls' /\ Recorded' /\ Unwritten'
         /\ OnRecord' /\ KeysOwned' /\ Replied' /\ RolledBack' /\ KeysFollowJobs'
<1> USE DEF Inv
<1>1. /\ \A j \in Jobs : call'[j] = call[j] /\ (Returned(j)' <=> Returned(j))
                         /\ (InSet(j)' <=> InSet(j))
      /\ \A c \in Cancellers : call'[c] = call[c] /\ (Returned(c)' <=> Returned(c))
                               /\ (InSet(c)' <=> InSet(c))
  BY RolesAssumption, CallersAssumption DEF Returned, InSet
<1>2. SubmitCalls' /\ CancelCalls'
  BY <1>1 DEF SubmitCalls, CancelCalls
<1>3. OtherCalls'
  BY DEF OtherCalls, Returned
<1>4. \A j \in Jobs : Fresh(j)' <=> Fresh(j)
  BY <1>1 DEF Fresh
<1>5. ASSUME NEW p \in Callers, InSet(p)'
      PROVE  \/ InSet(p) /\ call'[p] = call[p]
             \/ \E j \in Jobs : Writes(p, j)'
  BY <1>5 DEF InSet, Setting, Returned
<1>6. Recorded'
  <2>1. ASSUME NEW p \in Callers, InSet(p)'
        PROVE  call'[p].arg.status # "none" /\ call'[p].arg.key = key[call'[p].job]
    BY <1>5, <2>1 DEF Writes, Recorded
  <2> QED
    BY <1>1, <2>1 DEF Recorded
<1>7. Unwritten'
  <2>1. ASSUME NEW p \in Callers, InSet(p)', NEW j \in Jobs, Fresh(j), call'[p].job = j
        PROVE  p = j
    <3>1. CASE InSet(p) /\ call'[p] = call[p]
      BY <2>1, <3>1 DEF Unwritten
    <3>2. CASE \E i \in Jobs : Writes(p, i)'
      BY <2>1, <3>2 DEF Writes, Fresh
    <3> QED
      BY <1>5, <2>1, <3>1, <3>2
  <2> QED
    BY <1>4, <2>1 DEF Unwritten
<1>8. OnRecord'
  BY <1>1 DEF OnRecord, HasRecord, Accepted
<1>9. KeysOwned'
  BY <1>1 DEF KeysOwned, Owner, Accepted
<1>10. RolledBack'
  BY <1>1 DEF RolledBack, Free
<1>11. KeysFollowJobs' /\ Replied'
  BY DEF KeysFollowJobs, Replied
<1> QED
  BY <1>2, <1>3, <1>6, <1>7, <1>8, <1>9, <1>10, <1>11

\* A step of a worker with a job in hand: it keeps the job, and gives up on it
\* only when the record is terminal or the job counts as dropped.
LEMMA BusyKeeps ==
  ASSUME Inv, NEW w \in Workers, NEW job \in Jobs, held[w] = job,
         UNCHANGED <<hash, order, idem, spc, key, reply, cpc, cjob, early, orphans, lost,
                     copies, held>>,
         leased' \subseteq Workers, taken' \in [Jobs -> 0..2],
         \A j \in Jobs \ {job} : taken'[j] = taken[j],
         call' \in [Callers -> CallType], \A q \in Callers \ {w} : call'[q] = call[q],
         wpc' \in [Workers -> WorkerStates], \A v \in Workers \ {w} : wpc'[v] = wpc[v],
         wpc'[w] # "pop",
         wpc'[w] \notin {"mark", "write"} => call'[w] = NoCall,
         Returned(w)' \/ (InSet(w)' /\ Writes(w, job)'),
         InSet(w)' /\ wpc'[w] = "write" => call'[w].arg.status \in Terminal,
         faults' \in 0..MaxFaults, faults > 0 => faults' > 0,
         blobs' \subseteq Jobs, dropped' \subseteq Jobs, dropped \subseteq dropped',
         RegistryTypeOK', RegistryServesRender',
         Active(w, job) => \/ hash[job].status \in Terminal
                           \/ job \in dropped' \/ Active(w, job)'
  PROVE  Inv'
<1> USE DEF Inv
<1>1. \A q \in Callers \ {w} : (Returned(q)' <=> Returned(q)) /\ (InSet(q)' <=> InSet(q))
  BY DEF Returned, InSet
<1>2. /\ SubmitCalls' /\ CancelCalls' /\ OtherCalls' /\ Recorded' /\ Unwritten'
      /\ OnRecord' /\ KeysOwned' /\ Replied' /\ RolledBack' /\ KeysFollowJobs'
  <2>1. \A v \in Workers : \/ call'[v] = call[v] \/ Returned(v)'
                           \/ InSet(v)' /\ \E j \in Jobs : Writes(v, j)'
    BY CallersAssumption
  <2> QED
    BY <2>1, WorkersKeep
<1>3. TypeOK'
  BY DEF TypeOK, StoreTypeOK, CallType
<1>4. WorkCalls'
  <2>1. ASSUME NEW v \in Workers, v # w
        PROVE  /\ wpc'[v] \notin {"mark", "write"} => call'[v] = NoCall
               /\ Returned(v)' \/ InSet(v)'
               /\ ~Returned(v)' => call'[v].job = held'[v]
               /\ InSet(v)' /\ wpc'[v] = "write" => call'[v].arg.status \in Terminal
               /\ wpc'[v] = "pop" <=> held'[v] = NoJob
    BY <1>1, <2>1, CallersAssumption DEF WorkCalls
  <2>2. ~Returned(w)' => call'[w].job = held'[w]
    BY DEF Writes
  <2>3. held'[w] # NoJob
    BY NoJobAssumption
  <2> QED
    BY <2>1, <2>2, <2>3 DEF WorkCalls
<1>5. Unqueued' /\ Exclusive'
  BY DEF Unqueued, Exclusive
<1>6. Moving'
  <2> SUFFICES ASSUME NEW j \in Jobs, Accepted(j)
               PROVE  \/ hash[j].status \in Terminal
                      \/ copies[j] > 0 \/ j \in orphans \/ j \in lost \/ j \in dropped'
                      \/ \E v \in Workers : Active(v, j)'
    BY DEF Moving, Accepted
  <2>1. \A v \in Workers \ {w} : Active(v, j)' <=> Active(v, j)
    BY <1>1, CallersAssumption DEF Active
  <2>2. Active(w, j) => j = job
    BY DEF Active
  <2> QED
    BY <2>1, <2>2 DEF Moving
<1> QED
  BY <1>2, <1>3, <1>4, <1>5, <1>6

\* A worker that goes on from a state in which it holds a job.
LEMMA GoingTo ==
  ASSUME Inv, NEW w \in Workers, NEW from \in WorkerStates \ {"pop"},
         NEW to \in WorkerStates, WorkerGoto(w, from, to)
  PROVE  /\ wpc[w] = from /\ Returned(w)
         /\ wpc' \in [Workers -> WorkerStates] /\ wpc'[w] = to
         /\ \A v \in Workers \ {w} : wpc'[v] = wpc[v]
         /\ w \in Callers /\ StoreTypeOK /\ call \in [Callers -> CallType]
         /\ held[w] \in Jobs /\ spc[held[w]] \in {"rollback", "done"}
         /\ key[held[w]] \in Keys
         /\ from \notin {"mark", "write"} => call[w] = NoCall
<1>1. /\ wpc[w] = from /\ Returned(w)
      /\ wpc' \in [Workers -> WorkerStates] /\ wpc'[w] = to
      /\ \A v \in Workers \ {w} : wpc'[v] = wpc[v]
  BY DEF WorkerGoto, Inv, TypeOK
<1>2. /\ w \in Callers /\ StoreTypeOK /\ call \in [Callers -> CallType]
      /\ from \notin {"mark", "write"} => call[w] = NoCall
  BY <1>1, CallersAssumption DEF Inv, TypeOK, StoreTypeOK, CallType, WorkCalls
<1>3. held[w] \in Jobs
  BY <1>1 DEF Inv, WorkCalls, TypeOK
<1>4. spc[held[w]] \in {"rollback", "done"}
  BY <1>3 DEF Inv, Unqueued, TypeOK
<1>5. key[held[w]] \in Keys
  BY <1>3, <1>4 DEF Inv, Recorded
<1> QED
  BY <1>1, <1>2, <1>3, <1>4, <1>5

\* Write calls Set with a record of the worker's job.
LEMMA Writing ==
  ASSUME Inv, NEW w \in Workers, NEW job \in Jobs, held[w] = job, key[job] \in Keys,
         spc[job] \in {"rollback", "done"}, UNCHANGED <<spc, key>>,
         NEW status \in Status \ {"none"}, NEW error \in Errors,
         NEW pdfKey \in Jobs \cup {NoJob}, Write(w, status, error, pdfKey)
  PROVE  /\ call' \in [Callers -> CallType]
         /\ \A q \in Callers \ {w} : call'[q] = call[q]
         /\ InSet(w)' /\ ~Returned(w)' /\ Writes(w, job)' /\ call'[w].arg.status = status
         /\ call'[w].arg.pdfKey = pdfKey
<1>1. PICK r \in JobResult : r = Record(job, status, error, pdfKey, key[job])
  BY DEF Record, NewResult, JobResult
<1>2. r.status = status /\ r.key = key[job] /\ r.pdfKey = pdfKey
  BY <1>1 DEF Record, NewResult
<1>3. Call(w, "set.hgetall", job, r) /\ "set.hgetall" \in Commands
  BY <1>1 DEF Write, Set, Commands
<1>4. StoreTypeOK /\ w \in Callers
  BY CallersAssumption DEF Inv, TypeOK
<1>5. /\ call' \in [Callers -> CallType]
      /\ call'[w].at = "set.hgetall" /\ call'[w].job = job /\ call'[w].arg = r
      /\ \A q \in Callers \ {w} : call'[q] = call[q]
  BY <1>3, <1>4, Calling
<1> QED
  BY <1>2, <1>5 DEF InSet, Setting, Returned, Writes

\* Only a record that says so is taken for canceled.
LEMMA Canceled ==
  ASSUME NEW w \in Workers, NEW job \in Jobs, held[w] = job, NEW o, IsCanceled(w, o)
  PROVE  hash[job].status = "canceled" /\ o = "ok"
BY NoneTypes DEF IsCanceled, Get

\* The registry, as long as a worker stays in its render, or out of it.
LEMMA RegistryKept ==
  ASSUME Inv, UNCHANGED <<cancels, jobCtx, held, early>>,
         NEW w \in Workers, InRender(w)' <=> InRender(w),
         \A v \in Workers \ {w} : wpc'[v] = wpc[v]
  PROVE  RegistryTypeOK' /\ RegistryServesRender'
<1>1. \A v \in Workers : InRender(v)' <=> InRender(v)
  BY DEF InRender
<1> QED
  BY <1>1 DEF Inv, TypeOK, RegistryTypeOK, RegistryServesRender

\* The look at the record before the job is marked.
LEMMA CheckInv ==
  ASSUME Inv, NEW w \in Workers, Check(w)
  PROVE  Inv'
<1>1. PICK o \in Outcomes :
        /\ WorkerGoto(w, "check", IF IsCanceled(w, o) THEN "ack" ELSE "mark")
        /\ IF IsCanceled(w, o) THEN UNCHANGED call ELSE Write(w, "processing", "", NoJob)
        /\ Count(o)
  BY DEF Check
<1>2. PICK to \in {"ack", "mark"} :
        /\ WorkerGoto(w, "check", to) /\ (to = "ack" <=> IsCanceled(w, o))
        /\ to \in WorkerStates /\ "check" \in WorkerStates \ {"pop"}
  BY <1>1 DEF WorkerStates
<1>3. /\ wpc[w] = "check" /\ wpc' \in [Workers -> WorkerStates] /\ wpc'[w] = to
      /\ \A v \in Workers \ {w} : wpc'[v] = wpc[v]
      /\ w \in Callers /\ StoreTypeOK /\ call \in [Callers -> CallType]
      /\ held[w] \in Jobs /\ spc[held[w]] \in {"rollback", "done"}
      /\ key[held[w]] \in Keys /\ call[w] = NoCall
  BY <1>2, GoingTo
<1>4. PICK job \in Jobs : job = held[w]
  BY <1>3
<1>5. /\ UNCHANGED <<hash, order, idem, spc, key, reply, cpc, cjob, taken, early, orphans,
                     leased, lost, copies, held, cancels, jobCtx>>
      /\ blobs' = blobs /\ dropped' = dropped
      /\ blobs \subseteq Jobs /\ dropped \subseteq Jobs
      /\ leased \subseteq Workers /\ taken \in [Jobs -> 0..2]
  BY DEF Check, leaseVars, registryVars, submitVars, cancelVars, queueVars, Inv, TypeOK
<1>6. faults' \in 0..MaxFaults /\ (faults > 0 => faults' > 0)
  BY <1>1, <1>3, CountUp
<1>7. RegistryTypeOK' /\ RegistryServesRender'
  <2>1. InRender(w)' <=> InRender(w)
    BY <1>3 DEF InRender
  <2> QED
    BY <1>3, <1>5, <2>1, RegistryKept
<1>8. CASE IsCanceled(w, o)
  <2>1. call' = call /\ to = "ack" /\ Returned(w)' /\ ~InSet(w)'
    BY <1>1, <1>2, <1>3, <1>8, NoneTypes DEF Returned, InSet, Setting
  <2>2. hash[job].status \in Terminal
    BY <1>4, <1>8, Canceled DEF Terminal
  <2> QED
    BY <1>3, <1>4, <1>5, <1>6, <1>7, <2>1, <2>2, BusyKeeps
<1>9. CASE ~IsCanceled(w, o)
  <2>1. /\ to = "mark" /\ Write(w, "processing", "", NoJob)
        /\ "processing" \in Status \ {"none"} /\ "" \in Errors
    BY <1>1, <1>2, <1>9 DEF Status, Errors
  <2>2. /\ call' \in [Callers -> CallType]
        /\ \A q \in Callers \ {w} : call'[q] = call[q]
        /\ InSet(w)' /\ Writes(w, job)'
    BY <1>3, <1>4, <1>5, <2>1, Writing
  <2>3. Active(w, job)'
    BY <1>3, <1>4, <1>5, <2>1 DEF Active
  <2> QED
    BY <1>3, <1>4, <1>5, <1>6, <1>7, <2>1, <2>2, <2>3, BusyKeeps
<1> QED
  BY <1>8, <1>9

\* The render, its end, and the look at the record after it.
LEMMA RenderInv ==
  ASSUME Inv, NEW w \in Workers, Render(w) \/ OkCheck(w) \/ ErrCheck(w) \/ Put(w)
  PROVE  Inv'
<1>1. \E from \in {"render", "okcheck", "errcheck", "put"},
         to \in {"okcheck", "errcheck", "put", "write"} : WorkerGoto(w, from, to)
  <2>1. CASE Render(w)
    BY <2>1 DEF Render
  <2>2. CASE OkCheck(w)
    <3>1. PICK o \in Outcomes :
            WorkerGoto(w, "okcheck", IF IsCanceled(w, o) THEN "write" ELSE "put")
      BY <2>2 DEF OkCheck
    <3>2. WorkerGoto(w, "okcheck", "write") \/ WorkerGoto(w, "okcheck", "put")
      BY <3>1
    <3> QED
      BY <3>2
  <2>3. CASE ErrCheck(w)
    BY <2>3 DEF ErrCheck
  <2>4. CASE Put(w)
    BY <2>4 DEF Put
  <2> QED
    BY <2>1, <2>2, <2>3, <2>4
<1>2. PICK from \in {"render", "okcheck", "errcheck", "put"},
           to \in {"okcheck", "errcheck", "put", "write"} : WorkerGoto(w, from, to)
  BY <1>1
<1>3. /\ wpc[w] = from /\ wpc' \in [Workers -> WorkerStates] /\ wpc'[w] = to
      /\ \A v \in Workers \ {w} : wpc'[v] = wpc[v]
      /\ w \in Callers /\ StoreTypeOK /\ call \in [Callers -> CallType]
      /\ held[w] \in Jobs /\ spc[held[w]] \in {"rollback", "done"}
      /\ key[held[w]] \in Keys /\ call[w] = NoCall
  <2>1. from \in WorkerStates \ {"pop"} /\ to \in WorkerStates
    BY DEF WorkerStates
  <2> QED
    BY <1>2, <2>1, GoingTo
<1>4. PICK job \in Jobs : job = held[w]
  BY <1>3
<1>5. /\ UNCHANGED <<hash, order, idem, spc, key, reply, cpc, cjob, taken, early, orphans,
                     leased, lost, copies, held, cancels, jobCtx>>
      /\ dropped' = dropped /\ dropped \subseteq Jobs
      /\ leased \subseteq Workers /\ taken \in [Jobs -> 0..2]
  BY DEF Render, OkCheck, ErrCheck, Put, registryVars, submitVars, cancelVars, queueVars,
         leaseVars,
         redisVars, Inv, TypeOK
<1>6. faults' \in 0..MaxFaults /\ (faults > 0 => faults' > 0)
  <2>1. \/ faults' = faults
        \/ \E o \in Outcomes : Count(o)
    BY DEF Render, OkCheck, ErrCheck, Put, redisVars
  <2>2. faults \in 0..MaxFaults
    BY <1>3 DEF StoreTypeOK
  <2> QED
    BY <1>3, <2>1, <2>2, CountUp
<1>7. blobs' \subseteq Jobs
  <2>1. blobs \subseteq Jobs
    BY DEF Inv, TypeOK
  <2> QED
    BY <1>3, <2>1 DEF Render, OkCheck, ErrCheck, Put
<1>8. RegistryTypeOK' /\ RegistryServesRender'
  <2>1. InRender(w)' <=> InRender(w)
    BY <1>3 DEF InRender
  <2> QED
    BY <1>3, <1>5, <2>1, RegistryKept
<1>9. \/ call' = call /\ (to # "write" \/ hash[job].status \in Terminal)
      \/ to = "write" /\ \E status \in Terminal, error \in Errors, pdfKey \in Jobs \cup {NoJob} :
           Write(w, status, error, pdfKey)
  <2>1. CASE Render(w)
    BY <1>3, <2>1 DEF Render, WorkerGoto, redisVars
  <2>2. CASE OkCheck(w)
    <3>1. PICK o \in Outcomes :
            WorkerGoto(w, "okcheck", IF IsCanceled(w, o) THEN "write" ELSE "put")
      BY <2>2 DEF OkCheck
    <3>2. wpc'[w] = IF IsCanceled(w, o) THEN "write" ELSE "put"
      BY <3>1 DEF WorkerGoto, Inv, TypeOK
    <3>3. IsCanceled(w, o) => hash[job].status \in Terminal
      BY <1>4, Canceled DEF Terminal
    <3> QED
      BY <1>3, <2>2, <3>2, <3>3 DEF OkCheck
  <2>3. CASE ErrCheck(w)
    <3>1. PICK o \in Outcomes :
            /\ WorkerGoto(w, "errcheck", "write")
            /\ IF IsCanceled(w, o) THEN UNCHANGED call
                                   ELSE Write(w, "failed", "render", NoJob)
      BY <2>3 DEF ErrCheck
    <3>2. to = "write"
      BY <1>3, <3>1 DEF WorkerGoto, Inv, TypeOK
    <3>3. IsCanceled(w, o) => hash[job].status \in Terminal
      BY <1>4, Canceled DEF Terminal
    <3>4. "failed" \in Terminal /\ "render" \in Errors
      BY DEF Terminal, Errors
    <3> QED
      BY <3>1, <3>2, <3>3, <3>4
  <2>4. CASE Put(w)
    <3>1. to = "write"
      BY <1>3, <2>4 DEF Put, WorkerGoto, Inv, TypeOK
    <3>2. Write(w, "completed", "", held[w]) \/ Write(w, "failed", "blob", NoJob)
      BY <2>4 DEF Put
    <3>3. /\ {"completed", "failed"} \subseteq Terminal /\ {"", "blob"} \subseteq Errors
      BY DEF Terminal, Errors
    <3> QED
      BY <1>3, <3>1, <3>2, <3>3
  <2> QED
    BY <2>1, <2>2, <2>3, <2>4
<1>10. CASE call' = call /\ (to # "write" \/ hash[job].status \in Terminal)
  <2>1. Returned(w)' /\ ~InSet(w)'
    BY <1>3, <1>10, NoneTypes DEF Returned, InSet, Setting
  <2>2. to # "write" => Active(w, job)'
    BY <1>3, <1>4, <1>5 DEF Active
  <2> QED
    BY <1>3, <1>4, <1>5, <1>6, <1>7, <1>8, <1>10, <2>1, <2>2, BusyKeeps
<1>11. ASSUME to = "write", NEW status \in Terminal, NEW error \in Errors,
              NEW pdfKey \in Jobs \cup {NoJob}, Write(w, status, error, pdfKey)
       PROVE  Inv'
  <2>1. status \in Status \ {"none"}
    BY DEF Status, Terminal
  <2>2. /\ call' \in [Callers -> CallType]
        /\ \A q \in Callers \ {w} : call'[q] = call[q]
        /\ InSet(w)' /\ ~Returned(w)' /\ Writes(w, job)' /\ call'[w].arg.status = status
    BY <1>3, <1>4, <1>5, <1>11, <2>1, Writing
  <2>3. Active(w, job)'
    BY <1>3, <1>4, <1>5, <1>11, <2>2 DEF Active
  <2> QED
    BY <1>3, <1>4, <1>5, <1>6, <1>7, <1>8, <1>11, <2>2, <2>3, BusyKeeps
<1> QED
  BY <1>9, <1>10, <1>11

\* The registry when a render begins or ends: an entry it overwrites or
\* removes belonged to another delivery of the same job.
LEMMA RegistryChanges ==
  ASSUME Inv, NEW w \in Workers, NEW job \in Jobs, held[w] = job,
         \A v \in Workers \ {w} : wpc'[v] = wpc[v], UNCHANGED <<held, early>>,
         \/ Register(job, w) /\ InRender(w)'
         \/ Unregister(job, w) /\ ~InRender(w)'
  PROVE  RegistryTypeOK' /\ RegistryServesRender'
<1> USE DEF Inv
<1>1. PICK entry \in Workers \cup {NoWorker} :
        /\ cancels' = [cancels EXCEPT ![job] = entry]
        /\ jobCtx' = [jobCtx EXCEPT ![w] = FALSE]
        /\ \/ entry = w /\ InRender(w)'
           \/ entry = NoWorker /\ ~InRender(w)'
  BY DEF Register, Unregister
<1>2. RegistryTypeOK'
  <2>1. cancels \in [Jobs -> Workers \cup {NoWorker}] /\ jobCtx \in [Workers -> BOOLEAN]
    BY DEF TypeOK, RegistryTypeOK
  <2>2. cancels' \in [Jobs -> Workers \cup {NoWorker}]
    BY <1>1, <2>1
  <2>3. jobCtx' \in [Workers -> BOOLEAN]
    BY <1>1, <2>1
  <2> QED
    BY <2>2, <2>3 DEF RegistryTypeOK
<1>3. cancels'[job] = entry /\ \A j \in Jobs \ {job} : cancels'[j] = cancels[j]
  BY <1>1 DEF TypeOK, RegistryTypeOK
<1>4. \A v \in Workers \ {w} : InRender(v)' <=> InRender(v)
  BY DEF InRender
<1>5. ASSUME NEW j \in Jobs, NEW v \in Workers, cancels'[j] = v
      PROVE  held[v] = j /\ InRender(v)'
  <2>1. CASE j = job
    BY <1>1, <1>3, <1>5, <2>1, NoWorkerAssumption
  <2>2. CASE j # job
    <3>1. cancels[j] = v
      BY <1>3, <1>5, <2>2
    <3>2. held[v] = j /\ InRender(v)
      BY <3>1 DEF RegistryServesRender
    <3> QED
      BY <1>4, <2>2, <3>2
  <2> QED
    BY <2>1, <2>2
<1>6. ASSUME NEW v \in Workers, InRender(v)', cancels'[held[v]] # v
      PROVE  held[v] \in early
  <2>1. v # w
    BY <1>1, <1>3, <1>6
  <2>2. CASE held[v] = job
    BY <2>1, <2>2 DEF Exclusive
  <2>3. CASE held[v] # job
    <3>1. held[v] \in Jobs
      <4>1. wpc[v] # "pop"
        BY <1>4, <1>6, <2>1 DEF InRender
      <4> QED
        BY <4>1 DEF WorkCalls, TypeOK
    <3>2. cancels[held[v]] # v /\ InRender(v)
      BY <1>3, <1>4, <1>6, <2>1, <2>3, <3>1
    <3> QED
      BY <3>2 DEF RegistryServesRender
  <2> QED
    BY <2>2, <2>3
<1> QED
  BY <1>2, <1>5, <1>6 DEF RegistryServesRender

\* The render begins or ends, and what Set returned is ignored; the model
\* remembers the job as dropped when that was an error.
LEMMA RegisterInv ==
  ASSUME Inv, NEW w \in Workers, RegisterJob(w) \/ Finish(w)
  PROVE  Inv'
<1>1. PICK from \in {"mark", "write"}, to \in {"render", "ack"} :
        /\ WorkerGoto(w, from, to)
        /\ from = "mark" => to = "render" /\ Register(held[w], w)
        /\ from = "write" => to = "ack" /\ Unregister(held[w], w)
  BY DEF RegisterJob, Finish
<1>2. /\ wpc[w] = from /\ wpc' \in [Workers -> WorkerStates] /\ wpc'[w] = to
      /\ \A v \in Workers \ {w} : wpc'[v] = wpc[v]
      /\ Returned(w)
      /\ w \in Callers /\ StoreTypeOK /\ call \in [Callers -> CallType]
      /\ held[w] \in Jobs /\ spc[held[w]] \in {"rollback", "done"}
      /\ key[held[w]] \in Keys
  <2>1. from \in WorkerStates \ {"pop"} /\ to \in WorkerStates
    BY DEF WorkerStates
  <2> QED
    BY <1>1, <2>1, GoingTo
<1>3. PICK job \in Jobs : job = held[w]
  BY <1>2
<1>4. /\ UNCHANGED <<hash, order, idem, spc, key, reply, cpc, cjob, taken, early, orphans,
                     leased, lost, copies, held, faults, blobs>>
      /\ blobs \subseteq Jobs /\ dropped \subseteq Jobs /\ faults \in 0..MaxFaults
      /\ leased \subseteq Workers /\ taken \in [Jobs -> 0..2]
  BY DEF RegisterJob, Finish, leaseVars, submitVars, cancelVars, queueVars, Inv, TypeOK, StoreTypeOK
<1>5. /\ dropped' = IF call[w].err THEN dropped \cup {job} ELSE dropped
      /\ call' = [call EXCEPT ![w] = NoCall]
  BY <1>3 DEF RegisterJob, Finish, Ignore
<1>6. /\ call' \in [Callers -> CallType] /\ call'[w] = NoCall
      /\ \A q \in Callers \ {w} : call'[q] = call[q]
      /\ Returned(w)' /\ ~InSet(w)'
  BY <1>2, <1>5, NoneTypes DEF Returned, InSet, Setting
<1>7. /\ dropped' \subseteq Jobs /\ dropped \subseteq dropped'
      /\ call[w].err => job \in dropped'
  BY <1>4, <1>5
<1>8. RegistryTypeOK' /\ RegistryServesRender'
  <2>1. InRender(w)' <=> to = "render"
    BY <1>2 DEF InRender
  <2>2. \/ Register(job, w) /\ InRender(w)'
        \/ Unregister(job, w) /\ ~InRender(w)'
    BY <1>1, <1>3, <2>1
  <2> QED
    BY <1>2, <1>3, <1>4, <2>2, RegistryChanges
<1>9. Active(w, job) => job \in dropped' \/ Active(w, job)'
  <2>1. CASE from = "mark"
    BY <1>1, <1>2, <1>3, <1>4, <2>1 DEF Active
  <2>2. CASE from = "write"
    BY <1>2, <1>7, <2>2 DEF Active
  <2> QED
    BY <2>1, <2>2
<1> QED
  BY <1>1, <1>2, <1>3, <1>4, <1>6, <1>7, <1>8, <1>9, BusyKeeps

-----------------------------------------------------------------------------
(* Deliveries: what moves a job between the queue, the workers and the     *)
(* leases that a crash left behind.                                        *)

\* BRPOP takes the copy of a job to a worker without one.
LEMMA TakeInv ==
  ASSUME Inv, NEW w \in Workers, NEW job \in Jobs, Queue!Take(w, job),
         WorkerGoto(w, "pop", "lease"),
         UNCHANGED <<hash, order, idem, call, faults, cancels, jobCtx, spc, key, reply,
                     cpc, cjob, blobs, dropped, leased, taken, early, orphans, lost>>
  PROVE  Inv'
<1> USE DEF Inv
<1>2. /\ held[w] = NoJob /\ copies[job] > 0
      /\ copies' = [copies EXCEPT ![job] = @ - 1]
      /\ held' = [held EXCEPT ![w] = job]
  BY DEF Queue!Take
<1>3. /\ wpc[w] = "pop" /\ Returned(w) /\ wpc' = [wpc EXCEPT ![w] = "lease"]
  BY DEF WorkerGoto
<1>4. /\ copies \in [Jobs -> Nat] /\ held \in [Workers -> Jobs \cup {NoJob}]
      /\ wpc \in [Workers -> WorkerStates] /\ call \in [Callers -> CallType]
  BY DEF TypeOK, StoreTypeOK, CallType
<1>5. /\ copies' \in [Jobs -> Nat] /\ copies'[job] = copies[job] - 1
      /\ \A j \in Jobs \ {job} : copies'[j] = copies[j]
  BY <1>2, <1>4
<1>6. /\ held' \in [Workers -> Jobs \cup {NoJob}] /\ held'[w] = job
      /\ \A v \in Workers \ {w} : held'[v] = held[v]
      /\ wpc' \in [Workers -> WorkerStates] /\ wpc'[w] = "lease"
      /\ \A v \in Workers \ {w} : wpc'[v] = wpc[v]
  BY <1>2, <1>3, <1>4 DEF WorkerStates
<1>7. spc[job] \notin {"idle", "getkey", "init"}
  BY <1>2 DEF Unqueued
<1>8. /\ SubmitCalls' /\ CancelCalls' /\ OtherCalls' /\ Recorded' /\ Unwritten'
      /\ OnRecord' /\ KeysOwned' /\ Replied' /\ RolledBack' /\ KeysFollowJobs'
  BY <1>4, WorkersKeep
<1>9. TypeOK'
  BY <1>4, <1>5, <1>6 DEF TypeOK, StoreTypeOK, RegistryTypeOK
<1>10. WorkCalls'
  <2>1. call[w] = NoCall
    BY <1>3 DEF WorkCalls
  <2>2. \A v \in Workers : (Returned(v)' <=> Returned(v)) /\ (InSet(v)' <=> InSet(v))
    BY DEF Returned, InSet
  <2> QED
    BY <1>3, <1>6, <2>1, <2>2, NoJobAssumption DEF WorkCalls
<1>11. Unqueued'
  BY <1>5, <1>6, <1>7 DEF Unqueued
<1>12. Exclusive'
  <2>1. ASSUME NEW j \in Jobs \ early
        PROVE  /\ copies'[j] <= 1
               /\ copies'[j] > 0 => j \notin orphans /\ \A v \in Workers : held'[v] # j
               /\ j \in orphans => \A v \in Workers : held'[v] # j
               /\ \A u, v \in Workers : held'[u] = j /\ held'[v] = j => u = v
    <3>1. CASE j = job
      <4>1. copies[j] = 1 /\ j \notin orphans /\ \A v \in Workers : held[v] # j
        BY <1>2, <1>4, <3>1 DEF Exclusive
      <4> QED
        BY <1>5, <1>6, <3>1, <4>1
    <3>2. CASE j # job
      BY <1>5, <1>6, <3>2 DEF Exclusive
    <3> QED
      BY <3>1, <3>2
  <2> QED
    BY <2>1 DEF Exclusive
<1>13. RegistryServesRender'
  <2>1. \A j \in Jobs : cancels[j] # w
    BY <1>2, NoJobAssumption DEF RegistryServesRender
  <2>2. ~InRender(w)' /\ \A v \in Workers \ {w} : InRender(v)' <=> InRender(v)
    BY <1>6 DEF InRender
  <2> QED
    BY <1>6, <2>1, <2>2 DEF RegistryServesRender
<1>14. Moving'
  <2> SUFFICES ASSUME NEW j \in Jobs, Accepted(j)
               PROVE  \/ hash[j].status \in Terminal
                      \/ copies'[j] > 0 \/ j \in orphans \/ j \in lost \/ j \in dropped
                      \/ \E v \in Workers : Active(v, j)'
    BY DEF Moving, Accepted
  <2>1. CASE j = job
    <3>1. Active(w, j)'
      BY <1>6, <2>1 DEF Active
    <3> QED
      BY <3>1
  <2>2. CASE j # job
    <3>1. \A v \in Workers : Active(v, j) => Active(v, j)'
      BY <1>2, <1>3, <1>6, NoJobAssumption DEF Active, Returned
    <3> QED
      BY <1>5, <2>2, <3>1 DEF Moving
  <2> QED
    BY <2>1, <2>2
<1> QED
  BY <1>8, <1>9, <1>10, <1>11, <1>12, <1>13, <1>14

\* A delivery, or a copy that is lost on its way.
LEMMA BrpopInv ==
  ASSUME Inv, NEW w \in Workers, Brpop(w)
  PROVE  Inv'
<1> USE DEF Inv
<1>1. PICK job \in Jobs, o \in Outcomes \ {"refused"} :
        /\ Count(o)
        /\ IF o = "ok"
             THEN WorkerGoto(w, "pop", "lease") /\ Queue!Take(w, job) /\ UNCHANGED lost
             ELSE Queue!Lose(job) /\ lost' = lost \cup {job} /\ UNCHANGED wpc
  BY DEF Brpop
<1>2. UNCHANGED <<hash, order, idem, call, cancels, jobCtx, spc, key, reply,
                  cpc, cjob, blobs, dropped, leased, taken, early, orphans>>
  BY DEF Brpop, registryVars, submitVars, cancelVars
<1>3. /\ o = "ok" => faults' = faults
      /\ faults' \in 0..MaxFaults /\ (faults > 0 => faults' > 0)
  BY <1>1, CountUp DEF TypeOK
<1>4. CASE o = "ok"
  BY <1>1, <1>2, <1>3, <1>4, TakeInv
<1>5. CASE o # "ok"
  <2>1. /\ copies[job] > 0 /\ copies' = [copies EXCEPT ![job] = @ - 1] /\ held' = held
        /\ wpc' = wpc /\ lost' = lost \cup {job}
    BY <1>1, <1>5 DEF Queue!Lose
  <2>2. copies \in [Jobs -> Nat] /\ call \in [Callers -> CallType] /\ lost \subseteq Jobs
    BY DEF TypeOK, StoreTypeOK, CallType
  <2>3. /\ copies' \in [Jobs -> Nat] /\ copies'[job] = copies[job] - 1
        /\ \A j \in Jobs \ {job} : copies'[j] = copies[j]
    BY <2>1, <2>2
  <2>4. /\ SubmitCalls' /\ CancelCalls' /\ OtherCalls' /\ Recorded' /\ Unwritten'
        /\ OnRecord' /\ KeysOwned' /\ Replied' /\ RolledBack' /\ KeysFollowJobs'
    BY <1>2, <1>3, <2>2, WorkersKeep
  <2>5. TypeOK'
    BY <1>2, <1>3, <2>1, <2>2, <2>3 DEF TypeOK, StoreTypeOK, RegistryTypeOK
  <2>6. WorkCalls' /\ RegistryServesRender'
    BY <1>2, <2>1 DEF WorkCalls, Returned, InSet, RegistryServesRender, InRender
  <2>7. Unqueued'
    BY <1>2, <2>1, <2>3 DEF Unqueued
  <2>8. Exclusive'
    <3>1. \A j \in Jobs : copies'[j] <= copies[j]
      BY <2>2, <2>3
    <3> QED
      BY <1>2, <2>1, <2>2, <2>3, <3>1 DEF Exclusive
  <2>9. Moving'
    <3>1. \A v \in Workers, j \in Jobs : Active(v, j)' <=> Active(v, j)
      BY <1>2, <2>1 DEF Active, Returned
    <3> QED
      BY <1>2, <2>1, <2>3, <3>1 DEF Moving, Accepted
  <2> QED
    BY <2>4, <2>5, <2>6, <2>7, <2>8, <2>9
<1> QED
  BY <1>4, <1>5

\* The lease is written or not; the worker keeps the job either way.
LEMMA ZaddInv ==
  ASSUME Inv, NEW w \in Workers, Zadd(w)
  PROVE  Inv'
<1>1. PICK o \in Outcomes :
        /\ WorkerGoto(w, "lease", IF o = "ok" THEN "check" ELSE "putback")
        /\ IF o = "refused"
             THEN UNCHANGED <<leased, taken>>
             ELSE /\ leased' = leased \cup {w}
                  /\ taken' = [taken EXCEPT ![held[w]] = IF @ = 0 THEN 1 ELSE 2]
        /\ Count(o)
  BY DEF Zadd
<1>2. PICK to \in {"check", "putback"} :
        /\ WorkerGoto(w, "lease", to)
        /\ to \in WorkerStates /\ "lease" \in WorkerStates \ {"pop"}
  BY <1>1 DEF WorkerStates
<1>3. /\ wpc[w] = "lease" /\ wpc' \in [Workers -> WorkerStates] /\ wpc'[w] = to
      /\ \A v \in Workers \ {w} : wpc'[v] = wpc[v]
      /\ w \in Callers /\ StoreTypeOK /\ call \in [Callers -> CallType]
      /\ held[w] \in Jobs /\ call[w] = NoCall
  BY <1>2, GoingTo
<1>4. PICK job \in Jobs : job = held[w]
  BY <1>3
<1>5. /\ UNCHANGED <<hash, order, idem, call, spc, key, reply, cpc, cjob, early, orphans,
                     lost, copies, held, cancels, jobCtx, blobs, dropped>>
      /\ blobs \subseteq Jobs /\ dropped \subseteq Jobs
      /\ leased \subseteq Workers /\ taken \in [Jobs -> 0..2]
  BY DEF Zadd, registryVars, submitVars, cancelVars, queueVars, Inv, TypeOK
<1>6. faults' \in 0..MaxFaults /\ (faults > 0 => faults' > 0)
  BY <1>1, <1>3, CountUp
<1>7. /\ leased' \subseteq Workers /\ taken' \in [Jobs -> 0..2]
      /\ \A j \in Jobs \ {job} : taken'[j] = taken[j]
  BY <1>1, <1>4, <1>5
<1>8. RegistryTypeOK' /\ RegistryServesRender'
  <2>1. InRender(w)' <=> InRender(w)
    BY <1>3 DEF InRender
  <2> QED
    BY <1>3, <1>5, <2>1, RegistryKept
<1>9. Active(w, job)' /\ Returned(w)' /\ ~InSet(w)'
  BY <1>3, <1>4, <1>5, NoneTypes DEF Active, Returned, InSet, Setting
<1> QED
  BY <1>3, <1>4, <1>5, <1>6, <1>7, <1>8, <1>9, BusyKeeps

\* A worker lets go of its job: what is left of it is a copy, a lease or
\* nothing, and both a copy and a lease only of a job that counts as early.
LEMMA LettingGo ==
  ASSUME Inv, NEW w \in Workers, NEW job \in Jobs, held[w] = job,
         wpc[w] \in {"ack", "putback"}, Returned(w), wpc' = [wpc EXCEPT ![w] = "pop"],
         held' = [held EXCEPT ![w] = NoJob],
         UNCHANGED <<hash, order, idem, call, cancels, jobCtx, spc, key, reply, cpc, cjob,
                     blobs, taken, dropped>>,
         faults' \in 0..MaxFaults, faults > 0 => faults' > 0, leased' \subseteq Workers,
         copies' = copies \/ copies' = [copies EXCEPT ![job] = @ + 1],
         orphans' = orphans \/ orphans' = orphans \cup {job},
         early' = early \/ early' = early \cup {job},
         lost' = lost \/ lost' = lost \cup {job},
         copies' = copies \/ orphans' = orphans \/ job \in early',
         \/ wpc[w] = "ack" \/ copies' = [copies EXCEPT ![job] = @ + 1]
         \/ job \in orphans' \/ job \in lost'
  PROVE  Inv'
<1> USE DEF Inv
<1>1. /\ held \in [Workers -> Jobs \cup {NoJob}] /\ wpc \in [Workers -> WorkerStates]
      /\ call \in [Callers -> CallType] /\ copies \in [Jobs -> Nat]
      /\ orphans \subseteq Jobs /\ early \subseteq Jobs /\ lost \subseteq Jobs
  BY DEF TypeOK, StoreTypeOK, CallType
<1>2. /\ copies' \in [Jobs -> Nat] /\ \A j \in Jobs \ {job} : copies'[j] = copies[j]
      /\ copies'[job] = copies[job] \/ copies'[job] = copies[job] + 1
      /\ copies[job] \in Nat /\ (copies' # copies => copies'[job] > 0)
  BY <1>1
<1>3. /\ held' \in [Workers -> Jobs \cup {NoJob}] /\ held'[w] = NoJob
      /\ \A v \in Workers \ {w} : held'[v] = held[v]
      /\ wpc' \in [Workers -> WorkerStates] /\ wpc'[w] = "pop"
      /\ \A v \in Workers \ {w} : wpc'[v] = wpc[v]
  BY <1>1 DEF WorkerStates
<1>4. \A v \in Workers : \A j \in Jobs : held'[v] = j => held[v] = j
  BY <1>3, NoJobAssumption
<1>5. /\ SubmitCalls' /\ CancelCalls' /\ OtherCalls' /\ Recorded' /\ Unwritten'
      /\ OnRecord' /\ KeysOwned' /\ Replied' /\ RolledBack' /\ KeysFollowJobs'
  BY <1>1, WorkersKeep
<1>6. TypeOK'
  <2>1. orphans' \subseteq Jobs /\ early' \subseteq Jobs /\ lost' \subseteq Jobs
    BY <1>1
  <2> QED
    BY <1>2, <1>3, <2>1 DEF TypeOK, StoreTypeOK, RegistryTypeOK
<1>7. WorkCalls'
  <2>1. call[w] = NoCall
    BY DEF WorkCalls
  <2>2. \A v \in Workers : (Returned(v)' <=> Returned(v)) /\ (InSet(v)' <=> InSet(v))
    BY DEF Returned, InSet
  <2> QED
    BY <1>3, <2>1, <2>2 DEF WorkCalls
<1>8. Unqueued'
  <2>1. spc[job] \notin {"idle", "getkey", "init"}
    BY DEF Unqueued
  <2> QED
    BY <1>2, <1>4, <2>1 DEF Unqueued
<1>9. Exclusive'
  <2>1. ASSUME NEW j \in Jobs \ early'
        PROVE  /\ copies'[j] <= 1
               /\ copies'[j] > 0 => j \notin orphans' /\ \A v \in Workers : held'[v] # j
               /\ j \in orphans' => \A v \in Workers : held'[v] # j
               /\ \A u, v \in Workers : held'[u] = j /\ held'[v] = j => u = v
    <3>1. j \notin early
      BY <2>1
    <3>2. CASE j = job
      <4>1. /\ copies[job] = 0 /\ job \notin orphans
            /\ \A v \in Workers \ {w} : held[v] # job
        BY <1>2, <3>1, <3>2 DEF Exclusive
      <4>2. copies' = copies \/ job \notin orphans'
        BY <2>1, <3>2, <4>1
      <4>3. \A v \in Workers : held'[v] # job
        BY <1>3, <4>1, NoJobAssumption
      <4> QED
        BY <1>2, <3>2, <4>1, <4>2, <4>3
    <3>3. CASE j # job
      BY <1>2, <1>4, <3>1, <3>3 DEF Exclusive
    <3> QED
      BY <3>2, <3>3
  <2> QED
    BY <2>1 DEF Exclusive
<1>10. RegistryServesRender'
  <2>1. ~InRender(w) /\ ~InRender(w)'
    BY <1>3 DEF InRender
  <2>2. \A v \in Workers \ {w} : InRender(v)' <=> InRender(v)
    BY <1>3 DEF InRender
  <2> QED
    BY <1>3, <2>1, <2>2 DEF RegistryServesRender
<1>11. Moving'
  <2> SUFFICES ASSUME NEW j \in Jobs, Accepted(j)
               PROVE  \/ hash[j].status \in Terminal
                      \/ copies'[j] > 0 \/ j \in orphans' \/ j \in lost' \/ j \in dropped
                      \/ \E v \in Workers : Active(v, j)'
    BY DEF Moving, Accepted
  <2>1. \A v \in Workers \ {w} : Active(v, j) => Active(v, j)'
    BY <1>3 DEF Active, Returned
  <2>2. copies[j] > 0 => copies'[j] > 0
    BY <1>1, <1>2
  <2>3. Active(w, j) => copies'[j] > 0 \/ j \in orphans' \/ j \in lost'
    BY <1>1, <1>2 DEF Active
  <2> QED
    BY <2>1, <2>2, <2>3 DEF Moving
<1> QED
  BY <1>5, <1>6, <1>7, <1>8, <1>9, <1>10, <1>11

\* Pop that could not lease its job gives it back or leaves its lease behind,
\* or the job is lost.
LEMMA PutBackInv ==
  ASSUME Inv, NEW w \in Workers, PutBack(w)
  PROVE  Inv'
<1>1. /\ wpc[w] = "putback" /\ Returned(w) /\ wpc' = [wpc EXCEPT ![w] = "pop"]
      /\ held[w] \in Jobs /\ StoreTypeOK /\ leased \subseteq Workers
  <2>1. WorkerGoto(w, "putback", "pop")
    BY DEF PutBack
  <2>2. "putback" \in WorkerStates \ {"pop"} /\ "pop" \in WorkerStates
    BY DEF WorkerStates
  <2> QED
    BY <2>1, <2>2, GoingTo DEF WorkerGoto, Inv, TypeOK
<1>2. PICK job \in Jobs : job = held[w]
  BY <1>1
<1>3. UNCHANGED <<hash, order, idem, call, cancels, jobCtx, spc, key, reply, cpc, cjob,
                  blobs, taken, dropped>>
  BY DEF PutBack, registryVars, submitVars, cancelVars
<1>4. PICK o \in Outcomes :
        /\ Count(o)
        /\ \/ /\ Queue!GiveBack(w)
              /\ early' = IF w \in leased THEN early \cup {held[w]} ELSE early
              /\ UNCHANGED lost
           \/ /\ Queue!Release(w)
              /\ lost' = IF w \in leased THEN lost ELSE lost \cup {held[w]}
              /\ UNCHANGED early
  BY DEF PutBack
<1>5. faults' \in 0..MaxFaults /\ (faults > 0 => faults' > 0)
  BY <1>1, <1>4, CountUp
<1>6. /\ leased' = leased \ {w}
      /\ orphans' = IF w \in leased THEN orphans \cup {job} ELSE orphans
  BY <1>2 DEF PutBack
<1>7. CASE /\ Queue!GiveBack(w)
           /\ early' = IF w \in leased THEN early \cup {held[w]} ELSE early
           /\ UNCHANGED lost
  <2>1. copies' = [copies EXCEPT ![job] = @ + 1] /\ held' = [held EXCEPT ![w] = NoJob]
    BY <1>2, <1>7 DEF Queue!GiveBack
  <2> QED
    BY <1>1, <1>2, <1>3, <1>5, <1>6, <1>7, <2>1, LettingGo
<1>8. CASE /\ Queue!Release(w)
           /\ lost' = IF w \in leased THEN lost ELSE lost \cup {held[w]}
           /\ UNCHANGED early
  <2>1. copies' = copies /\ held' = [held EXCEPT ![w] = NoJob]
    BY <1>8 DEF Queue!Release
  <2> QED
    BY <1>1, <1>2, <1>3, <1>5, <1>6, <1>8, <2>1, LettingGo
<1> QED
  BY <1>4, <1>7, <1>8

\* A worker that acks its job has no more to do for it.
LEMMA AckInv ==
  ASSUME Inv, NEW w \in Workers, Ack(w)
  PROVE  Inv'
<1>1. /\ wpc[w] = "ack" /\ Returned(w) /\ wpc' = [wpc EXCEPT ![w] = "pop"]
      /\ held[w] \in Jobs /\ StoreTypeOK /\ leased \subseteq Workers
  <2>1. WorkerGoto(w, "ack", "pop")
    BY DEF Ack
  <2>2. "ack" \in WorkerStates \ {"pop"} /\ "pop" \in WorkerStates
    BY DEF WorkerStates
  <2> QED
    BY <2>1, <2>2, GoingTo DEF WorkerGoto, Inv, TypeOK
<1>2. PICK job \in Jobs : job = held[w]
  BY <1>1
<1>3. /\ UNCHANGED <<hash, order, idem, call, cancels, jobCtx, spc, key, reply, cpc, cjob,
                     blobs, taken, dropped, early, lost, copies>>
      /\ held' = [held EXCEPT ![w] = NoJob] /\ leased' = leased \ {w}
  BY DEF Ack, registryVars, submitVars, cancelVars, Queue!Release
<1>4. PICK o \in Outcomes : /\ orphans' = orphans \/ orphans' = orphans \cup {job}
                            /\ Count(o)
  BY <1>2 DEF Ack
<1>5. faults' \in 0..MaxFaults /\ (faults > 0 => faults' > 0)
  BY <1>1, <1>4, CountUp
<1> QED
  BY <1>1, <1>2, <1>3, <1>4, <1>5, LettingGo

\* A lease ends: its job is queued again, or lost when nobody works on it.
LEMMA RequeueInv ==
  ASSUME Inv, NEW job \in Jobs, Redeliver(job) \/ Recover(job)
  PROVE  Inv'
<1> USE DEF Inv
<1>1. /\ UNCHANGED <<hash, order, idem, call, cancels, jobCtx, spc, key, reply,
                     cpc, cjob, wpc, blobs, taken, dropped, held>>
      /\ leased' \subseteq leased /\ (taken[job] > 0 \/ job \in orphans)
      /\ \E o \in Outcomes : Count(o)
      /\ copies' = copies \/ copies' = [copies EXCEPT ![job] = @ + 1]
      /\ \/ early' = early \cup {job} /\ orphans' = orphans /\ lost' = lost
         \/ copies' = copies /\ early' = early /\ orphans' = orphans /\ lost' = lost
         \/ /\ job \in orphans /\ early' = early /\ orphans' = orphans \ {job}
            /\ \/ lost' = lost /\ copies' = [copies EXCEPT ![job] = @ + 1]
               \/ lost' = lost \cup {job} /\ copies' = copies
  <2>1. CASE Redeliver(job)
    BY <2>1 DEF Redeliver, registryVars, submitVars, cancelVars, queueVars, Queue!Enqueue
  <2>2. CASE Recover(job)
    BY <2>2 DEF Recover, registryVars, submitVars, cancelVars, queueVars, Queue!Enqueue
  <2> QED
    BY <2>1, <2>2
<1>2. /\ copies \in [Jobs -> Nat] /\ call \in [Callers -> CallType]
      /\ orphans \subseteq Jobs /\ early \subseteq Jobs /\ lost \subseteq Jobs
      /\ leased \subseteq Workers
  BY DEF TypeOK, StoreTypeOK, CallType
<1>3. /\ copies' \in [Jobs -> Nat] /\ \A j \in Jobs \ {job} : copies'[j] = copies[j]
      /\ copies'[job] = copies[job] \/ copies'[job] = copies[job] + 1
      /\ copies[job] \in Nat /\ (copies' # copies => copies'[job] > 0)
  BY <1>1, <1>2
<1>4. faults' \in 0..MaxFaults /\ (faults > 0 => faults' > 0)
  BY <1>1, CountUp DEF TypeOK
<1>5. /\ SubmitCalls' /\ CancelCalls' /\ OtherCalls' /\ Recorded' /\ Unwritten'
      /\ OnRecord' /\ KeysOwned' /\ Replied' /\ RolledBack' /\ KeysFollowJobs'
  BY <1>1, <1>2, <1>4, WorkersKeep
<1>6. TypeOK'
  <2>1. /\ orphans' \subseteq Jobs /\ early' \subseteq Jobs /\ lost' \subseteq Jobs
        /\ leased' \subseteq Workers
    BY <1>1, <1>2
  <2> QED
    BY <1>1, <1>3, <1>4, <2>1 DEF TypeOK, StoreTypeOK, RegistryTypeOK
<1>7. WorkCalls'
  BY <1>1 DEF WorkCalls, Returned, InSet
<1>8. Unqueued'
  <2>1. spc[job] \notin {"idle", "getkey", "init"}
    BY <1>1 DEF Unqueued
  <2> QED
    BY <1>1, <1>3, <2>1 DEF Unqueued
<1>9. Exclusive'
  <2>1. ASSUME NEW j \in Jobs \ early'
        PROVE  /\ copies'[j] <= 1
               /\ copies'[j] > 0 => j \notin orphans' /\ \A v \in Workers : held[v] # j
               /\ j \in orphans' => \A v \in Workers : held[v] # j
               /\ \A u, v \in Workers : held[u] = j /\ held[v] = j => u = v
    <3>1. j \notin early
      BY <1>1, <2>1
    <3>2. CASE copies' = copies /\ orphans' = orphans
      BY <3>1, <3>2 DEF Exclusive
    <3>3. CASE j = job /\ ~(copies' = copies /\ orphans' = orphans)
      <4>1. job \in orphans /\ orphans' = orphans \ {job} /\ job \notin early
        BY <1>1, <2>1, <3>3
      <4>2. copies[job] = 0 /\ \A v \in Workers : held[v] # job
        BY <1>3, <4>1 DEF Exclusive
      <4> QED
        BY <1>3, <3>3, <4>1, <4>2
    <3>4. CASE j # job
      <4>1. j \in orphans' <=> j \in orphans
        BY <1>1, <3>4
      <4> QED
        BY <1>3, <3>1, <3>4, <4>1 DEF Exclusive
    <3> QED
      BY <3>2, <3>3, <3>4
  <2> QED
    BY <1>1, <2>1 DEF Exclusive
<1>10. RegistryServesRender'
  <2>1. early \subseteq early'
    BY <1>1
  <2> QED
    BY <1>1, <2>1 DEF RegistryServesRender, InRender
<1>11. Moving'
  <2>1. \A v \in Workers, j \in Jobs : Active(v, j)' <=> Active(v, j)
    BY <1>1 DEF Active, Returned
  <2>2. \A j \in Jobs : copies[j] > 0 \/ j \in orphans \/ j \in lost =>
                          copies'[j] > 0 \/ j \in orphans' \/ j \in lost'
    BY <1>1, <1>3
  <2> QED
    BY <1>1, <2>1, <2>2 DEF Moving, Accepted
<1> QED
  BY <1>5, <1>6, <1>7, <1>8, <1>9, <1>10, <1>11

\* A crash turns every delivery into a lease that was left behind, or a loss.
LEMMA CrashInv ==
  ASSUME Inv, Crash
  PROVE  Inv'
<1> USE DEF Inv
<1>1. /\ faults < MaxFaults /\ faults' = faults + 1
      /\ orphans' = orphans \cup HeldBy(leased) /\ lost' = lost \cup HeldBy(Workers \ leased)
      /\ leased' = {}
      /\ wpc' = [w \in Workers |-> "pop"] /\ held' = [w \in Workers |-> NoJob]
      /\ call' = [p \in Callers |-> IF p \in Workers THEN NoCall ELSE call[p]]
      /\ cancels' = [j \in Jobs |-> NoWorker] /\ jobCtx' = [w \in Workers |-> FALSE]
      /\ UNCHANGED <<hash, order, idem, spc, key, reply, cpc, cjob, blobs, taken, early,
                     dropped, copies>>
  BY DEF Crash, submitVars, cancelVars
<1>2. /\ held \in [Workers -> Jobs \cup {NoJob}] /\ call \in [Callers -> CallType]
      /\ orphans \subseteq Jobs /\ faults \in 0..MaxFaults
      /\ leased \subseteq Workers /\ lost \subseteq Jobs
  BY DEF TypeOK, StoreTypeOK, CallType
<1>3. /\ call' \in [Callers -> CallType]
      /\ \A w \in Workers : call'[w] = NoCall /\ Returned(w)' /\ ~InSet(w)'
      /\ \A q \in Callers \ Workers : call'[q] = call[q]
  BY <1>1, <1>2, NoneTypes, CallersAssumption DEF Returned, InSet, Setting
<1>4. /\ orphans' \subseteq Jobs /\ orphans \subseteq orphans'
      /\ lost' \subseteq Jobs /\ lost \subseteq lost'
      /\ \A w \in Workers : \A j \in Jobs : held[w] = j => j \in orphans' \/ j \in lost'
      /\ \A j \in orphans' : j \in orphans \/ \E w \in Workers : held[w] = j
  BY <1>1, <1>2, NoJobAssumption DEF HeldBy
<1>5. faults' \in 0..MaxFaults /\ faults' > 0
  BY <1>1, <1>2, MaxFaultsAssumption
<1>6. /\ SubmitCalls' /\ CancelCalls' /\ OtherCalls' /\ Recorded' /\ Unwritten'
      /\ OnRecord' /\ KeysOwned' /\ Replied' /\ RolledBack' /\ KeysFollowJobs'
  BY <1>1, <1>3, <1>5, WorkersKeep
<1>7. TypeOK'
  <2>1. RegistryTypeOK'
    BY <1>1 DEF RegistryTypeOK
  <2>2. wpc' \in [Workers -> WorkerStates] /\ held' \in [Workers -> Jobs \cup {NoJob}]
    BY <1>1 DEF WorkerStates
  <2> QED
    BY <1>1, <1>3, <1>4, <1>5, <2>1, <2>2 DEF TypeOK, StoreTypeOK, CallType
<1>8. WorkCalls'
  BY <1>1, <1>3 DEF WorkCalls
<1>9. \A w \in Workers : \A j \in Jobs : held'[w] # j
  BY <1>1, NoJobAssumption
<1>10. Unqueued'
  BY <1>1, <1>4, <1>9 DEF Unqueued
<1>11. Exclusive'
  BY <1>1, <1>4, <1>9 DEF Exclusive
<1>12. RegistryServesRender'
  BY <1>1, NoWorkerAssumption DEF RegistryServesRender, InRender
<1>13. Moving'
  BY <1>1, <1>4 DEF Moving, Accepted, Active
<1> QED
  BY <1>6, <1>7, <1>8, <1>10, <1>11, <1>12, <1>13

-----------------------------------------------------------------------------
(* The theorems.                                                           *)

\* Nothing has been submitted, called or delivered.
LEMMA InitInv == Init => Inv
<1> SUFFICES ASSUME Init PROVE Inv
  OBVIOUS
<1>1. /\ hash = [j \in Jobs |-> NoResult] /\ order = {} /\ idem = [k \in Keys |-> NoJob]
      /\ call = [p \in Callers |-> NoCall] /\ faults = 0
      /\ cancels = [j \in Jobs |-> NoWorker] /\ jobCtx = [w \in Workers |-> FALSE]
      /\ spc = [j \in Jobs |-> "idle"] /\ key = [j \in Jobs |-> NoKey]
      /\ reply = [j \in Jobs |-> [code |-> "none", job |-> NoJob]]
      /\ cpc = [c \in Cancellers |-> "idle"] /\ cjob = [c \in Cancellers |-> NoJob]
      /\ wpc = [w \in Workers |-> "pop"] /\ blobs = {} /\ early = {} /\ orphans = {}
      /\ taken = [j \in Jobs |-> 0] /\ dropped = {} /\ leased = {} /\ lost = {}
      /\ copies = [j \in Jobs |-> 0] /\ held = [w \in Workers |-> NoJob]
  BY DEF Init, StoreInit, RegistryInit, Queue!QueueInit
<1>2. /\ \A p \in Callers : Returned(p) /\ ~InSet(p) /\ call[p] = NoCall
      /\ \A j \in Jobs : call[j].at = "returned" /\ ~HasRecord(j) /\ ~Owner(j)
      /\ \A j \in Jobs : ~Accepted(j)
  BY <1>1, NoneTypes, CallersAssumption
     DEF Returned, InSet, Setting, HasRecord, Owner, Accepted
<1>3. TypeOK
  <2>1. StoreTypeOK
    BY <1>1, NoneTypes, MaxFaultsAssumption DEF StoreTypeOK, CallType
  <2>2. RegistryTypeOK
    BY <1>1 DEF RegistryTypeOK
  <2> QED
    BY <1>1, <2>1, <2>2 DEF TypeOK, WorkerStates
<1>4. SubmitCalls /\ CancelCalls /\ WorkCalls /\ OtherCalls
  BY <1>1, <1>2, CallersAssumption
     DEF SubmitCalls, CancelCalls, WorkCalls, OtherCalls
<1>5. Recorded /\ Unwritten /\ Unqueued
  BY <1>1, <1>2, NoJobAssumption DEF Recorded, Unwritten, Unqueued, Deleting
<1>6. OnRecord /\ KeysOwned /\ Replied /\ RolledBack
  BY <1>1, <1>2, NoJobAssumption DEF OnRecord, KeysOwned, Replied, RolledBack
<1>7. KeysFollowJobs /\ Exclusive /\ RegistryServesRender /\ Moving
  BY <1>1, <1>2, NoJobAssumption, NoWorkerAssumption
     DEF KeysFollowJobs, Exclusive, RegistryServesRender, InRender, Moving, Rejections
<1> QED
  BY <1>3, <1>4, <1>5, <1>6, <1>7 DEF Inv

\* No step breaks the invariant.
LEMMA NextInv == Inv /\ [Next]_vars => Inv'
<1> SUFFICES ASSUME Inv, [Next]_vars PROVE Inv'
  OBVIOUS
<1>1. ASSUME NEW p \in Callers, Command(p)
      PROVE  Inv'
  BY <1>1, CommandStep
<1>2. ASSUME NEW j \in Jobs, Submit(j) \/ Redeliver(j) \/ Recover(j)
      PROVE  Inv'
  BY <1>2, SubmitInv, RequeueInv
<1>3. ASSUME NEW c \in Cancellers, CancelSignal(c) \/ \E j \in Jobs : CancelBegin(c, j)
      PROVE  Inv'
  BY <1>3, CancelInv
<1>4. ASSUME NEW w \in Workers, Work(w)
      PROVE  Inv'
  BY <1>4, BrpopInv, ZaddInv, PutBackInv, CheckInv, RegisterInv, RenderInv, AckInv DEF Work
<1>5. CASE UNCHANGED vars
  <2>1. UNCHANGED frameVars /\ UNCHANGED <<hash, order, idem, call, faults>>
    BY <1>5 DEF vars, redisVars, frameVars
  <2>2. UNCHANGED <<registryVars, spc, key, reply, cpc, cjob, wpc, blobs, taken, early,
                     orphans, dropped, leased, lost, copies, held>>
    BY <2>1 DEF frameVars, submitVars, cancelVars, workVars, leaseVars, queueVars
  <2>3. call \in [Callers -> CallType]
    BY DEF Inv, TypeOK, StoreTypeOK, CallType
  <2>4. /\ SubmitCalls' /\ CancelCalls' /\ OtherCalls' /\ Recorded' /\ Unwritten'
        /\ OnRecord' /\ KeysOwned' /\ Replied' /\ RolledBack' /\ KeysFollowJobs'
    BY <2>1, <2>2, <2>3, WorkersKeep
  <2>5. TypeOK'
    BY <2>1, <2>2 DEF Inv, TypeOK, StoreTypeOK, RegistryTypeOK, registryVars
  <2>6. WorkCalls' /\ Moving'
    BY <2>1, <2>2 DEF Inv, WorkCalls, Moving, Active, Accepted, Returned, InSet
  <2> QED
    BY <2>1, <2>4, <2>5, <2>6, CommandFrame DEF Inv
<1> QED
  BY <1>1, <1>2, <1>3, <1>4, <1>5, CrashInv DEF Next

\* The invariant holds whatever fails and whoever runs in between.
LEMMA InvAlways == Spec => []Inv
BY InitInv, NextInv, PTL DEF Spec

\* Every variable has its type.
THEOREM TypeOKAlways == Spec => []TypeOK
<1>1. Inv => TypeOK
  BY DEF Inv
<1> QED
  BY <1>1, InvAlways, PTL

\* An idempotency key leads to at most one acceptance: who is accepted is
\* who the key points to.
THEOREM OneAcceptedPerKeyAlways == Spec => []OneAcceptedPerKey
<1>1. Inv => OneAcceptedPerKey
  <2> SUFFICES ASSUME Inv, NEW i \in Jobs, NEW j \in Jobs, Accepted(i), Accepted(j),
                      key[i] = key[j]
               PROVE  i = j
    BY DEF OneAcceptedPerKey
  <2>1. idem[key[i]] = i /\ idem[key[j]] = j
    BY DEF Inv, KeysOwned, Owner
  <2> QED
    BY <2>1
<1> QED
  BY <1>1, InvAlways, PTL

\* The record of an accepted job is not taken away, and is listed.
THEOREM AcceptedOnRecordAlways == Spec => []AcceptedOnRecord
<1>1. Inv => AcceptedOnRecord
  BY DEF Inv, AcceptedOnRecord, OnRecord, HasRecord, Exists, Listed
<1> QED
  BY <1>1, InvAlways, PTL

\* A key stays with a rejected submission only after a failed command, and a
\* repeated request gets an empty answer only next to a rejection.
THEOREM KeysFollowJobsAlways == Spec => []KeysFollowJobs
<1>1. Inv => KeysFollowJobs
  BY DEF Inv
<1> QED
  BY <1>1, InvAlways, PTL

\* The registry cancels nothing but a render of the job it is asked for, and
\* misses only one of several deliveries of a job.
THEOREM RegistryServesRenderAlways == Spec => []RegistryServesRender
<1>1. Inv => RegistryServesRender
  BY DEF Inv
<1> QED
  BY <1>1, InvAlways, PTL

\* Nothing strands an accepted job but what the queue loses and an error that
\* a worker ignores.
THEOREM NoStrandedJobAlways == Spec => []NoStrandedJob
<1>1. Inv => NoStrandedJob
  BY DEF Inv, Moving, Active, NoStrandedJob
<1> QED
  BY <1>1, InvAlways, PTL

-----------------------------------------------------------------------------
(* What a step of one goroutine leaves to the others.                      *)

\* A command moves its own caller on, and only HSET and DEL change a record.
LEMMA CommandShape ==
  ASSUME Inv, NEW p \in Callers, Command(p)
  PROVE  /\ UNCHANGED <<spc, key, reply, wpc, held, taken, blobs>>
         /\ ~Returned(p) /\ call[p].job \in Jobs
         /\ \A q \in Callers \ {p} : call'[q] = call[q]
         /\ \/ hash' = hash
            \/ SetHset(p) /\ hash' = [hash EXCEPT ![call[p].job] = call[p].arg]
            \/ DeleteDel(p) /\ hash' = [hash EXCEPT ![call[p].job] = NoResult]
<1>1. call \in [Callers -> CallType]
  BY DEF Inv, TypeOK, StoreTypeOK, CallType
<1>2. UNCHANGED <<spc, key, reply, wpc, held, taken, blobs>> /\ StoreStep(p)
  BY DEF Command, submitVars, workVars, leaseVars, queueVars
<1>3. ~Returned(p)
  BY <1>2 DEF StoreStep, SetHgetall, SetLpush, SetHset, CancelHgetall, DeleteHgetall,
              DeleteDel, DeleteLrem, DeleteKey, Returned
<1>4. \E r : call' = [call EXCEPT ![p] = r]
  <2>1. CASE SetHgetall(p) \/ DeleteHgetall(p)
    BY <2>1 DEF SetHgetall, DeleteHgetall
  <2>2. CASE SetLpush(p) \/ DeleteDel(p)
    BY <2>2 DEF SetLpush, DeleteDel, Goto
  <2>3. CASE SetHset(p) \/ DeleteKey(p)
    BY <2>3 DEF SetHset, DeleteKey, Return
  <2>4. CASE CancelHgetall(p)
    BY <2>4 DEF CancelHgetall, Return, Set, Call
  <2>5. CASE DeleteLrem(p)
    BY <2>5 DEF DeleteLrem, Return, Goto
  <2> QED
    BY <1>2, <2>1, <2>2, <2>3, <2>4, <2>5 DEF StoreStep
<1>5. \/ hash' = hash
      \/ SetHset(p) /\ hash' = [hash EXCEPT ![call[p].job] = call[p].arg]
      \/ DeleteDel(p) /\ hash' = [hash EXCEPT ![call[p].job] = NoResult]
  BY <1>2 DEF StoreStep, SetHgetall, SetLpush, SetHset, CancelHgetall, DeleteHgetall,
              DeleteDel, DeleteLrem, DeleteKey
<1> QED
  BY <1>1, <1>2, <1>3, <1>4, <1>5, WhoCalls

\* DEL is sent by the rollback of the job's own submission.
LEMMA DelRollsBack ==
  ASSUME Inv, NEW p \in Callers, DeleteDel(p)
  PROVE  p \in Jobs /\ call[p].job = p /\ spc[p] = "rollback"
<1>1. call[p].at \in Deleting /\ ~InSet(p) /\ ~Returned(p)
  BY DEF DeleteDel, Deleting, InSet, Setting, Returned
<1>2. p \notin Workers /\ p \notin Cancellers
  BY <1>1, WhoCalls DEF Inv, CancelCalls, Deleting
<1> QED
  BY <1>1, <1>2, WhoCalls

\* A worker changes no record and moves nobody but itself.
LEMMA WorkShape ==
  ASSUME Inv, NEW w \in Workers, Work(w)
  PROVE  /\ UNCHANGED <<hash, spc, key, reply>>
         /\ \A q \in Callers \ {w} : call'[q] = call[q]
         /\ \A v \in Workers \ {w} : wpc'[v] = wpc[v] /\ held'[v] = held[v]
<1>1. /\ UNCHANGED <<hash, spc, key, reply>>
      /\ call \in [Callers -> CallType] /\ w \in Callers
      /\ held \in [Workers -> Jobs \cup {NoJob}] /\ wpc \in [Workers -> WorkerStates]
  BY CallersAssumption
     DEF Work, Brpop, Zadd, PutBack, Check, RegisterJob, Render, ErrCheck, OkCheck, Put,
         Finish, Ack, submitVars, redisVars, Inv, TypeOK, StoreTypeOK, CallType
<1>2. /\ call' = call \/ \E r : call' = [call EXCEPT ![w] = r]
      /\ wpc' = wpc \/ \E to : wpc' = [wpc EXCEPT ![w] = to]
      /\ held' = held \/ \E i : held' = [held EXCEPT ![w] = i]
  <2>1. CASE Brpop(w)
    BY <2>1 DEF Brpop, WorkerGoto, Queue!Take, Queue!Lose
  <2>5. CASE Zadd(w) \/ PutBack(w) \/ Ack(w)
    BY <2>5 DEF Zadd, PutBack, Ack, WorkerGoto, queueVars, Queue!GiveBack, Queue!Release
  <2>2. CASE Check(w) \/ ErrCheck(w) \/ Put(w)
    BY <2>2 DEF Check, ErrCheck, Put, WorkerGoto, Write, Set, Call, queueVars
  <2>3. CASE RegisterJob(w) \/ Finish(w)
    BY <2>3 DEF RegisterJob, Finish, WorkerGoto, Ignore, queueVars
  <2>4. CASE Render(w) \/ OkCheck(w)
    BY <2>4 DEF Render, OkCheck, WorkerGoto, redisVars, queueVars
  <2> QED
    BY <2>1, <2>2, <2>3, <2>4, <2>5 DEF Work
<1> QED
  BY <1>1, <1>2

\* A submission and a cancel request leave workers and records alone.
LEMMA RequestShape ==
  ASSUME Inv, NEW p \in Jobs \cup Cancellers,
         \/ p \in Jobs /\ Submit(p)
         \/ p \in Cancellers /\ (CancelSignal(p) \/ \E i \in Jobs : CancelBegin(p, i))
  PROVE  /\ UNCHANGED <<hash, wpc, held, taken, blobs>>
         /\ call' = call \/ \E r : call' = [call EXCEPT ![p] = r]
         /\ reply' = reply \/ (p \in Jobs /\ \E r : reply' = [reply EXCEPT ![p] = r])
<1>1. CASE p \in Jobs /\ Submit(p)
  <2>1. CASE SubmitReserve(p)
    <3>1. PICK k \in Keys, o \in Outcomes :
            CASE Reserved(k, o) -> Initialize(p, k)
              [] o # "ok" -> Answer(p, "idempotency_error", NoJob) /\ UNCHANGED call
              [] OTHER -> SubmitGoto(p, "getkey") /\ UNCHANGED call
      BY <2>1 DEF SubmitReserve
    <3>2. \/ Initialize(p, k)
          \/ Answer(p, "idempotency_error", NoJob) /\ call' = call
          \/ SubmitGoto(p, "getkey") /\ call' = call
      BY <3>1 DEF Reserved
    <3>3. UNCHANGED <<hash, wpc, held, taken, blobs>>
      BY <2>1 DEF SubmitReserve, workVars, leaseVars, queueVars
    <3> QED
      BY <1>1, <3>2, <3>3 DEF Initialize, SubmitGoto, Answer, Set, Call
  <2>2. CASE SubmitGetKey(p) \/ SubmitStorageError(p) \/ SubmitRejected(p)
    BY <1>1, <2>2 DEF SubmitGetKey, SubmitStorageError, SubmitRejected, Answer,
                      SubmitGoto, redisVars, workVars, leaseVars, queueVars
  <2>3. CASE SubmitPush(p) \/ SubmitQueueFull(p)
    <3>1. UNCHANGED <<hash, wpc, held, taken, blobs>>
      BY <2>3 DEF SubmitPush, SubmitQueueFull, workVars, leaseVars, queueVars, Queue!Enqueue
    <3>2. call' = call \/ Delete(p, p)
      BY <2>3 DEF SubmitPush, SubmitQueueFull
    <3>3. \E r : reply' = [reply EXCEPT ![p] = r]
      BY <2>3 DEF SubmitPush, SubmitQueueFull, Answer
    <3> QED
      BY <1>1, <3>1, <3>2, <3>3 DEF Delete, Call
  <2> QED
    BY <1>1, <2>1, <2>2, <2>3 DEF Submit
<1>2. CASE p \in Cancellers /\ (CancelSignal(p) \/ \E i \in Jobs : CancelBegin(p, i))
  BY <1>2 DEF CancelSignal, CancelBegin, Cancel, Call, submitVars,
       workVars, leaseVars, queueVars
<1> QED
  BY <1>1, <1>2

-----------------------------------------------------------------------------
(* A settled cancellation.                                                 *)

\* A step that writes no record of j and makes no worker start on a write of it
\* leaves the cancellation settled.
LEMMA SettledKept ==
  ASSUME Inv, NEW j \in Jobs, CancelSettled(j), reply'[j] = reply[j],
         hash'[j].status = "canceled",
         \A w \in Workers : held'[w] = j => Returned(w)' /\ wpc'[w] # "put"
  PROVE  CancelSettled(j)'
BY DEF CancelSettled, Overwriting, Accepted

\* The commands of the store: whoever may write the record of j writes that it
\* was canceled.
LEMMA SettledCommand ==
  ASSUME Inv, NEW j \in Jobs, CancelSettled(j), NEW p \in Callers, Command(p)
  PROVE  CancelSettled(j)'
<1>1. /\ UNCHANGED <<spc, reply, wpc, held>>
      /\ ~Returned(p) /\ \A q \in Callers \ {p} : call'[q] = call[q]
  BY CommandShape
<1>2. ASSUME NEW w \in Workers, held'[w] = j
      PROVE  Returned(w)' /\ wpc'[w] # "put"
  <2>1. held[w] = j /\ Returned(w) /\ wpc[w] # "put" /\ w \in Callers
    BY <1>1, <1>2, CallersAssumption DEF CancelSettled, Overwriting
  <2>2. call'[w] = call[w]
    BY <1>1, <2>1
  <2> QED
    BY <1>1, <2>1, <2>2 DEF Returned
<1>3. hash'[j].status = "canceled"
  <2>1. spc[j] = "done" /\ hash[j].status = "canceled" /\ hash \in [Jobs -> JobResult]
    BY DEF CancelSettled, Accepted, Inv, TypeOK, StoreTypeOK, Replied
  <2>2. call[p].job \in Jobs
    BY CommandShape
  <2>3. \/ hash' = hash
        \/ SetHset(p) /\ hash' = [hash EXCEPT ![call[p].job] = call[p].arg]
        \/ DeleteDel(p) /\ hash' = [hash EXCEPT ![call[p].job] = NoResult]
    BY CommandShape
  <2>4. CASE hash' = hash \/ call[p].job # j
    BY <2>1, <2>2, <2>3, <2>4
  <2>5. CASE SetHset(p) /\ hash' = [hash EXCEPT ![call[p].job] = call[p].arg] /\ call[p].job = j
    <3>1. InSet(p)
      BY <2>5 DEF SetHset, InSet, Setting
    <3>2. p \notin Workers /\ p \notin Jobs
      BY <1>1, <2>1, <2>5, <3>1, WhoCalls DEF CancelSettled, Overwriting
    <3>3. p \in Cancellers
      BY <1>1, <3>2, WhoCalls
    <3>4. call[p].arg.status = "canceled"
      BY <3>1, <3>3 DEF Inv, CancelCalls
    <3> QED
      BY <2>1, <2>5, <3>4
  <2>6. CASE DeleteDel(p) /\ call[p].job = j
    BY <2>1, <2>6, DelRollsBack
  <2> QED
    BY <2>3, <2>4, <2>5, <2>6
<1> QED
  BY <1>1, <1>2, <1>3, SettledKept

\* A worker that holds j sees that it was canceled, unless its Get fails.
LEMMA SettledWork ==
  ASSUME Inv, NEW j \in Jobs, CancelSettled(j), NEW w \in Workers, Work(w),
         faults' = faults
  PROVE  CancelSettled(j)'
<1>1. /\ UNCHANGED <<hash, reply>> /\ hash[j].status = "canceled"
      /\ call \in [Callers -> CallType] /\ w \in Callers
      /\ held \in [Workers -> Jobs \cup {NoJob}] /\ wpc \in [Workers -> WorkerStates]
  BY CallersAssumption, WorkShape DEF CancelSettled, Inv, TypeOK, StoreTypeOK, CallType
<1>2. \A v \in Workers : held[v] = j => Returned(v) /\ wpc[v] # "put"
  BY DEF CancelSettled, Overwriting
<1>3. /\ \A q \in Callers \ {w} : call'[q] = call[q]
      /\ \A v \in Workers \ {w} : wpc'[v] = wpc[v] /\ held'[v] = held[v]
  BY WorkShape
<1>4. held'[w] = j => Returned(w)' /\ wpc'[w] # "put"
  <2> SUFFICES ASSUME held'[w] = j
               PROVE  Returned(w)' /\ wpc'[w] # "put"
    OBVIOUS
  <2>1. CASE Brpop(w) \/ Zadd(w)
    <3>1. call' = call /\ Returned(w) /\ wpc'[w] # "put"
      <4>1. CASE Brpop(w)
        BY <1>1, <4>1, NoneTypes DEF Brpop, WorkerGoto, Inv, WorkCalls, Returned
      <4>2. CASE Zadd(w)
        BY <1>1, <4>2 DEF Zadd, WorkerGoto
      <4> QED
        BY <2>1, <4>1, <4>2
    <3> QED
      BY <3>1 DEF Returned
  <2>2. CASE Ack(w) \/ PutBack(w)
    BY <1>1, <2>2, NoJobAssumption DEF Ack, PutBack, Queue!Release, Queue!GiveBack
  <2>3. CASE RegisterJob(w) \/ Finish(w)
    BY <1>1, <2>3, NoneTypes DEF RegisterJob, Finish, WorkerGoto, Ignore, Returned
  <2>4. CASE Render(w)
    BY <1>1, <2>4 DEF Render, WorkerGoto, redisVars, Returned
  <2>5. ASSUME NEW o \in Outcomes, Count(o), held[w] = j
        PROVE  IsCanceled(w, o)
    <3>1. o = "ok"
      BY <2>5, CountUp DEF Inv, TypeOK
    <3> QED
      BY <1>1, <2>5, <3>1 DEF IsCanceled, Get
  <2>6. CASE Check(w)
    <3>1. PICK o \in Outcomes :
            /\ WorkerGoto(w, "check", IF IsCanceled(w, o) THEN "ack" ELSE "mark")
            /\ IF IsCanceled(w, o) THEN UNCHANGED call ELSE Write(w, "processing", "", NoJob)
            /\ Count(o) /\ held' = held
      BY <2>6 DEF Check, queueVars
    <3>2. WorkerGoto(w, "check", "ack") /\ call' = call
      BY <2>5, <3>1
    <3> QED
      BY <1>1, <3>2 DEF WorkerGoto, Returned
  <2>7. CASE ErrCheck(w)
    <3>1. PICK o \in Outcomes :
            /\ WorkerGoto(w, "errcheck", "write")
            /\ IF IsCanceled(w, o) THEN UNCHANGED call
                                   ELSE Write(w, "failed", "render", NoJob)
            /\ Count(o) /\ held' = held
      BY <2>7 DEF ErrCheck, queueVars
    <3>2. WorkerGoto(w, "errcheck", "write") /\ call' = call
      BY <2>5, <3>1
    <3> QED
      BY <1>1, <3>2 DEF WorkerGoto, Returned
  <2>8. CASE OkCheck(w)
    <3>1. PICK o \in Outcomes :
            /\ WorkerGoto(w, "okcheck", IF IsCanceled(w, o) THEN "write" ELSE "put")
            /\ Count(o) /\ held' = held /\ call' = call
      BY <2>8 DEF OkCheck, queueVars
    <3>2. WorkerGoto(w, "okcheck", "write") /\ call' = call
      BY <2>5, <3>1
    <3> QED
      BY <1>1, <3>2 DEF WorkerGoto, Returned
  <2>9. CASE Put(w)
    BY <1>2, <2>9 DEF Put, WorkerGoto, queueVars
  <2> QED
    BY <2>1, <2>2, <2>3, <2>4, <2>6, <2>7, <2>8, <2>9 DEF Work
<1>5. ASSUME NEW v \in Workers, v # w, held'[v] = j
      PROVE  Returned(v)' /\ wpc'[v] # "put"
  BY <1>2, <1>3, <1>5, CallersAssumption DEF Returned
<1> QED
  BY <1>1, <1>4, <1>5, SettledKept

\* A submission of another job and a cancel request leave workers and records
\* alone.
LEMMA SettledRequest ==
  ASSUME Inv, NEW j \in Jobs, CancelSettled(j), NEW p \in Jobs \cup Cancellers,
         \/ p \in Jobs /\ Submit(p)
         \/ p \in Cancellers /\ (CancelSignal(p) \/ \E i \in Jobs : CancelBegin(p, i))
  PROVE  CancelSettled(j)'
<1>1. /\ UNCHANGED <<hash, wpc, held>>
      /\ call' = call \/ \E r : call' = [call EXCEPT ![p] = r]
      /\ reply' = reply \/ (p \in Jobs /\ \E r : reply' = [reply EXCEPT ![p] = r])
  BY RequestShape
<1>2. /\ reply \in [Jobs -> [code : {"none", "accepted", "idempotent"} \cup Rejections,
                             job : Jobs \cup {NoJob}]]
      /\ call \in [Callers -> CallType] /\ hash[j].status = "canceled" /\ spc[j] = "done"
      /\ \A w \in Workers : held[w] = j => Returned(w) /\ wpc[w] # "put"
  BY DEF Inv, TypeOK, StoreTypeOK, CallType, CancelSettled, Overwriting, Accepted, Replied
<1>3. p \in Jobs /\ p \notin Cancellers => p # j
  BY <1>2 DEF Submit, SubmitReserve, SubmitGetKey, SubmitStorageError, SubmitPush,
              SubmitQueueFull, SubmitRejected
<1>4. reply'[j] = reply[j]
  BY <1>1, <1>2, <1>3, RolesAssumption
<1>5. \A w \in Workers : call'[w] = call[w]
  BY <1>1, <1>2, CallersAssumption, RolesAssumption
<1> QED
  BY <1>1, <1>2, <1>4, <1>5, SettledKept DEF Returned

\* A cancellation nobody is about to overwrite is final unless a command fails
\* or the instance crashes.
THEOREM CancelSettlesAlways == Spec => CancelSettles
<1>1. ASSUME Inv, [Next]_vars, NEW j \in Jobs, CancelSettled(j), faults' = faults
      PROVE  CancelSettled(j)'
  <2>1. ASSUME NEW i \in Jobs, Redeliver(i) \/ Recover(i)
        PROVE  CancelSettled(j)'
    BY <1>1, <2>1 DEF Redeliver, Recover, submitVars, queueVars, Queue!Enqueue,
       CancelSettled, Overwriting, Accepted, Returned
  <2>2. ~Crash
    BY <1>1 DEF Crash, Inv, TypeOK, StoreTypeOK
  <2>3. ASSUME UNCHANGED vars
        PROVE  CancelSettled(j)'
    BY <1>1, <2>3 DEF vars, redisVars, submitVars, workVars, leaseVars, queueVars, CancelSettled,
       Overwriting, Accepted, Returned
  <2>4. ASSUME NEW p \in Callers, Command(p)
        PROVE  CancelSettled(j)'
    BY <1>1, <2>4, SettledCommand
  <2>5. ASSUME NEW w \in Workers, Work(w)
        PROVE  CancelSettled(j)'
    BY <1>1, <2>5, SettledWork
  <2>6. ASSUME NEW i \in Jobs, Submit(i)
        PROVE  CancelSettled(j)'
    BY <1>1, <2>6, SettledRequest
  <2>7. ASSUME NEW c \in Cancellers, CancelSignal(c) \/ \E i \in Jobs : CancelBegin(c, i)
        PROVE  CancelSettled(j)'
    BY <1>1, <2>7, SettledRequest
  <2> QED
    BY <1>1, <2>1, <2>2, <2>3, <2>4, <2>5, <2>6, <2>7 DEF Next
<1>2. Inv /\ [Next]_vars =>
        [\A j \in Jobs : CancelSettled(j) => CancelSettled(j)' \/ faults' # faults]_vars
  BY <1>1
<1> QED
  BY <1>2, InvAlways, PTL DEF Spec, CancelSettles

-----------------------------------------------------------------------------
(* Outcomes.                                                               *)

RenderOutcome == {"completed", "failed"}

\* A worker whose Pop has returned j.
Working(w, j) == held[w] = j /\ wpc[w] \notin {"lease", "putback"}

\* How many workers work on a job that was leased at most once.
Delivered ==
  \A j \in Jobs :
    /\ taken[j] = 0 => \A w \in Workers : ~Working(w, j)
    /\ taken[j] = 1 => \A v, w \in Workers : Working(v, j) /\ Working(w, j) => v = w

\* A worker that has written, or left alone, the record of its job.
Past(w) == wpc[w] \in {"write", "ack"} /\ Returned(w)

\* A job with an outcome was leased, and its only delivery is past writing.
Ended ==
  \A j \in Jobs : hash[j].status \in RenderOutcome =>
    /\ taken[j] # 0
    /\ taken[j] = 1 => \A w \in Workers : Working(w, j) => Past(w)

\* Outcomes are written by workers that have rendered, and "completed" only
\* after the PDF.
Reports(p) ==
  InSet(p) /\ call[p].arg.status \in RenderOutcome =>
    /\ p \in Workers /\ wpc[p] = "write"
    /\ call[p].arg.status = "completed" => call[p].arg.pdfKey \in blobs

OutcomeInv ==
  /\ Delivered /\ Ended /\ CompletedHasPDF
  /\ \A p \in Callers : Reports(p)

\* A command writes what its caller brought along, or a cancellation.
LEMMA CommandArg ==
  ASSUME Inv, NEW p \in Callers, Command(p), InSet(p)'
  PROVE  \/ /\ InSet(p)
            /\ call'[p].arg.status = call[p].arg.status
            /\ call'[p].arg.pdfKey = call[p].arg.pdfKey
         \/ call'[p].arg.status = "canceled"
<1>1. StoreTypeOK /\ call \in [Callers -> CallType] /\ StoreStep(p)
  BY DEF Inv, TypeOK, StoreTypeOK, CallType, Command
<1>2. call[p].job \in Jobs
  BY CommandShape
<1>3. CASE SetHgetall(p)
  <2>1. InSet(p) /\ call[p].arg \in JobResult
    BY <1>1, <1>3 DEF SetHgetall, InSet, Setting, CallType
  <2>2. call[p].arg.key # NoKey
    BY <2>1, WhoCalls DEF InSet, Setting, Returned
  <2>3. PICK o \in Outcomes :
          call' = [call EXCEPT
            ![p].at = IF Get(call[p].job, o) = NoResult THEN "set.lpush" ELSE "set.hset",
            ![p].arg = Merge(@, Get(call[p].job, o))]
    BY <1>3 DEF SetHgetall
  <2>4. call'[p].arg = Merge(call[p].arg, Get(call[p].job, o))
    BY <1>1, <2>3 DEF CallType
  <2> QED
    BY <1>1, <1>2, <2>1, <2>2, <2>4, Merging, Getting
<1>4. CASE SetLpush(p)
  BY <1>1, <1>4, GoingOn DEF SetLpush, InSet, Setting, Commands
<1>5. CASE SetHset(p) \/ DeleteKey(p)
  <2>1. PICK err \in BOOLEAN : Return(p, err)
    BY <1>5 DEF SetHset, DeleteKey
  <2> QED
    BY <1>1, <2>1, Returning DEF InSet, Setting
<1>6. CASE CancelHgetall(p)
  <2>1. PICK o \in Outcomes : LET result == Get(call[p].job, o) IN
          IF result.status \in Terminal \cup {"none"}
            THEN Return(p, result = NoResult)
            ELSE Set(p, call[p].job, [result EXCEPT !.status = "canceled",
                                                    !.error = "job canceled"])
    BY <1>6 DEF CancelHgetall
  <2>2. PICK result \in JobResult : result = Get(call[p].job, o)
    BY <1>1, <1>2, Getting
  <2> DEFINE canceled == [result EXCEPT !.status = "canceled", !.error = "job canceled"]
  <2>3. canceled \in JobResult /\ canceled.status = "canceled"
    BY DEF JobResult, Status, Terminal, Errors
  <2> HIDE DEF canceled
  <2>4. Return(p, result = NoResult) \/ Call(p, "set.hgetall", call[p].job, canceled)
    BY <2>1, <2>2 DEF Set, canceled
  <2>5. CASE Return(p, result = NoResult)
    BY <1>1, <2>5, Returning DEF InSet, Setting
  <2>6. CASE Call(p, "set.hgetall", call[p].job, canceled)
    BY <1>1, <1>2, <2>3, <2>6, Calling DEF Commands
  <2> QED
    BY <2>4, <2>5, <2>6
<1>7. CASE DeleteHgetall(p)
  BY <1>1, <1>7 DEF DeleteHgetall, InSet, Setting, CallType
<1>8. CASE DeleteDel(p)
  BY <1>1, <1>8, GoingOn DEF DeleteDel, InSet, Setting, Commands
<1>9. CASE DeleteLrem(p)
  <2>1. Return(p, FALSE) \/ Goto(p, "delete.key")
    BY <1>9 DEF DeleteLrem
  <2> QED
    BY <1>1, <2>1, Returning, GoingOn DEF InSet, Setting, Commands
<1> QED
  BY <1>1, <1>3, <1>4, <1>5, <1>6, <1>7, <1>8, <1>9 DEF StoreStep

\* The commands of the store: HSET of an outcome comes from the worker that
\* holds the job, which is then past writing.
LEMMA OutcomeCommand ==
  ASSUME Inv, OutcomeInv, NEW p \in Callers, Command(p)
  PROVE  OutcomeInv'
<1>1. /\ UNCHANGED <<wpc, held, taken, blobs>>
      /\ ~Returned(p) /\ call[p].job \in Jobs
      /\ \A q \in Callers \ {p} : call'[q] = call[q]
      /\ \/ hash' = hash
         \/ SetHset(p) /\ hash' = [hash EXCEPT ![call[p].job] = call[p].arg]
         \/ DeleteDel(p) /\ hash' = [hash EXCEPT ![call[p].job] = NoResult]
  BY CommandShape
<1>2. /\ hash \in [Jobs -> JobResult] /\ call \in [Callers -> CallType] /\ StoreTypeOK
      /\ Workers \subseteq Callers
  BY CallersAssumption DEF Inv, TypeOK, StoreTypeOK, CallType
<1>3. Delivered'
  BY <1>1 DEF OutcomeInv, Delivered, Working
<1>4. \A w \in Workers : Past(w) => Past(w)'
  BY <1>1, <1>2 DEF Past, Returned
<1>5. ASSUME NEW j \in Jobs, hash'[j].status \in RenderOutcome, hash'[j] # hash[j]
      PROVE  /\ SetHset(p) /\ p \in Workers /\ Working(p, j) /\ Past(p)'
             /\ hash'[j] = call[p].arg
             /\ hash'[j].status = "completed" => hash'[j].pdfKey \in blobs
  <2>1. ~DeleteDel(p) \/ call[p].job # j \/ hash'[j] # NoResult
    BY <1>5, NoneTypes DEF RenderOutcome
  <2>2. SetHset(p) /\ call[p].job = j /\ hash'[j] = call[p].arg
    BY <1>1, <1>2, <1>5, <2>1
  <2>3. InSet(p)
    BY <2>2 DEF SetHset, InSet, Setting
  <2>4. /\ p \in Workers /\ wpc[p] = "write"
        /\ call[p].arg.status = "completed" => call[p].arg.pdfKey \in blobs
    BY <1>5, <2>2, <2>3 DEF OutcomeInv, Reports
  <2>5. held[p] = j
    BY <1>1, <2>2, <2>4, WhoCalls
  <2>6. Returned(p)'
    <3>1. PICK err \in BOOLEAN : Return(p, err)
      BY <2>2 DEF SetHset
    <3> QED
      BY <1>2, <3>1, Returning DEF Returned
  <2> QED
    BY <1>1, <2>2, <2>4, <2>5, <2>6 DEF Past, Working
<1>6. Ended'
  <2> SUFFICES ASSUME NEW j \in Jobs, hash'[j].status \in RenderOutcome
               PROVE  /\ taken[j] # 0
                      /\ taken[j] = 1 => \A w \in Workers : Working(w, j) => Past(w)'
    BY <1>1 DEF Ended, Working
  <2>1. CASE hash'[j] = hash[j]
    BY <1>4, <2>1 DEF OutcomeInv, Ended
  <2>2. CASE hash'[j] # hash[j]
    BY <1>5, <2>2 DEF OutcomeInv, Delivered
  <2> QED
    BY <2>1, <2>2
<1>7. CompletedHasPDF'
  <2> SUFFICES ASSUME NEW j \in Jobs, hash'[j].status = "completed"
               PROVE  hash'[j].pdfKey \in blobs
    BY <1>1 DEF CompletedHasPDF
  <2>1. CASE hash'[j] = hash[j]
    BY <2>1 DEF OutcomeInv, CompletedHasPDF
  <2>2. CASE hash'[j] # hash[j]
    BY <1>5, <2>2 DEF RenderOutcome
  <2> QED
    BY <2>1, <2>2
<1>8. ASSUME NEW q \in Callers
      PROVE  Reports(q)'
  <2>1. CASE q # p
    BY <1>1, <2>1 DEF OutcomeInv, Reports, InSet
  <2>2. CASE q = p
    <3> SUFFICES ASSUME InSet(p)', call'[p].arg.status \in RenderOutcome
                 PROVE  /\ p \in Workers /\ wpc'[p] = "write"
                        /\ call'[p].arg.status = "completed" => call'[p].arg.pdfKey \in blobs'
      BY <2>2 DEF Reports
    <3>1. /\ InSet(p)
          /\ call'[p].arg.status = call[p].arg.status
          /\ call'[p].arg.pdfKey = call[p].arg.pdfKey
      BY CommandArg DEF RenderOutcome
    <3> QED
      BY <1>1, <3>1 DEF OutcomeInv, Reports
  <2> QED
    BY <2>1, <2>2
<1> QED
  BY <1>3, <1>6, <1>7, <1>8 DEF OutcomeInv

\* What a worker is about to write.
LEMMA WorkArg ==
  ASSUME Inv, NEW w \in Workers, Work(w), InSet(w)'
  PROVE  /\ call'[w].arg.status \in RenderOutcome => wpc'[w] = "write"
         /\ call'[w].arg.status = "completed" => call'[w].arg.pdfKey \in blobs'
<1>1. /\ w \in Callers /\ StoreTypeOK /\ call \in [Callers -> CallType]
      /\ Returned(w) /\ ~InSet(w) /\ call'[w] # call[w]
  <2>1. w \in Callers /\ StoreTypeOK /\ call \in [Callers -> CallType]
    BY CallersAssumption DEF Inv, TypeOK, StoreTypeOK, CallType
  <2>2. CASE Brpop(w)
    BY <2>1, <2>2, NoneTypes DEF Brpop, Inv, WorkCalls, InSet, Setting, Returned
  <2>3. CASE ~Brpop(w)
    <3>1. Returned(w)
      BY <2>3 DEF Work, Zadd, PutBack, Check, RegisterJob, Render, ErrCheck, OkCheck, Put,
                  Finish, Ack, WorkerGoto
    <3> QED
      BY <2>1, <3>1 DEF InSet, Setting, Returned
  <2> QED
    BY <2>1, <2>2, <2>3
<1>2. CASE Brpop(w) \/ Zadd(w) \/ PutBack(w) \/ Ack(w) \/ Render(w) \/ OkCheck(w)
  BY <1>1, <1>2 DEF Brpop, Zadd, PutBack, Ack, Render, OkCheck, redisVars
<1>3. CASE RegisterJob(w) \/ Finish(w)
  <2>1. call' = [call EXCEPT ![w] = NoCall]
    BY <1>3 DEF RegisterJob, Finish, Ignore
  <2> QED
    BY <1>1, <2>1, NoneTypes DEF InSet, Setting
<1>4. CASE Check(w)
  <2>1. PICK to \in {"ack", "mark"} : WorkerGoto(w, "check", to)
    BY <1>4 DEF Check
  <2>2. held[w] \in Jobs /\ spc[held[w]] \in {"rollback", "done"} /\ key[held[w]] \in Keys
    BY <2>1, GoingTo DEF WorkerStates
  <2>3. Write(w, "processing", "", NoJob) /\ UNCHANGED <<spc, key>>
    BY <1>1, <1>4 DEF Check, submitVars
  <2>4. call'[w].arg.status = "processing"
    BY <2>2, <2>3, Writing DEF Status, Terminal, Errors
  <2> QED
    BY <2>4 DEF RenderOutcome
<1>5. CASE ErrCheck(w)
  <2>1. WorkerGoto(w, "errcheck", "write")
    BY <1>5 DEF ErrCheck
  <2>2. /\ held[w] \in Jobs /\ spc[held[w]] \in {"rollback", "done"} /\ key[held[w]] \in Keys
        /\ wpc'[w] = "write"
    BY <2>1, GoingTo DEF WorkerStates
  <2>3. Write(w, "failed", "render", NoJob) /\ UNCHANGED <<spc, key>>
    BY <1>1, <1>5 DEF ErrCheck, submitVars
  <2>4. call'[w].arg.status = "failed"
    BY <2>2, <2>3, Writing DEF Status, Terminal, Errors
  <2> QED
    BY <2>2, <2>4
<1>6. CASE Put(w)
  <2>1. WorkerGoto(w, "put", "write") /\ UNCHANGED <<spc, key>>
    BY <1>6 DEF Put, submitVars
  <2>2. /\ held[w] \in Jobs /\ spc[held[w]] \in {"rollback", "done"} /\ key[held[w]] \in Keys
        /\ wpc'[w] = "write"
    BY <2>1, GoingTo DEF WorkerStates
  <2>3. \/ Write(w, "completed", "", held[w]) /\ held[w] \in blobs'
        \/ Write(w, "failed", "blob", NoJob)
    BY <1>6 DEF Put
  <2>4. PICK status \in Status \ {"none"}, error \in Errors, pdfKey \in Jobs \cup {NoJob} :
          Write(w, status, error, pdfKey) /\ (status = "completed" => pdfKey \in blobs')
    <3>1. /\ "completed" \in Status \ {"none"} /\ "failed" \in Status \ {"none"}
          /\ "" \in Errors /\ "blob" \in Errors
      BY DEF Status, Terminal, Errors
    <3>2. held[w] \in Jobs \cup {NoJob} /\ NoJob \in Jobs \cup {NoJob} /\ "failed" # "completed"
      BY <2>2
    <3>3. CASE Write(w, "completed", "", held[w]) /\ held[w] \in blobs'
      BY <3>1, <3>2, <3>3, Zenon
    <3>4. CASE Write(w, "failed", "blob", NoJob)
      BY <3>1, <3>2, <3>4, Zenon
    <3> QED
      BY <2>3, <3>3, <3>4
  <2>5. call'[w].arg.status = status /\ call'[w].arg.pdfKey = pdfKey
    BY <2>1, <2>2, <2>4, Writing
  <2> QED
    BY <2>2, <2>4, <2>5
<1> QED
  BY <1>2, <1>3, <1>4, <1>5, <1>6 DEF Work

\* A worker that gets the job of an outcome makes it one that was delivered
\* again, and one that is past writing has only to ack.
LEMMA OutcomeWork ==
  ASSUME Inv, OutcomeInv, NEW w \in Workers, Work(w)
  PROVE  OutcomeInv'
<1>1. /\ UNCHANGED hash
      /\ \A q \in Callers \ {w} : call'[q] = call[q]
      /\ \A v \in Workers \ {w} : wpc'[v] = wpc[v] /\ held'[v] = held[v]
  BY WorkShape
<1>2. /\ Workers \subseteq Callers /\ taken \in [Jobs -> 0..2]
      /\ held \in [Workers -> Jobs \cup {NoJob}] /\ wpc \in [Workers -> WorkerStates]
      /\ call \in [Callers -> CallType]
  BY CallersAssumption DEF Inv, TypeOK, StoreTypeOK, CallType
<1>3. \A v \in Workers \ {w} : Past(v) => Past(v)'
  BY <1>1, <1>2 DEF Past, Returned
<1>4. Delivered' /\ Ended'
  <2>1. CASE Zadd(w)
    <3>1. /\ wpc[w] = "lease" /\ Returned(w) /\ held' = held /\ held[w] \in Jobs
          /\ wpc'[w] = "check" \/ wpc'[w] = "putback"
      BY <1>2, <2>1, NoJobAssumption DEF Zadd, WorkerGoto, queueVars, Inv, WorkCalls
    <3>2. PICK job \in Jobs : job = held[w]
      BY <3>1
    <3>3. \/ wpc'[w] = "putback" /\ taken' = taken
          \/ taken' = [taken EXCEPT ![job] = IF @ = 0 THEN 1 ELSE 2]
      BY <1>2, <2>1, <3>2 DEF Zadd, WorkerGoto
    <3>4. /\ \A j \in Jobs \ {job} : taken'[j] = taken[j]
          /\ \/ wpc'[w] = "putback" /\ taken'[job] = taken[job]
             \/ taken'[job] # 0 /\ (taken'[job] = 1 => taken[job] = 0)
      BY <1>2, <3>3
    <3>5. /\ \A v \in Workers \ {w} : \A j \in Jobs : Working(v, j)' <=> Working(v, j)
          /\ \A j \in Jobs : Working(w, j)' => j = job /\ wpc'[w] = "check"
      BY <1>1, <3>1, <3>2 DEF Working
    <3>6. Delivered'
      BY <3>4, <3>5 DEF OutcomeInv, Delivered
    <3>7. Ended'
      <4> SUFFICES ASSUME NEW j \in Jobs, hash[j].status \in RenderOutcome
                   PROVE  /\ taken'[j] # 0
                          /\ taken'[j] = 1 => \A v \in Workers : Working(v, j)' => Past(v)'
        BY <1>1 DEF Ended
      <4>1. taken[j] # 0 /\ (taken[j] = 1 => \A v \in Workers : Working(v, j) => Past(v))
        BY DEF OutcomeInv, Ended
      <4> QED
        BY <1>3, <3>4, <3>5, <4>1
    <3> QED
      BY <3>6, <3>7
  <2>2. CASE ~Zadd(w)
    <3>1. taken' = taken
      BY <2>2 DEF Work, Brpop, PutBack, Check, RegisterJob, Render, ErrCheck, OkCheck, Put,
                  Finish, Ack, workVars, leaseVars
    <3>2. \A j \in Jobs : Working(w, j)' => Working(w, j)
      <4>1. CASE Brpop(w)
        BY <1>2, <4>1, NoJobAssumption DEF Brpop, WorkerGoto, Queue!Take, Queue!Lose, Working,
                                           Inv, WorkCalls
      <4>2. CASE PutBack(w) \/ Ack(w)
        BY <1>2, <4>2, NoJobAssumption DEF PutBack, Ack, Queue!GiveBack, Queue!Release, Working
      <4>3. CASE ~(Brpop(w) \/ PutBack(w) \/ Ack(w))
        BY <2>2, <4>3 DEF Work, Check, RegisterJob, Render, ErrCheck, OkCheck, Put, Finish,
                          WorkerGoto, queueVars, Working
      <4> QED
        BY <4>1, <4>2, <4>3
    <3>3. \A j \in Jobs : Past(w) /\ Working(w, j)' => Past(w)'
      <4> SUFFICES ASSUME Past(w), NEW j \in Jobs, Working(w, j)' PROVE Past(w)'
        OBVIOUS
      <4>1. ~Ack(w)
        BY <1>2, NoJobAssumption DEF Ack, Queue!Release, Working
      <4>2. Finish(w)
        BY <1>2, <2>2, <4>1 DEF Past, Work, Brpop, PutBack, Check, RegisterJob, Render, ErrCheck,
                                OkCheck, Put, WorkerGoto
      <4> QED
        BY <1>2, <4>2, NoneTypes DEF Finish, WorkerGoto, Ignore, Past, Returned
    <3>4. \A v \in Workers \ {w} : \A j \in Jobs : Working(v, j)' <=> Working(v, j)
      BY <1>1 DEF Working
    <3>5. Delivered'
      BY <3>1, <3>2, <3>4 DEF OutcomeInv, Delivered
    <3>6. Ended'
      BY <1>1, <1>3, <3>1, <3>2, <3>3, <3>4 DEF OutcomeInv, Ended
    <3> QED
      BY <3>5, <3>6
  <2> QED
    BY <2>1, <2>2
<1>5. blobs \subseteq blobs'
  BY DEF Work, Brpop, Zadd, PutBack, Check, RegisterJob, Render, ErrCheck, OkCheck, Put, Finish,
         Ack
<1>6. CompletedHasPDF'
  BY <1>1, <1>5 DEF OutcomeInv, CompletedHasPDF
<1>7. ASSUME NEW q \in Callers
      PROVE  Reports(q)'
  <2>1. CASE q # w
    BY <1>1, <1>5, <2>1 DEF OutcomeInv, Reports, InSet
  <2>2. CASE q = w
    BY <2>2, WorkArg DEF Reports
  <2> QED
    BY <2>1, <2>2
<1> QED
  BY <1>4, <1>6, <1>7 DEF OutcomeInv

\* Submissions write pending records, and cancel requests write later.
LEMMA OutcomeRequest ==
  ASSUME Inv, OutcomeInv, NEW p \in Jobs \cup Cancellers,
         \/ p \in Jobs /\ Submit(p)
         \/ p \in Cancellers /\ (CancelSignal(p) \/ \E i \in Jobs : CancelBegin(p, i))
  PROVE  OutcomeInv'
<1>1. /\ UNCHANGED <<hash, wpc, held, taken, blobs>>
      /\ call' = call \/ \E r : call' = [call EXCEPT ![p] = r]
  BY RequestShape
<1>2. /\ Workers \subseteq Callers /\ p \in Callers /\ p \notin Workers
      /\ StoreTypeOK /\ call \in [Callers -> CallType]
  BY CallersAssumption, RolesAssumption DEF Inv, TypeOK, StoreTypeOK, CallType
<1>3. \A q \in Callers \ {p} : call'[q] = call[q]
  BY <1>1, <1>2
<1>4. Delivered' /\ Ended' /\ CompletedHasPDF'
  BY <1>1, <1>2, <1>3 DEF OutcomeInv, Delivered, Ended, Working, Past, Returned,
                          CompletedHasPDF
<1>5. ASSUME InSet(p)'
      PROVE  call'[p] = call[p] \/ call'[p].arg.status = "pending"
  <2>1. CASE p \in Jobs /\ Submit(p)
    <3>1. CASE SubmitReserve(p)
      <4>1. PICK k \in Keys, o \in Outcomes :
              CASE Reserved(k, o) -> Initialize(p, k)
                [] o # "ok" -> Answer(p, "idempotency_error", NoJob) /\ UNCHANGED call
                [] OTHER -> SubmitGoto(p, "getkey") /\ UNCHANGED call
        BY <3>1 DEF SubmitReserve
      <4>2. call' = call \/ Set(p, p, Record(p, "pending", "", NoJob, k))
        BY <4>1 DEF Reserved, Initialize
      <4>3. PICK rec \in JobResult : rec = Record(p, "pending", "", NoJob, k)
        BY DEF Record, NewResult, JobResult, Status, Errors
      <4>4. rec.status = "pending"
        BY <4>3 DEF Record, NewResult
      <4>5. call' = call \/ Call(p, "set.hgetall", p, rec)
        BY <4>2, <4>3 DEF Set
      <4> QED
        BY <1>2, <2>1, <4>4, <4>5, Calling DEF Commands
    <3>2. CASE SubmitGetKey(p) \/ SubmitStorageError(p) \/ SubmitRejected(p)
      BY <3>2 DEF SubmitGetKey, SubmitStorageError, SubmitRejected, redisVars
    <3>3. CASE SubmitPush(p) \/ SubmitQueueFull(p)
      <4>1. call' = call \/ Call(p, "delete.hgetall", p, NoResult)
        BY <3>3 DEF SubmitPush, SubmitQueueFull, Delete
      <4> QED
        BY <1>2, <1>5, <2>1, <4>1, Calling, NoneTypes DEF Commands, InSet, Setting
    <3> QED
      BY <2>1, <3>1, <3>2, <3>3 DEF Submit
  <2>2. CASE p \in Cancellers /\ CancelSignal(p)
    <3>1. call' = [call EXCEPT ![p] = NoCall]
      BY <2>2 DEF CancelSignal
    <3> QED
      BY <1>2, <1>5, <3>1, NoneTypes DEF InSet, Setting
  <2>3. CASE p \in Cancellers /\ \E i \in Jobs : CancelBegin(p, i)
    <3>1. PICK i \in Jobs : Call(p, "cancel.hgetall", i, NoResult)
      BY <2>3 DEF CancelBegin, Cancel
    <3> QED
      BY <1>2, <1>5, <3>1, Calling, NoneTypes DEF Commands, InSet, Setting
  <2> QED
    BY <2>1, <2>2, <2>3
<1>6. ASSUME NEW q \in Callers
      PROVE  Reports(q)'
  <2>1. CASE q # p \/ call'[q] = call[q]
    BY <1>1, <1>3, <2>1 DEF OutcomeInv, Reports, InSet
  <2>2. CASE q = p /\ call'[q] # call[q]
    BY <1>5, <2>2 DEF Reports, RenderOutcome
  <2> QED
    BY <2>1, <2>2
<1> QED
  BY <1>4, <1>6 DEF OutcomeInv

\* No step breaks the invariant.
LEMMA OutcomeNext == Inv /\ OutcomeInv /\ [Next]_vars => OutcomeInv'
<1> SUFFICES ASSUME Inv, OutcomeInv, [Next]_vars PROVE OutcomeInv'
  OBVIOUS
<1>1. ASSUME NEW i \in Jobs, Redeliver(i) \/ Recover(i)
      PROVE  OutcomeInv'
  <2>1. UNCHANGED <<hash, call, wpc, held, taken, blobs>>
    BY <1>1 DEF Redeliver, Recover, queueVars, Queue!Enqueue
  <2> QED
    BY <2>1 DEF OutcomeInv, Delivered, Ended, Working, Past, Returned, CompletedHasPDF,
                Reports, InSet
<1>2. CASE UNCHANGED vars
  <2>1. UNCHANGED <<hash, call, wpc, held, taken, blobs>>
    BY <1>2 DEF vars, redisVars, workVars, leaseVars, queueVars
  <2> QED
    BY <2>1 DEF OutcomeInv, Delivered, Ended, Working, Past, Returned, CompletedHasPDF,
                Reports, InSet
<1>3. CASE Crash
  <2>1. /\ UNCHANGED <<hash, blobs, taken>> /\ held' = [w \in Workers |-> NoJob]
        /\ call' = [p \in Callers |-> IF p \in Workers THEN NoCall ELSE call[p]]
    BY <1>3 DEF Crash
  <2>2. /\ \A w \in Workers : \A j \in Jobs : held'[w] # j
        /\ \A p \in Callers : InSet(p)' => p \notin Workers /\ call'[p] = call[p]
    BY <2>1, NoJobAssumption, NoneTypes DEF InSet, Setting
  <2>3. Delivered' /\ Ended' /\ CompletedHasPDF'
    BY <2>1, <2>2 DEF OutcomeInv, Delivered, Ended, Working, CompletedHasPDF
  <2>4. \A p \in Callers : Reports(p)'
    BY <2>2 DEF OutcomeInv, Reports, InSet
  <2> QED
    BY <2>3, <2>4 DEF OutcomeInv
<1> QED
  BY <1>1, <1>2, <1>3, OutcomeCommand, OutcomeWork, OutcomeRequest DEF Next

\* Nothing is delivered or written at first.
LEMMA OutcomeInit == Init => OutcomeInv
<1> SUFFICES ASSUME Init PROVE OutcomeInv
  OBVIOUS
<1>1. /\ hash = [j \in Jobs |-> NoResult] /\ call = [p \in Callers |-> NoCall]
      /\ held = [w \in Workers |-> NoJob]
  BY DEF Init, StoreInit, Queue!QueueInit
<1>2. \A j \in Jobs : hash[j].status = "none"
  BY <1>1, NoneTypes
<1>3. \A p \in Callers : ~InSet(p)
  BY <1>1, NoneTypes DEF InSet, Setting
<1> QED
  BY <1>1, <1>2, <1>3, NoJobAssumption
     DEF OutcomeInv, Delivered, Ended, Working, CompletedHasPDF, Reports, RenderOutcome

\* Both invariants hold together.
LEMMA OutcomeInvAlways == Spec => [](Inv /\ OutcomeInv)
BY InitInv, NextInv, OutcomeInit, OutcomeNext, PTL DEF Spec

\* A record that says "completed" has its PDF, whatever fails and however
\* often the job is delivered.
THEOREM CompletedHasPDFAlways == Spec => []CompletedHasPDF
<1>1. OutcomeInv => CompletedHasPDF
  BY DEF OutcomeInv
<1> QED
  BY <1>1, OutcomeInvAlways, PTL

\* A cancel request that reads a record with an outcome does not write it:
\* who overrules an outcome has read the record before.
LEMMA NoLateOverruling ==
  ASSUME Inv, [Next]_vars, NEW j \in Jobs, hash[j].status \in RenderOutcome,
         NEW c \in Cancellers, Overruling(c, j)'
  PROVE  Overruling(c, j)
<1>1. /\ c \in Callers /\ c \notin Jobs /\ c \notin Workers
      /\ StoreTypeOK /\ call \in [Callers -> CallType]
      /\ InSet(c)' /\ ~Returned(c)' /\ call'[c].job = j
  BY CallersAssumption, RolesAssumption
     DEF Inv, TypeOK, StoreTypeOK, CallType, Overruling, InSet, Setting, Returned
<1>2. CASE call'[c] = call[c]
  BY <1>2 DEF Overruling
<1>3. ASSUME Command(c)
      PROVE  Overruling(c, j)
  <2>0. ~Returned(c)
    BY <1>1, <1>3, CommandShape
  <2>1. /\ ~Returned(c) /\ call[c].job = cjob[c] /\ cjob' = cjob /\ StoreStep(c)
        /\ InSet(c) \/ call[c].at = "cancel.hgetall"
    BY <1>3, <2>0 DEF Command, cancelVars, Inv, CancelCalls
  <2>2. Inv'
    BY NextInv
  <2>3. call[c].job = j
    BY <1>1, <2>1, <2>2 DEF Inv, CancelCalls
  <2>4. call[c].at # "cancel.hgetall"
    <3> SUFFICES ASSUME call[c].at = "cancel.hgetall" PROVE FALSE
      OBVIOUS
    <3>1. CancelHgetall(c)
      BY <2>1 DEF StoreStep, SetHgetall, SetLpush, SetHset, DeleteHgetall, DeleteDel,
                  DeleteLrem, DeleteKey
    <3>2. PICK o \in Outcomes : LET result == Get(j, o) IN
            IF result.status \in Terminal \cup {"none"}
              THEN Return(c, result = NoResult)
              ELSE Set(c, j, [result EXCEPT !.status = "canceled", !.error = "job canceled"])
      BY <2>3, <3>1 DEF CancelHgetall
    <3>3. Get(j, o).status \in Terminal \cup {"none"}
      BY NoneTypes DEF Get, RenderOutcome, Terminal
    <3>4. PICK err \in BOOLEAN : Return(c, err)
      BY <3>2, <3>3
    <3> QED
      BY <1>1, <3>4, Returning DEF Returned
  <2> QED
    BY <2>1, <2>3, <2>4 DEF Overruling, InSet, Setting
<1>4. ASSUME NEW p \in Callers, Command(p)
      PROVE  Overruling(c, j)
  BY <1>1, <1>2, <1>3, <1>4, CommandShape
<1>5. ASSUME NEW i \in Jobs, Submit(i) \/ Redeliver(i) \/ Recover(i)
      PROVE  call'[c] = call[c]
  <2>1. CASE Submit(i)
    BY <1>1, <2>1, RequestShape
  <2>2. CASE Redeliver(i) \/ Recover(i)
    BY <2>2 DEF Redeliver, Recover
  <2> QED
    BY <1>5, <2>1, <2>2
<1>6. ASSUME NEW d \in Cancellers, CancelSignal(d) \/ \E i \in Jobs : CancelBegin(d, i)
      PROVE  call'[c] = call[c]
  <2>1. CASE d # c
    BY <1>1, <1>6, <2>1, RequestShape
  <2>2. CASE d = c /\ CancelSignal(d)
    <3>1. call'[c] = NoCall
      BY <1>1, <2>2 DEF CancelSignal
    <3> QED
      BY <1>1, <3>1, NoneTypes DEF Returned
  <2>3. CASE d = c /\ \E i \in Jobs : CancelBegin(d, i)
    <3>1. PICK i \in Jobs : Call(c, "cancel.hgetall", i, NoResult)
      BY <2>3 DEF CancelBegin, Cancel
    <3>2. call'[c].at = "cancel.hgetall"
      BY <1>1, <3>1, Calling, NoneTypes DEF Commands
    <3> QED
      BY <1>1, <3>2 DEF InSet, Setting
  <2> QED
    BY <1>6, <2>1, <2>2, <2>3
<1>7. ASSUME NEW w \in Workers, Work(w)
      PROVE  call'[c] = call[c]
  BY <1>1, <1>7, WorkShape
<1>8. CASE Crash \/ UNCHANGED vars
  BY <1>1, <1>8 DEF Crash, vars, redisVars, Overruling
<1> QED
  BY <1>2, <1>4, <1>5, <1>6, <1>7, <1>8 DEF Next

\* An outcome gives way only to a cancel request that had read the record
\* before, or to a second delivery.
THEOREM OutcomeIsFinalAlways == Spec => OutcomeIsFinal
<1>1. ASSUME Inv, OutcomeInv, [Next]_vars, NEW j \in Jobs, Accepted(j), taken[j] < 2,
             hash[j].status \in {"completed", "failed"}
      PROVE  \/ hash'[j].status = hash[j].status
             \/ /\ hash'[j].status = "canceled"
                /\ \E c \in Cancellers : Overruling(c, j)
  <2>1. /\ spc[j] = "done" /\ hash \in [Jobs -> JobResult]
        /\ \A w \in Workers : held[w] = j => Returned(w)
    <3>1. taken[j] = 1
      BY <1>1 DEF OutcomeInv, Ended, RenderOutcome, Inv, TypeOK
    <3>2. ASSUME NEW w \in Workers, held[w] = j
          PROVE  Returned(w)
      <4>1. CASE Working(w, j)
        BY <1>1, <3>1, <3>2, <4>1 DEF OutcomeInv, Ended, RenderOutcome, Past
      <4>2. CASE ~Working(w, j)
        BY <1>1, <3>2, <4>2, NoneTypes DEF Working, Inv, WorkCalls, Returned
      <4> QED
        BY <4>1, <4>2
    <3> QED
      BY <1>1, <3>2 DEF Inv, TypeOK, StoreTypeOK, Accepted, Replied
  <2>2. ASSUME NEW p \in Callers, Command(p)
        PROVE  \/ hash'[j].status = hash[j].status
               \/ /\ hash'[j].status = "canceled"
                  /\ \E c \in Cancellers : Overruling(c, j)
    <3>1. /\ ~Returned(p) /\ call[p].job \in Jobs
          /\ \/ hash' = hash
             \/ SetHset(p) /\ hash' = [hash EXCEPT ![call[p].job] = call[p].arg]
             \/ DeleteDel(p) /\ hash' = [hash EXCEPT ![call[p].job] = NoResult]
      BY <1>1, <2>2, CommandShape
    <3>2. CASE hash' = hash \/ call[p].job # j
      BY <2>1, <3>1, <3>2
    <3>3. CASE DeleteDel(p) /\ call[p].job = j
      BY <1>1, <2>1, <3>3, DelRollsBack
    <3>4. CASE SetHset(p) /\ call[p].job = j /\ hash' = [hash EXCEPT ![call[p].job] = call[p].arg]
      <4>1. InSet(p)
        BY <3>4 DEF SetHset, InSet, Setting
      <4>2. p \in Cancellers
        BY <1>1, <2>1, <3>1, <3>4, <4>1, WhoCalls
      <4>3. call[p].arg.status = "canceled" /\ Overruling(p, j)
        BY <1>1, <3>4, <4>1, <4>2 DEF Inv, CancelCalls, Overruling, InSet, Setting
      <4> QED
        BY <2>1, <3>4, <4>2, <4>3
    <3> QED
      BY <3>1, <3>2, <3>3, <3>4
  <2>3. ASSUME NEW w \in Workers, Work(w)
        PROVE  hash' = hash
    BY <1>1, <2>3, WorkShape
  <2>4. ASSUME NEW i \in Jobs, Submit(i) \/ Redeliver(i) \/ Recover(i)
        PROVE  hash' = hash
    BY <1>1, <2>4, RequestShape DEF Redeliver, Recover
  <2>5. ASSUME NEW c \in Cancellers, CancelSignal(c) \/ \E i \in Jobs : CancelBegin(c, i)
        PROVE  hash' = hash
    BY <1>1, <2>5, RequestShape
  <2>6. CASE Crash \/ UNCHANGED vars
    BY <2>6 DEF Crash, vars, redisVars
  <2> QED
    BY <1>1, <2>2, <2>3, <2>4, <2>5, <2>6 DEF Next
<1>2. ASSUME Inv, [Next]_vars, NEW j \in Jobs, hash[j].status \in {"completed", "failed"},
             NEW c \in Cancellers, Overruling(c, j)'
      PROVE  Overruling(c, j)
  BY <1>2, NoLateOverruling DEF RenderOutcome
<1>3. Inv /\ OutcomeInv /\ [Next]_vars =>
        [\A j \in Jobs :
           Accepted(j) /\ taken[j] < 2 /\ hash[j].status \in {"completed", "failed"} =>
             /\ \/ hash'[j].status = hash[j].status
                \/ /\ hash'[j].status = "canceled"
                   /\ \E c \in Cancellers : Overruling(c, j)
             /\ \A c \in Cancellers : Overruling(c, j)' => Overruling(c, j)]_vars
  BY <1>1, <1>2
<1> QED
  BY <1>3, OutcomeInvAlways, PTL DEF Spec, OutcomeIsFinal
=============================================================================
