--------------------------- MODULE MemoryStorage ---------------------------
(***************************************************************************)
(* The in-memory metadata store (internal/storage/memory.go).  Every       *)
(* operator below is one critical section of MemoryStorage.mu, so it is    *)
(* atomic; MemoryStorage.Cancel is two of them (Get, then Set) and is      *)
(* therefore split over two steps of the API handler (module Api).         *)
(* The onSet callback only publishes a snapshot to dashboard clients and   *)
(* changes nothing that is modelled here.                                  *)
(***************************************************************************)
EXTENDS JobTypes, SequencesExt

VARIABLES
  results,       \* results map: job -> JobResult, NoResult when absent
  idempotency,   \* idempotency map: key -> job, NoJob when absent
  order          \* job identifiers in order of insertion

storeVars == <<results, idempotency, order>>

StoreTypeOK ==
  /\ results \in [Jobs -> JobResult]
  /\ idempotency \in [Keys -> Jobs \cup {NoJob}]
  /\ order \in Seq(Jobs)

StoreInit ==
  /\ results = [j \in Jobs |-> NoResult]
  /\ idempotency = [k \in Keys |-> NoJob]
  /\ order = <<>>

Exists(j) == results[j].status # "none"

IsCanceled(j) == results[j].status = "canceled"

-----------------------------------------------------------------------------
(* Set: fields the caller left empty are taken over from the record that   *)
(* is there already.                                                       *)

Merge(existing, result) ==
  IF existing.status = "none"
    THEN result
    ELSE [result EXCEPT !.key      = IF @ = NoKey THEN existing.key ELSE @,
                        !.callback = @ \/ existing.callback]

\* Mutant of Set: a known job is listed again.
SetListsAgain(j, result) ==
  /\ order' = Append(order, j)
  /\ results' = [results EXCEPT ![j] = Merge(@, result)]
  /\ UNCHANGED idempotency

Set(j, result) ==
  /\ order' = IF Exists(j) THEN order ELSE Append(order, j)
  /\ results' = [results EXCEPT ![j] = Merge(@, result)]
  /\ UNCHANGED idempotency

-----------------------------------------------------------------------------
(* Delete: the record, the idempotency key it names, and its place in the  *)
(* order.                                                                  *)

\* Mutant of Delete: the idempotency key stays reserved.
DeleteKeepsKey(j) ==
  /\ results' = [results EXCEPT ![j] = NoResult]
  /\ order' = RemoveFirst(order, j)
  /\ UNCHANGED idempotency

Delete(j) ==
  IF Exists(j)
    THEN /\ results' = [results EXCEPT ![j] = NoResult]
         /\ idempotency' = [k \in Keys |->
              IF k = results[j].key THEN NoJob ELSE idempotency[k]]
         /\ order' = RemoveFirst(order, j)
    ELSE UNCHANGED storeVars

-----------------------------------------------------------------------------
(* ReserveIdempotencyKey.  The empty key always reserves and leaves no     *)
(* trace.                                                                  *)

\* Mutant of CanReserve: the key of a failed job may be used again.
CanReserveFailed(key) ==
  key \in Keys /\ idempotency[key] \in Jobs
    => results[idempotency[key]].status = "failed"

CanReserve(key) == key \in Keys => idempotency[key] = NoJob

ReserveIdempotencyKey(key, j) ==
  /\ CanReserve(key)
  /\ idempotency' = IF key = NoKey THEN idempotency
                                   ELSE [idempotency EXCEPT ![key] = j]
  /\ UNCHANGED <<results, order>>
=============================================================================
