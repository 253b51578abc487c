----------------------------- MODULE AtLeastOnce -----------------------------
(***************************************************************************)
(* What the Redis queue promises its users, and no more: a job whose Push  *)
(* was begun may be in the queue in any number of copies; a delivery takes *)
(* one copy to one worker; a copy may come back, be queued again or get    *)
(* lost.  RedisQueue implements it; RedisService takes the steps of its    *)
(* queue from it and adds when a lease is written, ends or is left behind. *)
(***************************************************************************)
EXTENDS Naturals

CONSTANTS
  Jobs, Workers,
  NoJob       \* held by a worker between jobs

VARIABLES
  begun,      \* jobs whose Push was begun
  copies,     \* job -> copies a worker can be given
  held        \* worker -> the job delivered to it

queueVars == <<begun, copies, held>>

QueueInit ==
  /\ begun = {}
  /\ copies = [j \in Jobs |-> 0]
  /\ held = [w \in Workers |-> NoJob]

Begin(j) ==
  /\ begun' = begun \cup {j}
  /\ UNCHANGED <<copies, held>>

\* Push has sent the job, or a lease of it is requeued.
Enqueue(j) ==
  /\ j \in begun
  /\ copies' = [copies EXCEPT ![j] = @ + 1]
  /\ UNCHANGED <<begun, held>>

Take(w, j) ==
  /\ held[w] = NoJob /\ copies[j] > 0
  /\ copies' = [copies EXCEPT ![j] = @ - 1]
  /\ held' = [held EXCEPT ![w] = j]
  /\ UNCHANGED begun

\* Ack, or the death of the worker's process.
Release(w) ==
  /\ held' = [held EXCEPT ![w] = NoJob]
  /\ UNCHANGED <<begun, copies>>

GiveBack(w) ==
  /\ held[w] # NoJob
  /\ copies' = [copies EXCEPT ![held[w]] = @ + 1]
  /\ held' = [held EXCEPT ![w] = NoJob]
  /\ UNCHANGED begun

Lose(j) ==
  /\ copies[j] > 0
  /\ copies' = [copies EXCEPT ![j] = @ - 1]
  /\ UNCHANGED <<begun, held>>

QueueNext ==
  \/ \E j \in Jobs : Begin(j) \/ Enqueue(j) \/ Lose(j)
  \/ \E w \in Workers : Release(w) \/ GiveBack(w) \/ \E j \in Jobs : Take(w, j)

QueueSpec == QueueInit /\ [][QueueNext]_queueVars
=============================================================================
