---------------------------- MODULE MemoryQueue ----------------------------
(***************************************************************************)
(* The in-memory queue (internal/queue/memory.go): a buffered Go channel   *)
(* of capacity QueueSize.                                                  *)
(*                                                                         *)
(* A Job value is copied through the channel and never changed, so the     *)
(* channel carries identifiers and the rest of the value is kept once, in  *)
(* payload.                                                                *)
(***************************************************************************)
EXTENDS JobTypes

CONSTANT QueueSize   \* QUEUE_SIZE, the capacity of the channel

ASSUME QueueSizeAssumption == QueueSize \in Nat

VARIABLES
  jobs,      \* contents of the channel, oldest first
  payload    \* job -> the request it was made from

queueVars == <<jobs, payload>>

QueueTypeOK ==
  /\ jobs \in Seq(Jobs)
  /\ payload \in [Jobs -> Payload]

QueueInit ==
  /\ jobs = <<>>
  /\ payload = [j \in Jobs |-> [key |-> NoKey, callback |-> FALSE]]

InQueue(j) == \E i \in 1..Len(jobs) : jobs[i] = j

\* The send case of Push's select is ready.
HasRoom == Len(jobs) < QueueSize

Push(j) ==
  /\ HasRoom
  /\ jobs' = Append(jobs, j)

\* Mutants of Receive: the newest job first; the job stays in the channel.
ReceiveNewest(j) ==
  /\ jobs # <<>>
  /\ j = jobs[Len(jobs)]
  /\ jobs' = SubSeq(jobs, 1, Len(jobs) - 1)

ReceivePeeks(j) ==
  /\ jobs # <<>>
  /\ j = Head(jobs)
  /\ UNCHANGED jobs

\* The receive case of Pop's select, for a non-empty buffer.
Receive(j) ==
  /\ jobs # <<>>
  /\ j = Head(jobs)
  /\ jobs' = Tail(jobs)
=============================================================================
