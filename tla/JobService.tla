----------------------------- MODULE JobService -----------------------------
(***************************************************************************)
(* What the service promises about the jobs it accepts, with none of the   *)
(* machinery: a job is accepted at most once, no two accepted jobs share   *)
(* an idempotency key, at most Capacity jobs wait, they start in the order *)
(* of their acceptance, and each is run at most once.                      *)
(***************************************************************************)
EXTENDS Naturals, Sequences

CONSTANTS Jobs, Keys, NoKey, Capacity

VARIABLES
  keyOf,     \* accepted job -> its key
  waiting,   \* accepted jobs no worker has taken, oldest first
  running,   \* jobs some worker holds
  done       \* jobs no worker will touch again

vars == <<keyOf, waiting, running, done>>

Waiting == {waiting[i] : i \in 1..Len(waiting)}
Accepted == Waiting \cup running \cup done

Init ==
  /\ keyOf = [j \in Jobs |-> NoKey]
  /\ waiting = <<>>
  /\ running = {}
  /\ done = {}

Admissible(j, k) ==
  /\ j \notin Accepted
  /\ k = NoKey \/ \A i \in Accepted : keyOf[i] # k

Accept(j, k) ==
  /\ Admissible(j, k)
  /\ Len(waiting) < Capacity
  /\ waiting' = Append(waiting, j)
  /\ keyOf' = [keyOf EXCEPT ![j] = k]
  /\ UNCHANGED <<running, done>>

\* Without room to wait, a job can still start at once.
AcceptAndStart(j, k) ==
  /\ Admissible(j, k)
  /\ waiting = <<>>
  /\ running' = running \cup {j}
  /\ keyOf' = [keyOf EXCEPT ![j] = k]
  /\ UNCHANGED <<waiting, done>>

Start ==
  /\ waiting # <<>>
  /\ running' = running \cup {Head(waiting)}
  /\ waiting' = Tail(waiting)
  /\ UNCHANGED <<keyOf, done>>

End(j) ==
  /\ j \in running
  /\ running' = running \ {j}
  /\ done' = done \cup {j}
  /\ UNCHANGED <<keyOf, waiting>>

Next ==
  \/ \E j \in Jobs, k \in Keys \cup {NoKey} : Accept(j, k) \/ AcceptAndStart(j, k)
  \/ Start
  \/ \E j \in Jobs : End(j)

Spec == Init /\ [][Next]_vars
=============================================================================
