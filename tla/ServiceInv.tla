----------------------------- MODULE ServiceInv -----------------------------
(***************************************************************************)
(* The inductive invariant behind the safety properties of Service, as a   *)
(* conjunction of named parts.  Each part is about one data structure and  *)
(* says how it agrees with the program counters of the goroutines.         *)
(***************************************************************************)
EXTENDS Service

\* A worker holds a job exactly inside processJob, a canceller exactly inside
\* CancelJob, and a worker that backs off has an attempt left.
HoldsJob ==
  /\ \A w \in Workers : wpc[w] \in InJob <=> wjob[w] \in Jobs
  /\ \A w \in Workers : wpc[w] = "backoff" => attempt[w] <= RenderMaxRetries
  /\ \A c \in Cancellers : cpc[c] # "idle" <=> cjob[c] \in Jobs

\* SubmitJob answers as its last step.
Replied == \A j \in Jobs : reply[j].code # "none" <=> spc[j] = "done"

\* A worker or the channel has a job only after Push took it.
Placed ==
  \A j \in Jobs :
    InQueue(j) \/ (\E w \in Workers : wjob[w] = j) => Accepted(j)

\* The channel never holds more than its capacity.
Bounded == Len(jobs) <= QueueSize

\* SubmitJob is between its reservation and its answer, or succeeded.
Live(j) == spc[j] \in {"init", "push", "rollback"} \/ Accepted(j)

\* The idempotency map holds exactly the keys of the live submissions.
KeysOwned ==
  /\ \A j \in Jobs : Live(j) /\ payload[j].key \in Keys
       => idempotency[payload[j].key] = j
  /\ \A k \in Keys : idempotency[k] \in Jobs
       => Live(idempotency[k]) /\ payload[idempotency[k]].key = k

\* A record, and every copy of one that a canceller holds, repeats what its
\* request asked for.
SamePayload(r, j) == r.key = payload[j].key /\ r.callback = payload[j].callback

\* Records appear with SubmitInit and stay unless SubmitJob rolls back.
Recorded ==
  /\ \A j \in Jobs : Exists(j) =>
       spc[j] \notin {"idle", "init"} /\ SamePayload(results[j], j)
  /\ \A j \in Jobs : spc[j] \in {"push", "rollback"} \/ Accepted(j) => Exists(j)
  /\ \A c \in Cancellers : cpc[c] = "write" =>
       /\ spc[cjob[c]] \notin {"idle", "init"}
       /\ SamePayload(ccopy[c], cjob[c])

\* Only rollback writes nothing back: what is left of a rejected job is
\* nothing or the write of a canceller.
RolledBack ==
  \A j \in Jobs : spc[j] = "done" /\ ~Accepted(j)
    => results[j].status \in {"none", "canceled"}

\* The blob is there before the record says so.
BlobFirst ==
  /\ \A w \in Workers : wpc[w] = "complete" => wjob[w] \in blobs
  /\ \A j \in Jobs : results[j].status = "completed"
       => results[j].pdfKey = j /\ j \in blobs

\* A worker is silent until it is done with a job, holds an error exactly
\* while it has one to report, and then reports what it wrote last.
Unreported(w) == wpc[w] \in InJob \ {"finish"}

ReportsTruly(w) ==
  /\ Unreported(w) => hooks[wjob[w]] = <<>>
  /\ wpc[w] \in {"errcheck", "fail"} => werr[w] # ""
  /\ wpc[w] \notin {"errcheck", "fail", "notify"} => werr[w] = ""
  /\ wpc[w] = "notify" => results[wjob[w]].status \in {NotifiedStatus(w), "canceled"}

Reported ==
  /\ \A j \in Jobs : ~Accepted(j) \/ InQueue(j) => hooks[j] = <<>>
  /\ \A w \in Workers : ReportsTruly(w)

\* A job with an outcome is in no hands that could still write its record.
Ended ==
  \A j \in Jobs : results[j].status \in {"completed", "failed"} =>
    /\ Accepted(j) /\ ~InQueue(j)
    /\ \A w \in Workers : wjob[w] = j => wpc[w] \in {"notify", "finish"}

\* No worker will call RenderFinished for j any more.
PastCount == {"fail", "notify", "finish"}

Counted(j) ==
  /\ Accepted(j) /\ ~InQueue(j)
  /\ \A w \in Workers : wjob[w] = j => wpc[w] \in PastCount

\* Every call of RenderFinished was for another job, one that is past it.
CountedOnce ==
  /\ IsFiniteSet({j \in Jobs : Accepted(j)})
  /\ FinishedTotal <= Cardinality({j \in Jobs : Counted(j)})

\* The inductive invariant.
IInv ==
  /\ TypeOK /\ HoldsJob /\ Replied /\ Placed /\ HeldOnce /\ Bounded
  /\ KeysOwned /\ Recorded /\ RolledBack /\ BlobFirst /\ Reported
  /\ NoStrandedJob /\ RenderIsCancelable /\ WebhookAgrees /\ ListedOnce
  /\ Ended /\ CountedOnce
=============================================================================
