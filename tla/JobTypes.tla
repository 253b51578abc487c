------------------------------ MODULE JobTypes ------------------------------
(***************************************************************************)
(* The vocabulary shared by every component: job identifiers, idempotency  *)
(* keys, job statuses and the metadata record kept for a job               *)
(* (internal/queue/types.go).                                              *)
(*                                                                         *)
(* URLs, request identifiers, sizes and time stamps are carried along by   *)
(* the code but decide nothing, so they are left out.  A callback URL is   *)
(* either present or absent.                                               *)
(***************************************************************************)
EXTENDS Naturals, Sequences, FiniteSets

CONSTANTS
  Jobs,     \* the UUIDs that SubmitJob draws; each is drawn at most once
  Keys,     \* idempotency keys clients may send
  NoJob,    \* stands for "no job identifier" (Go's empty string)
  NoKey     \* stands for "no idempotency key" (Go's empty string)

ASSUME NoJobAssumption == NoJob \notin Jobs
ASSUME NoKeyAssumption == NoKey \notin Keys

\* queue.JobStatus; "none" is the absence of a record in the map.
Terminal == {"completed", "failed", "canceled"}
Status   == {"none", "pending", "processing"} \cup Terminal

\* Where the Error field comes from: nothing, the renderer, the context the
\* job was rendered under, a shutdown, the blob store, or Cancel.
Errors == {"", "render", "context canceled", "interrupted", "blob",
           "job canceled"}

\* queue.JobResult.  pdfKey is the job identifier the key "pdf/<id>.pdf" is
\* made from; NoJob is the empty key.
JobResult == [status : Status, error : Errors, pdfKey : Jobs \cup {NoJob},
              key : Keys \cup {NoKey}, callback : BOOLEAN]

NoResult == [status |-> "none", error |-> "", pdfKey |-> NoJob,
             key |-> NoKey, callback |-> FALSE]

\* What a request asks for, after trimming: queue.Job without its identifier.
Payload == [key : Keys \cup {NoKey}, callback : BOOLEAN]

\* The JobResult literal every caller of Set builds from a job's payload.
NewResult(payload, status, error, pdfKey) ==
  [status |-> status, error |-> error, pdfKey |-> pdfKey,
   key |-> payload.key, callback |-> payload.callback]
=============================================================================
