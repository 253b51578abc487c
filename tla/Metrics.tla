------------------------------ MODULE Metrics ------------------------------
(***************************************************************************)
(* The job counters of internal/observability/metrics.go.  Each method     *)
(* holds Metrics.mu and only adds, so it can be merged into the step of    *)
(* the handler or worker next to it.                                       *)
(***************************************************************************)
EXTENDS JobTypes

VARIABLE metrics

\* Labels of chromaflow_jobs_rejected_total that the memory backends reach.
Reasons == {"invalid_json", "invalid_url", "missing_idempotency_key",
            "invalid_callback_url", "queue_full"}

MetricsTypeOK ==
  metrics \in [submitted : Nat, rejected : [Reasons -> Nat],
               finished : [Terminal -> Nat]]

MetricsInit ==
  metrics = [submitted |-> 0, rejected |-> [r \in Reasons |-> 0],
             finished |-> [s \in Terminal |-> 0]]

JobSubmitted == metrics' = [metrics EXCEPT !.submitted = @ + 1]

JobRejected(reason) == metrics' = [metrics EXCEPT !.rejected[reason] = @ + 1]

RenderFinished(status) == metrics' = [metrics EXCEPT !.finished[status] = @ + 1]
=============================================================================
