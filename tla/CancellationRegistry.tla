------------------------ MODULE CancellationRegistry ------------------------
(***************************************************************************)
(* The registry of in-flight renders (internal/cancellation/registry.go):  *)
(* a map from job identifier to the cancel function of the context some    *)
(* worker renders it under.  A worker has at most one such context at a    *)
(* time, so the cancel function is named by its worker.                    *)
(***************************************************************************)
EXTENDS JobTypes

CONSTANTS
  Workers,    \* the goroutines of the worker pool
  NoWorker    \* no cancel function registered

ASSUME NoWorkerAssumption == NoWorker \notin Workers

VARIABLES
  cancels,   \* job -> worker whose cancel function is registered
  jobCtx     \* worker -> TRUE when the context of its job was canceled

registryVars == <<cancels, jobCtx>>

RegistryTypeOK ==
  /\ cancels \in [Jobs -> Workers \cup {NoWorker}]
  /\ jobCtx \in [Workers -> BOOLEAN]

RegistryInit ==
  /\ cancels = [j \in Jobs |-> NoWorker]
  /\ jobCtx = [w \in Workers |-> FALSE]

\* context.WithCancel and Register: a fresh context, entered in the map.
Register(j, w) ==
  /\ cancels' = [cancels EXCEPT ![j] = w]
  /\ jobCtx' = [jobCtx EXCEPT ![w] = FALSE]

\* Mutant of Unregister: the entry is left behind.
UnregisterForgets(j, w) ==
  /\ jobCtx' = [jobCtx EXCEPT ![w] = FALSE]
  /\ UNCHANGED cancels

\* The deferred cancel() and Unregister: the context is gone and so is the
\* entry, whoever owns it.
Unregister(j, w) ==
  /\ cancels' = [cancels EXCEPT ![j] = NoWorker]
  /\ jobCtx' = [jobCtx EXCEPT ![w] = FALSE]

\* Cancel: call the registered cancel function, if there is one.
CancelContext(j) ==
  /\ jobCtx' = [w \in Workers |-> jobCtx[w] \/ cancels[j] = w]
  /\ UNCHANGED cancels
=============================================================================
