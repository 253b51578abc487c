----------------------------- MODULE Generator -----------------------------
(***************************************************************************)
(* The PDF generator (internal/pdf/generator.go): workers share one        *)
(* browser, which the first of them launches (or reaches at CHROME_WS_URL) *)
(* under a mutex, and which main closes when it returns.                   *)
(*                                                                         *)
(* External, after how the code uses rod: Launch leaves no process behind  *)
(* when it fails, Launch and Connect fail once their context is done, and  *)
(* Kill ends the process.  A page needs nothing of the generator but the   *)
(* browser it is opened in, so it is one step.                             *)
(***************************************************************************)
EXTENDS Naturals, FiniteSets

CONSTANTS
  Workers,      \* goroutines that call GeneratePDF, again and again
  Nobody,       \* the holder of a free mutex
  MaxLaunches   \* bound on browsers launched or connected to

ASSUME NobodyAssumption == Nobody \notin Workers
ASSUME MaxLaunchesAssumption == MaxLaunches \in Nat \ {0}

VARIABLES
  remote,        \* is CHROME_WS_URL set
  mu,            \* holder of Generator.mu
  gpc,           \* worker -> where it is in GeneratePDF
  browser,       \* worker -> its local variable, 0 for none
  browserInst,   \* the shared browser, 0 for nil
  cleanup,       \* the browser its cleanup function kills, 0 for nil
  launches,      \* browsers so far
  alive,         \* browsers that run
  expired,       \* workers whose context has ended by itself
  mpc            \* where main is

callVars == <<gpc, browser>>
sharedVars == <<mu, browserInst, cleanup>>
browserVars == <<launches, alive>>
vars == <<remote, callVars, sharedVars, browserVars, expired, mpc>>

Init ==
  /\ remote \in BOOLEAN
  /\ mu = Nobody /\ browserInst = 0 /\ cleanup = 0
  /\ gpc = [w \in Workers |-> "idle"] /\ browser = [w \in Workers |-> 0]
  /\ launches = 0 /\ alive = {}
  /\ expired = {} /\ mpc = "serve"

Running == mpc \notin {"exited", "aborted"}

\* The context of GeneratePDF: PAGE_TIMEOUT or the job's cancellation, or the
\* pool's context that main canceled.
CtxDone(w) == w \in expired \/ mpc # "serve"

-----------------------------------------------------------------------------
(* GeneratePDF and ensureBrowser.                                          *)

Goto(w, from, to) ==
  /\ Running
  /\ gpc[w] = from /\ gpc' = [gpc EXCEPT ![w] = to]
  /\ UNCHANGED <<remote, mpc>>

Generate(w) ==
  /\ Goto(w, "idle", "ensure")
  /\ expired' = expired \ {w}
  /\ UNCHANGED <<browser, sharedVars, browserVars>>

\* Mutant of Expire: GeneratePDF sets no timeout of its own.
ExpireNever(w) == FALSE /\ UNCHANGED vars

Expire(w) ==
  /\ Running
  /\ gpc[w] # "idle" /\ expired' = expired \cup {w}
  /\ UNCHANGED <<remote, callVars, sharedVars, browserVars, mpc>>

\* The browser is there already.  Nobody asks whether it still runs.
EnsureShared(w) ==
  /\ mu = Nobody /\ browserInst # 0
  /\ Goto(w, "ensure", "page")
  /\ browser' = [browser EXCEPT ![w] = browserInst]
  /\ UNCHANGED <<sharedVars, browserVars, expired>>

EnsureNew(w) ==
  /\ mu = Nobody /\ browserInst = 0
  /\ Goto(w, "ensure", "launch")
  /\ mu' = w
  /\ UNCHANGED <<browser, browserInst, cleanup, browserVars, expired>>

\* browserControlURL.  A remote browser runs already.
Launch(w) ==
  /\ ~CtxDone(w) /\ launches < MaxLaunches
  /\ Goto(w, "launch", "connect")
  /\ launches' = launches + 1 /\ alive' = alive \cup {launches'}
  /\ browser' = [browser EXCEPT ![w] = launches']
  /\ UNCHANGED <<sharedVars, expired>>

Return(w, from) ==
  /\ Goto(w, from, "idle")
  /\ browser' = [browser EXCEPT ![w] = 0]

LaunchFails(w) ==
  /\ Return(w, "launch")
  /\ mu' = Nobody
  /\ UNCHANGED <<browserInst, cleanup, browserVars, expired>>

Connect(w) ==
  /\ ~CtxDone(w) /\ browser[w] \in alive
  /\ Goto(w, "connect", "page")
  /\ browserInst' = browser[w] /\ cleanup' = browser[w]
  /\ mu' = Nobody
  /\ UNCHANGED <<browser, browserVars, expired>>

\* cleanup() kills what was launched, and nothing that is remote.
ConnectFails(w) ==
  /\ alive' = IF remote THEN alive ELSE alive \ {browser[w]}
  /\ Return(w, "connect")
  /\ mu' = Nobody
  /\ UNCHANGED <<browserInst, cleanup, launches, expired>>

\* Opening, loading, printing and reading the page: with the browser dead or
\* the context done there is no PDF, otherwise there may be.
PagePrinted(w) ==
  /\ ~CtxDone(w) /\ browser[w] \in alive
  /\ Return(w, "page")
  /\ UNCHANGED <<sharedVars, browserVars, expired>>

PageFails(w) ==
  /\ Return(w, "page")
  /\ UNCHANGED <<sharedVars, browserVars, expired>>

Fails(w) == LaunchFails(w) \/ ConnectFails(w) \/ PageFails(w)
Ensure(w) == EnsureShared(w) \/ EnsureNew(w)

-----------------------------------------------------------------------------
(* The browser and main.                                                   *)

Dies(b) ==
  /\ Running
  /\ b \in alive /\ alive' = alive \ {b}
  /\ UNCHANGED <<remote, callVars, sharedVars, launches, expired, mpc>>

MainGoto(from, to) ==
  /\ mpc = from /\ mpc' = to
  /\ UNCHANGED <<remote, callVars, launches, expired>>

\* server.Shutdown gave up: os.Exit runs no deferred call.
Abort == MainGoto("serve", "aborted") /\ UNCHANGED <<sharedVars, alive>>

\* cancel(), after which pool.Wait returns or gives up.
CancelPool == MainGoto("serve", "stopping") /\ UNCHANGED <<sharedVars, alive>>

\* browserInst.Close asks even a remote browser to end, and its result is
\* ignored; then the cleanup function kills what was launched.
Forget ==
  /\ alive' \in IF remote THEN {alive, alive \ {browserInst}} ELSE {alive \ {cleanup}}
  /\ browserInst' = 0 /\ cleanup' = 0
  /\ UNCHANGED mu

\* Mutant of Close: it does not wait for the mutex.
CloseUnlocked == MainGoto("stopping", "closed") /\ Forget

Close ==
  /\ mu = Nobody
  /\ MainGoto("stopping", "closed")
  /\ Forget

Exit == MainGoto("closed", "exited") /\ UNCHANGED <<sharedVars, alive>>

Next ==
  \/ \E w \in Workers :
       \/ Generate(w) \/ Expire(w) \/ Ensure(w) \/ Launch(w) \/ Connect(w)
       \/ PagePrinted(w) \/ Fails(w)
  \/ \E b \in 1..MaxLaunches : Dies(b)
  \/ Abort \/ CancelPool \/ Close \/ Exit

Spec == Init /\ [][Next]_vars

\* PAGE_TIMEOUT passes; a call whose context is done comes back; whoever
\* waits for the mutex gets it in the end, as Go's mutexes starve nobody.
FairSpec ==
  /\ Spec
  /\ \A w \in Workers :
       /\ WF_vars(Expire(w)) /\ SF_vars(Ensure(w))
       /\ WF_vars(CtxDone(w) /\ Fails(w))
  /\ SF_vars(Close) /\ WF_vars(Exit)

-----------------------------------------------------------------------------
(* Properties.                                                             *)

\* No Chromium gets lost: one that the generator launched is the shared one,
\* or the one the holder of the mutex is about to share or to kill; so there
\* is at most one, and none is left when main returns, even if pool.Wait gave
\* up on a worker that was just launching it.  (os.Exit after a failed
\* server.Shutdown leaves it to the operating system.)
NoChromiumLost ==
  ~remote =>
    /\ alive \subseteq {browserInst} \cup {browser[w] : w \in {v \in Workers : mu = v}}
    /\ Cardinality(alive) <= 1
    /\ mpc = "exited" => alive = {}

\* Every GeneratePDF comes back, and main gets through Close: nobody holds
\* the mutex longer than its context lives, although ensureBrowser does not
\* look at the context while it waits for the mutex.
RendersReturn ==
  /\ \A w \in Workers : gpc[w] # "idle" ~> gpc[w] = "idle" \/ ~Running
  /\ mpc = "stopping" ~> mpc = "exited"
=============================================================================
