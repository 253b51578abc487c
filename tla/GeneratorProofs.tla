-------------------------- MODULE GeneratorProofs --------------------------
(***************************************************************************)
(* No Chromium gets lost, for any number of workers and launches: whoever  *)
(* holds the mutex answers for the only browser that is not shared yet.    *)
(***************************************************************************)
EXTENDS Generator, FiniteSetTheorems, TLAPS

Types ==
  /\ remote \in BOOLEAN
  /\ mu \in Workers \cup {Nobody}
  /\ gpc \in [Workers -> {"idle", "ensure", "launch", "connect", "page"}]
  /\ browser \in [Workers -> Nat] /\ browserInst \in Nat /\ cleanup \in Nat
  /\ launches \in Nat /\ alive \subseteq Nat \ {0}
  /\ mpc \in {"serve", "stopping", "closed", "exited", "aborted"}

\* Exactly the worker between EnsureNew and the end of ensureBrowser holds the
\* mutex, there is no shared browser while it does, and it has one of its own
\* only after Launch.
Locked ==
  /\ \A w \in Workers : mu = w <=> gpc[w] \in {"launch", "connect"}
  /\ mu # Nobody => browserInst = 0
  /\ \A w \in Workers : gpc[w] \in {"idle", "ensure", "launch"} => browser[w] = 0

\* The browsers somebody answers for.
Owned == {browserInst} \cup {browser[w] : w \in {v \in Workers : mu = v}}

\* A browser this process launched has an owner, the cleanup function is that
\* of the shared one, and after Close nothing runs.
Accounted ==
  /\ cleanup = browserInst
  /\ ~remote => alive \subseteq Owned
  /\ ~remote /\ mpc \in {"closed", "exited"} => alive = {}

Inv == Types /\ Locked /\ Accounted

-----------------------------------------------------------------------------

\* With the mutex free the owner is the generator; otherwise its holder may
\* have a browser too.
LEMMA Owners ==
  /\ mu = Nobody => Owned = {browserInst}
  /\ \A w \in Workers : mu = w => Owned = {browserInst, browser[w]}
BY NobodyAssumption DEF Owned

\* Nothing runs before the first GeneratePDF.
LEMMA InitInv == Init => Inv
BY NobodyAssumption DEF Init, Inv, Types, Locked, Accounted, Owned

\* Every step of a worker, of the browser and of main keeps the invariant.
LEMMA NextInv ==
  ASSUME Inv, [Next]_vars
  PROVE  Inv'
<1> USE DEF Inv, vars, callVars, sharedVars, browserVars
<1>1. ASSUME NEW w \in Workers,
             Generate(w) \/ Expire(w) \/ PagePrinted(w) \/ PageFails(w)
      PROVE  Inv'
  <2>1. CASE Generate(w) \/ Expire(w)
    <3>1. /\ UNCHANGED <<remote, browser, sharedVars, browserVars, mpc>>
          /\ \/ gpc[w] = "idle" /\ gpc' = [gpc EXCEPT ![w] = "ensure"]
             \/ UNCHANGED gpc
      BY <2>1 DEF Generate, Expire, Goto
    <3>2. Types'
      BY <3>1 DEF Types
    <3>3. Locked'
      BY <3>1 DEF Types, Locked
    <3> QED
      BY <3>1, <3>2, <3>3 DEF Accounted, Owned
  <2>2. CASE PagePrinted(w) \/ PageFails(w)
    <3>1. /\ UNCHANGED <<remote, sharedVars, browserVars, mpc>>
          /\ gpc[w] = "page" /\ gpc' = [gpc EXCEPT ![w] = "idle"]
          /\ browser' = [browser EXCEPT ![w] = 0]
      BY <2>2 DEF PagePrinted, PageFails, Return, Goto
    <3>2. Types'
      BY <3>1 DEF Types
    <3>3. Locked'
      BY <3>1 DEF Types, Locked
    <3>4. \A v \in Workers : mu = v => browser'[v] = browser[v]
      BY <3>1 DEF Types, Locked
    <3> QED
      BY <3>1, <3>2, <3>3, <3>4 DEF Accounted, Owned
  <2> QED
    BY <1>1, <2>1, <2>2
<1>2. ASSUME NEW w \in Workers, EnsureShared(w) \/ EnsureNew(w) PROVE Inv'
  <2>1. CASE EnsureShared(w)
    BY <2>1, NobodyAssumption
       DEF EnsureShared, Goto, Types, Locked, Accounted, Owned
  <2>2. CASE EnsureNew(w)
    <3>1. /\ mu = Nobody /\ browserInst = 0 /\ mu' = w /\ gpc[w] = "ensure"
          /\ gpc' = [gpc EXCEPT ![w] = "launch"]
          /\ UNCHANGED <<remote, browser, browserInst, cleanup, browserVars, mpc>>
      BY <2>2 DEF EnsureNew, Goto
    <3>2. Types'
      BY <3>1 DEF Types
    <3>3. ~remote => alive = {}
      BY <3>1, Owners DEF Types, Accounted
    <3>4. \A v \in Workers : gpc'[v] = IF v = w THEN "launch" ELSE gpc[v]
      BY <3>1 DEF Types
    <3>5. \A v \in Workers : gpc[v] \notin {"launch", "connect"}
      BY <3>1, NobodyAssumption DEF Locked
    <3>6. browser[w] = 0
      BY <3>1 DEF Locked
    <3>7. Locked'
      BY <3>1, <3>4, <3>5, <3>6 DEF Locked
    <3> QED
      BY <3>1, <3>2, <3>3, <3>7 DEF Accounted
  <2> QED
    BY <1>2, <2>1, <2>2
<1>3. ASSUME NEW w \in Workers, Launch(w) PROVE Inv'
  BY <1>3, NobodyAssumption
     DEF Launch, CtxDone, Goto, Types, Locked, Accounted, Owned
<1>4. ASSUME NEW w \in Workers, Connect(w) PROVE Inv'
  <2>1. /\ mu = w /\ mu' = Nobody /\ mpc = "serve" /\ browser[w] \in Nat
        /\ gpc' = [gpc EXCEPT ![w] = "page"]
        /\ browserInst' = browser[w] /\ cleanup' = browser[w]
        /\ UNCHANGED <<remote, browser, browserVars, mpc>>
    BY <1>4 DEF Connect, CtxDone, Goto, Types, Locked
  <2>2. Types'
    BY <2>1 DEF Types
  <2>3. Locked'
    BY <2>1, NobodyAssumption DEF Types, Locked
  <2>4. ~remote => alive \subseteq {browser[w]}
    BY <2>1, Owners, NobodyAssumption DEF Types, Locked, Accounted
  <2> QED
    BY <2>1, <2>2, <2>3, <2>4 DEF Accounted, Owned
<1>5. ASSUME NEW w \in Workers, LaunchFails(w) \/ ConnectFails(w) PROVE Inv'
  <2>1. /\ mu = w /\ mu' = Nobody /\ gpc[w] \in {"launch", "connect"}
        /\ gpc' = [gpc EXCEPT ![w] = "idle"]
        /\ browser' = [browser EXCEPT ![w] = 0]
        /\ alive' \subseteq alive
        /\ UNCHANGED <<remote, browserInst, cleanup, launches, mpc>>
    BY <1>5 DEF LaunchFails, ConnectFails, Return, Goto, Types, Locked
  <2>2. Types'
    BY <2>1 DEF Types
  <2>3. Locked'
    BY <2>1, NobodyAssumption DEF Types, Locked
  <2>4. ~remote => alive \subseteq {browser[w]}
    BY <2>1, Owners, NobodyAssumption DEF Types, Locked, Accounted
  <2>5. ~remote => alive' = {}
    <3>1. CASE LaunchFails(w)
      BY <2>1, <2>4, <3>1 DEF LaunchFails, Return, Goto, browserVars, Types, Locked
    <3>2. CASE ConnectFails(w)
      BY <2>4, <3>2 DEF ConnectFails
    <3> QED
      BY <1>5, <3>1, <3>2
  <2> QED
    BY <2>1, <2>2, <2>3, <2>5 DEF Accounted
<1>6. ASSUME NEW b, Dies(b) PROVE Inv'
  BY <1>6 DEF Dies, Types, Locked, Accounted, Owned
<1>7. CASE Abort \/ CancelPool \/ Exit \/ UNCHANGED vars
  <2>1. /\ UNCHANGED <<remote, callVars, sharedVars, browserVars>>
        /\ mpc' \in {"serve", "stopping", "closed", "exited", "aborted"}
        /\ mpc' \in {"closed", "exited"} => mpc \in {"closed", "exited"}
    BY <1>7 DEF Abort, CancelPool, Exit, MainGoto, Types
  <2>2. Types' /\ Locked'
    BY <2>1 DEF Types, Locked
  <2> QED
    BY <2>1, <2>2 DEF Accounted, Owned
<1>8. CASE Close
  <2>1. /\ mu = Nobody /\ mpc' = "closed" /\ browserInst' = 0 /\ cleanup' = 0
        /\ alive' \subseteq alive /\ (~remote => alive' = alive \ {cleanup})
        /\ UNCHANGED <<remote, mu, callVars, launches>>
    BY <1>8 DEF Close, MainGoto, Forget, Types
  <2>2. Types'
    BY <2>1 DEF Types
  <2>3. Locked'
    BY <2>1 DEF Locked
  <2>4. ~remote => alive' = {}
    BY <2>1, Owners DEF Accounted
  <2> QED
    BY <2>1, <2>2, <2>3, <2>4 DEF Accounted
<1> QED
  BY <1>1, <1>2, <1>3, <1>4, <1>5, <1>6, <1>7, <1>8 DEF Next, Ensure, Fails

\* The invariant holds of every reachable state.
LEMMA InvAlways == Spec => []Inv
<1>1. Inv /\ [Next]_vars => Inv'
  BY NextInv
<1> QED
  BY <1>1, InitInv, PTL DEF Spec

\* Every Chromium that the generator launched is the shared one or belongs to
\* the holder of the mutex, there is at most one, and none is left when main
\* returns, even if pool.Wait gave up on a worker that was just launching it.
THEOREM NoChromiumLostAlways == Spec => []NoChromiumLost
<1>1. ASSUME Inv, ~remote PROVE \E b : alive \subseteq {b}
  <2>1. alive \subseteq Owned \ {0}
    BY <1>1 DEF Inv, Types, Accounted
  <2>2. CASE mu = Nobody
    BY <2>1, <2>2, Owners
  <2>3. CASE mu \in Workers
    BY <1>1, <2>1, <2>3, Owners, NobodyAssumption DEF Inv, Locked
  <2> QED
    BY <1>1, <2>2, <2>3 DEF Inv, Types
<1>2. ASSUME Inv, ~remote PROVE Cardinality(alive) <= 1
  <2>1. PICK b : alive \subseteq {b}
    BY <1>1, <1>2
  <2>2. CASE alive = {}
    BY <2>2, FS_EmptySet
  <2>3. CASE alive = {b}
    <3>1. Cardinality({b}) = 1
      BY FS_Singleton
    <3> QED
      BY <2>3, <3>1
  <2> QED
    BY <2>1, <2>2, <2>3
<1>3. Inv => NoChromiumLost
  BY <1>2 DEF Inv, Accounted, Owned, NoChromiumLost
<1> QED
  BY <1>3, InvAlways, PTL
=============================================================================
