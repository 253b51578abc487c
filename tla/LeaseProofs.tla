---------------------------- MODULE LeaseProofs ----------------------------
(***************************************************************************)
(* When a lease ends, for every timeout, budget, length of a second and    *)
(* difference of clocks: KeptForBudget and AbandonedIsRequeued.            *)
(***************************************************************************)
EXTENDS LeaseClock, TLAPS

-----------------------------------------------------------------------------
(* Cutting to whole seconds.                                               *)

\* Quotient and remainder of a time and the length of a second.
LEMMA DivMod ==
  ASSUME NEW a \in Nat, NEW t \in Nat \ {0}
  PROVE  /\ a \div t \in Nat /\ a % t \in Nat
         /\ a = t * (a \div t) + (a % t) /\ a % t < t
BY Z3

\* A time whose whole second is not after another's is less than a second
\* later.
LEMMA DivGap ==
  ASSUME NEW a \in Nat, NEW b \in Nat, NEW t \in Nat \ {0},
         a \div t <= b \div t
  PROVE  a < b + t
<1>1. a \div t \in Nat /\ a = t * (a \div t) + (a % t) /\ a % t < t
  BY DivMod
<1>2. b \div t \in Nat /\ b % t \in Nat /\ b = t * (b \div t) + (b % t)
  BY DivMod
<1>3. \A x, y \in Nat : x <= y => t * x <= t * y
  BY Z3
<1>4. t * (a \div t) <= t * (b \div t)
  BY <1>1, <1>2, <1>3
<1> QED
  BY <1>1, <1>2, <1>4, SMT

\* An earlier time has no later whole second.
LEMMA DivMonotone ==
  ASSUME NEW a \in Nat, NEW b \in Nat, NEW t \in Nat \ {0}, a <= b
  PROVE  a \div t <= b \div t
<1>1. a \div t \in Nat /\ a % t \in Nat /\ a = t * (a \div t) + (a % t)
  BY DivMod
<1>2. b \div t \in Nat /\ b = t * (b \div t) + (b % t) /\ b % t < t
  BY DivMod
<1>3. \A x, y \in Nat : y + 1 <= x => t * y + t <= t * x
  BY Z3
<1>4. CASE b \div t + 1 <= a \div t
  <2>1. t * (b \div t) + t <= t * (a \div t)
    BY <1>1, <1>2, <1>3, <1>4
  <2> QED
    BY <1>1, <1>2, <2>1, SMT
<1> QED
  BY <1>1, <1>2, <1>4, SMT

\* The timeout is a number of ticks.
LEMMA TimeoutType == Timeout \in Nat
BY SecondAssumption, VisibilityAssumption, Z3 DEF Timeout

-----------------------------------------------------------------------------
(* The invariant: the score of a lease is the end its holder computed.     *)

Leased == state \in {"stamped", "leased", "abandoned"}

LeaseOfHolder ==
  Leased => /\ holder \in Workers
            /\ score = (stamp + offset[holder] + Timeout) \div Second

LInv == TypeOK /\ LeaseOfHolder

\* The end of a lease that is computed now, in whole seconds.
LEMMA LeaseUntilType ==
  ASSUME TypeOK, NEW w \in Workers
  PROVE  /\ LeaseUntil(w) \in Nat
         /\ LeaseUntil(w) = (now + offset[w] + Timeout) \div Second
<1>1. now + offset[w] + Timeout \in Nat
  BY TimeoutType, BudgetAssumption, MaxTimeAssumption DEF TypeOK
<1> QED
  BY <1>1, SecondAssumption, DivMod DEF LeaseUntil, Clock

\* Init establishes the invariant.
LEMMA LInvInit == Init => LInv
BY MaxTimeAssumption, BudgetAssumption DEF Init, LInv, TypeOK, States, LeaseOfHolder, Leased

\* Every step preserves it: only Stamp computes a lease, and time never runs
\* backwards.
LEMMA LInvStep == LInv /\ [Next]_vars => LInv'
<1> SUFFICES ASSUME LInv, [Next]_vars PROVE LInv'
  OBVIOUS
<1> USE MaxTimeAssumption, BudgetAssumption DEF LInv, TypeOK, LeaseOfHolder, Leased, States
<1>1. CASE Tick
  BY <1>1 DEF Tick
<1>2. CASE Zadd \/ Ack \/ Die
  BY <1>2 DEF Zadd, Ack, Die, MessageGoto
<1>3. ASSUME NEW w \in Workers, Stamp(w) PROVE LInv'
  <2>1. /\ LeaseUntil(w) \in Nat
        /\ LeaseUntil(w) = (now + offset[w] + Timeout) \div Second
    BY LeaseUntilType
  <2>2. score' = LeaseUntil(w) /\ stamp' = now /\ holder' = w /\ state' = "stamped"
        /\ UNCHANGED <<now, offset, readAt>>
    BY <1>3 DEF Stamp, MessageGoto
  <2>3. TypeOK'
    BY <2>1, <2>2
  <2>4. LeaseOfHolder'
    BY <2>1, <2>2
  <2> QED
    BY <2>3, <2>4
<1>4. ASSUME NEW w \in Workers, ReadClock(w) PROVE LInv'
  BY <1>4 DEF ReadClock
<1>5. ASSUME NEW w \in Workers, Scan(w) PROVE LInv'
  BY <1>5 DEF Scan
<1>6. CASE UNCHANGED vars
  BY <1>6 DEF vars
<1> QED
  BY <1>1, <1>2, <1>3, <1>4, <1>5, <1>6 DEF Next

\* The invariant holds always.
LEMMA LInvAlways == Spec => []LInv
BY LInvInit, LInvStep, PTL DEF Spec

-----------------------------------------------------------------------------
(* The theorems.                                                           *)

\* No scan requeues a message whose worker is within its budget, whatever the
\* clocks show and however both ends are cut, if the timeout exceeds the
\* budget by a second and the difference of the clocks.
THEOREM LeaseCoversBudget == Spec => KeptForBudget
<1> DEFINE Kept == state = "leased" /\ state' = "queued" => now > stamp + Budget
<1>1. ASSUME LInv, Next PROVE Kept
  <2> SUFFICES ASSUME state = "leased", state' = "queued" PROVE now > stamp + Budget
    OBVIOUS
  <2>1. PICK w \in Workers : Scan(w)
    BY <1>1 DEF Next, Tick, Zadd, Ack, Die, MessageGoto, Stamp, ReadClock
  <2>2. Expired(w) /\ readAt[w] # -1
    BY <2>1 DEF Scan
  <2> DEFINE end == stamp + offset[holder] + Timeout
             seen == readAt[w] + offset[w]
  <2>3. /\ stamp \in Nat /\ now \in Nat /\ readAt[w] \in Nat /\ readAt[w] <= now
        /\ holder \in Workers /\ offset[holder] \in Nat
        /\ offset[w] \in Nat /\ offset[w] <= Skew
    BY <1>1, <2>2, BudgetAssumption, MaxTimeAssumption DEF LInv, TypeOK, LeaseOfHolder, Leased
  <2>4. end \in Nat /\ seen \in Nat
    BY <2>3, TimeoutType
  <2>5. end \div Second <= seen \div Second
    BY <1>1, <2>2 DEF Expired, Clock, LInv, LeaseOfHolder, Leased
  <2>6. end < seen + Second
    BY <2>4, <2>5, DivGap, SecondAssumption
  <2> QED
    BY <2>3, <2>6, TimeoutType, TimeoutAssumption, BudgetAssumption, SecondAssumption
<1>2. ASSUME LInv, [Next]_vars PROVE [Kept]_vars
  BY <1>1, <1>2
<1> QED
  BY <1>2, LInvAlways, PTL DEF Spec, KeptForBudget

\* A scan that read its clock after the timeout and the difference of the
\* clocks requeues an abandoned message.
THEOREM AbandonedRequeuedInTime == Spec => AbandonedIsRequeued
<1> DEFINE Late(w) == /\ state = "abandoned"
                      /\ readAt[w] >= stamp + Timeout + Skew /\ readAt'[w] = -1
           Taken == \A w \in Workers : Late(w) => state' = "queued"
<1>1. ASSUME LInv, Next PROVE Taken
  <2> SUFFICES ASSUME NEW w \in Workers, Late(w) PROVE state' = "queued"
    OBVIOUS
  <2>1. /\ stamp \in Nat /\ readAt[w] \in Int /\ now \in Nat
        /\ readAt \in [Workers -> Int]
        /\ holder \in Workers /\ offset[holder] \in Nat /\ offset[holder] <= Skew
        /\ offset[w] \in Nat
    BY <1>1, BudgetAssumption, MaxTimeAssumption DEF LInv, TypeOK, LeaseOfHolder, Leased
  <2>2. readAt[w] \in Nat
    BY <2>1, TimeoutType, BudgetAssumption
  <2>3. Scan(w)
    <3>1. \A v \in Workers : ~ReadClock(v)
      BY <2>1, <2>2 DEF ReadClock
    <3>2. readAt'[w] # readAt[w]
      BY <2>2
    <3>3. PICK v \in Workers : Scan(v)
      BY <1>1, <3>1, <3>2 DEF Next, Tick, Zadd, Ack, Die, MessageGoto, Stamp
    <3> QED
      BY <2>1, <3>2, <3>3 DEF Scan
  <2> DEFINE end == stamp + offset[holder] + Timeout
             seen == readAt[w] + offset[w]
  <2>4. end \in Nat /\ seen \in Nat /\ end <= seen
    BY <2>1, <2>2, TimeoutType, BudgetAssumption
  <2>5. end \div Second <= seen \div Second
    BY <2>4, DivMonotone, SecondAssumption
  <2>6. Expired(w)
    BY <1>1, <2>5 DEF Expired, Clock, LInv, LeaseOfHolder, Leased
  <2> QED
    BY <2>3, <2>6 DEF Scan
<1>2. ASSUME LInv, [Next]_vars PROVE [Taken]_vars
  BY <1>1, <1>2
<1> QED
  BY <1>2, LInvAlways, PTL DEF Spec, AbandonedIsRequeued
=============================================================================
