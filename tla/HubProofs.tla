----------------------------- MODULE HubProofs -----------------------------
(***************************************************************************)
(* The latest version of the store is offered to every client, for any     *)
(* number of writers, clients and versions and any capacity of a channel:  *)
(* as long as a client was not offered it, some goroutine is on its way.   *)
(***************************************************************************)
EXTENDS Hub, SequenceTheorems, TLAPS

\* A snapshot exists once it was taken, and is never ahead of the store.
Snapshots ==
  /\ \A w \in Writers : snap[w] <= ver
  /\ \A w \in Writers : bpc[w] \in {"lock", "loop"} => snap[w] > 0
  /\ \A c \in Clients : first[c] <= ver /\ offered[c] <= ver
  /\ \A c \in Clients : cpc[c] = "initial" => first[c] > 0

\* The map holds the clients whose ServeJobs is between add and remove.
Connected == \A c \in Clients : cpc[c] # "off" <=> c \in clients

\* Writer w will offer the latest version to c.
Brings(w, c) ==
  \/ bpc[w] = "list"
  \/ bpc[w] = "lock" /\ snap[w] = ver
  \/ bpc[w] = "loop" /\ snap[w] = ver /\ c \in todo[w]

Informed(c) == offered[c] = ver \/ \E w \in Writers : Brings(w, c)

\* From its snapshot on a client has, will send itself or will be brought the
\* latest version.
NoneMissed ==
  \A c \in Clients :
    /\ cpc[c] = "initial" => first[c] = ver \/ Informed(c)
    /\ cpc[c] = "loop" => Informed(c)

Inv == TypeOK /\ Snapshots /\ Connected /\ NoneMissed

-----------------------------------------------------------------------------

\* The hub starts without clients.
LEMMA InitInv == Init => Inv
<1> SUFFICES ASSUME Init PROVE Inv
  OBVIOUS
<1>1. TypeOK
  BY MaxVersionAssumption, SendBufferAssumption, EmptySeq
     DEF Init, TypeOK, Versions
<1>2. Snapshots /\ Connected /\ NoneMissed
  BY DEF Init, Snapshots, Connected, NoneMissed
<1> QED
  BY <1>1, <1>2 DEF Inv

\* A step of a writer keeps every variable in its type.
LEMMA WriterType ==
  ASSUME Inv, NEW w \in Writers, Change(w) \/ Broadcast(w)
  PROVE  TypeOK'
<1> USE MaxVersionAssumption, SendBufferAssumption
    DEF Inv, clientVars, writerVars, Advance
<1>1. CASE Change(w)
  BY <1>1 DEF Change, TypeOK
<1>2. CASE List(w)
  BY <1>2 DEF List, TypeOK, Versions
<1>3. CASE RLock(w)
  BY <1>3 DEF RLock, TypeOK
<1>4. CASE RUnlock(w)
  BY <1>4 DEF RUnlock, TypeOK, Versions
<1>5. ASSUME NEW c \in Clients, Offer(w, c) PROVE TypeOK'
  <2>1. snap[w] \in 1..MaxVersion
    BY <1>5 DEF Offer, TypeOK, Versions, Snapshots
  <2>2. todo' \in [Writers -> SUBSET Clients] /\ offered' \in [Clients -> Versions]
    BY <1>5, <2>1 DEF Offer, Record, TypeOK, Versions
  <2>3. /\ Append(send[c], snap[w]) \in Seq(1..MaxVersion)
        /\ Len(Append(send[c], snap[w])) = Len(send[c]) + 1
        /\ Len(send[c]) \in Nat
    BY <2>1, AppendProperties, LenProperties DEF TypeOK
  <2>4. /\ send' \in [Clients -> Seq(1..MaxVersion)]
        /\ \A d \in Clients : Len(send'[d]) <= SendBuffer
    BY <1>5, <2>3 DEF Offer, TypeOK
  <2> QED
    BY <1>5, <2>2, <2>4 DEF Offer, TypeOK
<1> QED
  BY <1>1, <1>2, <1>3, <1>4, <1>5 DEF Broadcast

\* So does a step of ServeJobs or of a client's page.
LEMMA ClientType ==
  ASSUME Inv, NEW c \in Clients, Connect(c) \/ Serve(c) \/ Deliver(c) \/ Close(c)
  PROVE  TypeOK'
<1> USE MaxVersionAssumption, SendBufferAssumption
    DEF Inv, clientVars, writerVars, ClientGoto
<1>1. CASE Connect(c)
  <2>1. /\ send' \in [Clients -> Seq(1..MaxVersion)]
        /\ \A d \in Clients : Len(send'[d]) <= SendBuffer
    BY <1>1, EmptySeq DEF Connect, TypeOK
  <2> QED
    BY <1>1, <2>1 DEF Connect, TypeOK, Versions
<1>2. CASE Snapshot(c)
  BY <1>2 DEF Snapshot, TypeOK, Versions
<1>3. CASE SendInitial(c)
  <2>1. first[c] \in 1..MaxVersion
    BY <1>3 DEF SendInitial, TypeOK, Versions, Snapshots
  <2>2. offered' \in [Clients -> Versions] /\ first' \in [Clients -> Versions]
    BY <1>3, <2>1 DEF SendInitial, Record, TypeOK, Versions
  <2>3. /\ Append(send[c], first[c]) \in Seq(1..MaxVersion)
        /\ Len(Append(send[c], first[c])) = Len(send[c]) + 1
        /\ Len(send[c]) \in Nat
    BY <2>1, AppendProperties, LenProperties DEF TypeOK
  <2>4. /\ send' \in [Clients -> Seq(1..MaxVersion)]
        /\ \A d \in Clients : Len(send'[d]) <= SendBuffer
    BY <1>3, <2>3 DEF SendInitial, TypeOK
  <2> QED
    BY <1>3, <2>2, <2>4 DEF SendInitial, TypeOK
<1>4. CASE Deliver(c) \/ DeliverFails(c)
  <2>1. Receive(c)
    BY <1>4 DEF Deliver, DeliverFails
  <2>2. /\ Head(send[c]) \in Versions
        /\ Tail(send[c]) \in Seq(1..MaxVersion)
        /\ Len(Tail(send[c])) = Len(send[c]) - 1 /\ Len(send[c]) \in Nat
    BY <2>1, HeadTailProperties, LenProperties DEF Receive, TypeOK, Versions
  <2>3. /\ send' \in [Clients -> Seq(1..MaxVersion)]
        /\ \A d \in Clients : Len(send'[d]) <= SendBuffer
    BY <2>1, <2>2 DEF Receive, TypeOK
  <2>4. CASE Deliver(c)
    BY <2>2, <2>3, <2>4 DEF Deliver, TypeOK
  <2>5. CASE DeliverFails(c)
    BY <2>3, <2>5 DEF DeliverFails, TypeOK
  <2> QED
    BY <1>4, <2>4, <2>5
<1>5. CASE SeesClose(c) \/ Remove(c) \/ Close(c)
  BY <1>5 DEF SeesClose, Remove, Close, TypeOK
<1> QED
  BY <1>1, <1>2, <1>3, <1>4, <1>5 DEF Serve

-----------------------------------------------------------------------------

\* A broadcast takes the latest version to every client, or leaves it to a
\* later one.
LEMMA WriterInforms ==
  ASSUME Inv, NEW w \in Writers, Change(w) \/ Broadcast(w)
  PROVE  Snapshots' /\ Connected' /\ NoneMissed'
<1> USE DEF Inv, clientVars, Advance
<1>1. /\ ver \in Nat /\ bpc \in [Writers -> {"idle", "list", "lock", "loop"}]
      /\ snap \in [Writers -> Nat] /\ todo \in [Writers -> SUBSET Clients]
      /\ first \in [Clients -> Nat] /\ offered \in [Clients -> Nat]
  BY DEF TypeOK, Versions
<1>2. UNCHANGED clientVars
  BY DEF Change, Broadcast, List, RLock, Offer, RUnlock
<1>3. Connected'
  BY <1>2 DEF Connected
<1>4. CASE Change(w)
  <2>1. Snapshots'
    BY <1>1, <1>4 DEF Change, Snapshots
  <2>2. \A c \in Clients : Brings(w, c)'
    BY <1>1, <1>4 DEF Change, Brings
  <2> QED
    BY <1>3, <2>1, <2>2 DEF NoneMissed, Informed
<1>5. CASE List(w)
  <2>1. Snapshots'
    BY <1>1, <1>5, MaxVersionAssumption DEF List, Snapshots, TypeOK
  <2>2. \A c \in Clients : Brings(w, c)'
    BY <1>1, <1>5 DEF List, Brings
  <2> QED
    BY <1>3, <2>1, <2>2 DEF NoneMissed, Informed
<1>6. CASE RLock(w)
  <2>1. Snapshots'
    BY <1>1, <1>6 DEF RLock, Snapshots
  <2>2. ASSUME NEW c \in clients, NEW v \in Writers, Brings(v, c)
        PROVE  Brings(v, c)'
    BY <1>1, <1>6, <2>2 DEF RLock, Brings
  <2>3. ASSUME NEW c \in Clients, cpc[c] \in {"initial", "loop"}, Informed(c)
        PROVE  Informed(c)'
    BY <1>6, <2>2, <2>3 DEF RLock, Informed, Connected
  <2> QED
    BY <1>2, <1>3, <1>6, <2>1, <2>3 DEF RLock, NoneMissed
<1>7. ASSUME NEW c \in Clients, Offer(w, c)
      PROVE  Snapshots' /\ NoneMissed'
  <2>1. /\ UNCHANGED <<ver, bpc, snap>>
        /\ todo' = [todo EXCEPT ![w] = @ \ {c}]
        /\ offered' = [offered EXCEPT ![c] = IF snap[w] > @ THEN snap[w] ELSE @]
    BY <1>7 DEF Offer, Record
  <2>2. Snapshots'
    BY <1>1, <1>2, <2>1 DEF Snapshots
  <2>3. ASSUME Informed(c) PROVE Informed(c)'
    <3>1. CASE offered[c] = ver \/ Brings(w, c)
      BY <1>1, <1>7, <2>1, <3>1 DEF Offer, Brings, Informed, Snapshots
    <3>2. ASSUME NEW v \in Writers \ {w}, Brings(v, c) PROVE Informed(c)'
      BY <1>1, <2>1, <3>2 DEF Brings, Informed
    <3> QED
      BY <2>3, <3>1, <3>2 DEF Informed
  <2>4. ASSUME NEW d \in Clients \ {c}, Informed(d) PROVE Informed(d)'
    BY <1>1, <2>1, <2>4 DEF Brings, Informed
  <2> QED
    BY <1>2, <2>1, <2>2, <2>3, <2>4 DEF NoneMissed
<1>8. CASE RUnlock(w)
  <2>1. Snapshots'
    BY <1>1, <1>8 DEF RUnlock, Snapshots
  <2>2. ASSUME NEW c \in Clients, NEW v \in Writers, Brings(v, c)
        PROVE  Brings(v, c)'
    BY <1>1, <1>8, <2>2 DEF RUnlock, Brings
  <2> QED
    BY <1>2, <1>3, <1>8, <2>1, <2>2 DEF RUnlock, NoneMissed, Informed
<1> QED
  BY <1>3, <1>4, <1>5, <1>6, <1>7, <1>8 DEF Broadcast

\* A client that is added before it lists the jobs misses nothing.
LEMMA ClientInformed ==
  ASSUME Inv, NEW c \in Clients, Connect(c) \/ Serve(c) \/ Deliver(c) \/ Close(c)
  PROVE  Snapshots' /\ Connected' /\ NoneMissed'
<1> USE DEF Inv, writerVars, ClientGoto
<1>1. /\ ver \in 1..MaxVersion
      /\ cpc \in [Clients -> {"off", "snapshot", "initial", "loop", "leave"}]
      /\ first \in [Clients -> Nat] /\ offered \in [Clients -> Nat]
      /\ clients \subseteq Clients
  BY DEF TypeOK, Versions
<1>2. UNCHANGED writerVars
  BY DEF Connect, Serve, Deliver, Close, Snapshot, SendInitial, DeliverFails,
         SeesClose, Remove
<1>3. \A w \in Writers, d \in Clients : Brings(w, d)' <=> Brings(w, d)
  BY <1>2 DEF Brings
<1>4. ASSUME NEW d \in Clients, offered'[d] = offered[d], Informed(d)
      PROVE  Informed(d)'
  BY <1>2, <1>3, <1>4 DEF Informed
<1>5. CASE Connect(c)
  <2>1. Snapshots' /\ Connected'
    BY <1>1, <1>5 DEF Connect, Snapshots, Connected
  <2> QED
    BY <1>1, <1>4, <1>5, <2>1 DEF Connect, NoneMissed
<1>6. CASE Snapshot(c)
  <2>1. Snapshots' /\ Connected'
    BY <1>1, <1>6 DEF Snapshot, Snapshots, Connected
  <2> QED
    BY <1>1, <1>4, <1>6, <2>1 DEF Snapshot, NoneMissed
<1>7. CASE SendInitial(c)
  <2>1. /\ cpc[c] = "initial" /\ cpc' = [cpc EXCEPT ![c] = "loop"]
        /\ offered' = [offered EXCEPT ![c] = IF first[c] > @ THEN first[c] ELSE @]
        /\ first' = [first EXCEPT ![c] = 0]
        /\ UNCHANGED <<clients, writerVars>>
    BY <1>7 DEF SendInitial, Record
  <2>2. Snapshots' /\ Connected'
    BY <1>1, <2>1 DEF Snapshots, Connected
  <2>3. Informed(c)'
    <3>1. CASE first[c] = ver \/ offered[c] = ver
      BY <1>1, <2>1, <3>1 DEF Informed, Snapshots
    <3> QED
      BY <1>3, <2>1, <3>1 DEF NoneMissed, Informed
  <2> QED
    BY <1>1, <1>4, <2>1, <2>2, <2>3 DEF NoneMissed
<1>8. CASE Deliver(c) \/ DeliverFails(c) \/ SeesClose(c) \/ Remove(c) \/ Close(c)
  <2>1. UNCHANGED <<first, offered, writerVars>>
    BY <1>8 DEF Deliver, DeliverFails, SeesClose, Remove, Close
  <2>2. /\ \A d \in Clients \ {c} : cpc'[d] = cpc[d]
        /\ cpc'[c] = cpc[c] \/ cpc'[c] \in {"leave", "off"}
    BY <1>1, <1>8 DEF Deliver, DeliverFails, SeesClose, Remove, Close
  <2>3. Snapshots'
    BY <2>1, <2>2 DEF Snapshots
  <2>4. Connected'
    BY <1>1, <1>8 DEF Deliver, DeliverFails, SeesClose, Remove, Close, Connected
  <2> QED
    BY <1>4, <2>1, <2>2, <2>3, <2>4 DEF NoneMissed
<1> QED
  BY <1>5, <1>6, <1>7, <1>8 DEF Serve

\* The invariant holds of every reachable state.
LEMMA InvAlways == Spec => []Inv
<1>1. ASSUME Inv, [Next]_vars PROVE Inv'
  <2>1. CASE UNCHANGED vars
    BY <1>1, <2>1 DEF vars, writerVars, clientVars, Inv, TypeOK, Snapshots,
                      Connected, NoneMissed, Informed, Brings
  <2>2. CASE \E w \in Writers : Change(w) \/ Broadcast(w)
    BY <1>1, <2>2, WriterType, WriterInforms DEF Inv
  <2>3. CASE \E c \in Clients : Connect(c) \/ Serve(c) \/ Deliver(c) \/ Close(c)
    BY <1>1, <2>3, ClientType, ClientInformed DEF Inv
  <2> QED
    BY <1>1, <2>1, <2>2, <2>3 DEF Next
<1> QED
  BY <1>1, InitInv, PTL DEF Spec

\* Every variable has its type; in particular no channel is filled beyond its
\* capacity by the broadcasts of several writers and the initial snapshot.
THEOREM TypeOKAlways == Spec => []TypeOK
<1>1. Inv => TypeOK
  BY DEF Inv
<1> QED
  BY <1>1, InvAlways, PTL

\* When the writers are done and its channel is empty, a connected client has
\* been offered the latest version of the store.
THEOREM LatestIsOfferedAlways == Spec => []LatestIsOffered
<1>1. Inv => LatestIsOffered
  BY DEF Inv, NoneMissed, Informed, Brings, LatestIsOffered, Quiet
<1> QED
  BY <1>1, InvAlways, PTL
=============================================================================
