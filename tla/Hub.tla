-------------------------------- MODULE Hub --------------------------------
(***************************************************************************)
(* The realtime hub (internal/realtime/hub.go): every change of the store  *)
(* makes its goroutine list the jobs and offer the list to all connected   *)
(* dashboards, without ever waiting for one of them.                       *)
(*                                                                         *)
(* What the store contains is reduced to a version number that every Set   *)
(* or Delete increases; a snapshot is the version List saw.  The hub's     *)
(* RWMutex needs no variable: a goroutine holds it for reading exactly     *)
(* inside the loop of BroadcastJobs, and for writing within one step.      *)
(***************************************************************************)
EXTENDS Naturals, Sequences

CONSTANTS
  Writers,      \* goroutines that change the store: handlers and workers
  Clients,      \* dashboards, each of which may connect again and again
  SendBuffer,   \* capacity of client.send, 8 in the code
  MaxVersion    \* bound on the changes of the store

ASSUME SendBufferAssumption == SendBuffer \in Nat \ {0}
ASSUME MaxVersionAssumption == MaxVersion \in Nat \ {0}

VARIABLES
  ver,       \* version of the store
  bpc,       \* writer -> where it is between its change and its return
  snap,      \* writer -> version its List returned, 0 before
  todo,      \* writer -> clients its loop has still to visit
  clients,   \* the map of connected clients
  cpc,       \* client -> where its ServeJobs goroutine is
  first,     \* client -> version of its initial snapshot, 0 before
  send,      \* client -> contents of its channel, oldest first
  shown,     \* client -> version its page shows, 0 for none
  closed,    \* clients that closed their connection
  offered    \* history: client -> newest version it was offered, sent or not

writerVars == <<ver, bpc, snap, todo>>
clientVars == <<clients, cpc, first, shown, closed>>
vars == <<writerVars, clientVars, send, offered>>

Versions == 0..MaxVersion

\* Every variable has its type.
TypeOK ==
  /\ ver \in 1..MaxVersion
  /\ bpc \in [Writers -> {"idle", "list", "lock", "loop"}]
  /\ snap \in [Writers -> Versions] /\ todo \in [Writers -> SUBSET Clients]
  /\ clients \subseteq Clients /\ closed \subseteq Clients
  /\ cpc \in [Clients -> {"off", "snapshot", "initial", "loop", "leave"}]
  /\ first \in [Clients -> Versions] /\ shown \in [Clients -> Versions]
  /\ send \in [Clients -> Seq(1..MaxVersion)] /\ offered \in [Clients -> Versions]
  /\ \A c \in Clients : Len(send[c]) <= SendBuffer

Init ==
  /\ ver = 1
  /\ bpc = [w \in Writers |-> "idle"] /\ snap = [w \in Writers |-> 0]
  /\ todo = [w \in Writers |-> {}]
  /\ clients = {} /\ closed = {}
  /\ cpc = [c \in Clients |-> "off"] /\ first = [c \in Clients |-> 0]
  /\ shown = [c \in Clients |-> 0] /\ send = [c \in Clients |-> <<>>]
  /\ offered = [c \in Clients |-> 0]

-----------------------------------------------------------------------------
(* Set or Delete, and the onSet callback: List, then BroadcastJobs.        *)

Advance(w, from, to) ==
  /\ bpc[w] = from
  /\ bpc' = [bpc EXCEPT ![w] = to]

Change(w) ==
  /\ ver < MaxVersion
  /\ Advance(w, "idle", "list")
  /\ ver' = ver + 1
  /\ UNCHANGED <<snap, todo, clientVars, send, offered>>

List(w) ==
  /\ Advance(w, "list", "lock")
  /\ snap' = [snap EXCEPT ![w] = ver]
  /\ UNCHANGED <<ver, todo, clientVars, send, offered>>

\* Mutant of RLock: a client is in the map only after its initial snapshot.
RLockSkipsNew(w) ==
  /\ Advance(w, "lock", "loop")
  /\ todo' = [todo EXCEPT ![w] = {c \in clients : cpc[c] \notin {"snapshot", "initial"}}]
  /\ UNCHANGED <<ver, snap, clientVars, send, offered>>

RLock(w) ==
  /\ Advance(w, "lock", "loop")
  /\ todo' = [todo EXCEPT ![w] = clients]
  /\ UNCHANGED <<ver, snap, clientVars, send, offered>>

\* A version goes into the client's history, whether or not it is sent.
Record(c, v) == offered' = [offered EXCEPT ![c] = IF v > @ THEN v ELSE @]

\* Mutant of Offer: the send waits for room.
OfferWaits(w, c) ==
  /\ bpc[w] = "loop" /\ c \in todo[w]
  /\ Record(c, snap[w])
  /\ Len(send[c]) < SendBuffer
  /\ send' = [send EXCEPT ![c] = Append(@, snap[w])]
  /\ todo' = [todo EXCEPT ![w] = @ \ {c}]
  /\ UNCHANGED <<ver, bpc, snap, clientVars>>

\* The select of the loop: a client whose channel is full gets nothing.
Offer(w, c) ==
  /\ bpc[w] = "loop" /\ c \in todo[w]
  /\ Record(c, snap[w])
  /\ send' = IF Len(send[c]) < SendBuffer
               THEN [send EXCEPT ![c] = Append(@, snap[w])]
               ELSE send
  /\ todo' = [todo EXCEPT ![w] = @ \ {c}]
  /\ UNCHANGED <<ver, bpc, snap, clientVars>>

RUnlock(w) ==
  /\ todo[w] = {}
  /\ Advance(w, "loop", "idle")
  /\ snap' = [snap EXCEPT ![w] = 0]
  /\ UNCHANGED <<ver, todo, clientVars, send, offered>>

Broadcast(w) ==
  List(w) \/ RLock(w) \/ (\E c \in Clients : Offer(w, c)) \/ RUnlock(w)

-----------------------------------------------------------------------------
(* ServeJobs of one client.                                                *)

\* mu.Lock: no broadcast is inside its loop.
CanLock == \A w \in Writers : bpc[w] # "loop"

ClientGoto(c, from, to) ==
  /\ cpc[c] = from
  /\ cpc' = [cpc EXCEPT ![c] = to]

\* accept and add, with a new channel.
Connect(c) ==
  /\ CanLock
  /\ ClientGoto(c, "off", "snapshot")
  /\ clients' = clients \cup {c} /\ closed' = closed \ {c}
  /\ send' = [send EXCEPT ![c] = <<>>] /\ offered' = [offered EXCEPT ![c] = 0]
  /\ UNCHANGED <<writerVars, first, shown>>

Snapshot(c) ==
  /\ ClientGoto(c, "snapshot", "initial")
  /\ first' = [first EXCEPT ![c] = ver]
  /\ UNCHANGED <<writerVars, offered, send, clients, shown, closed>>

\* A send that waits for room, before anybody reads from the channel: when
\* broadcasts have filled it, ServeJobs waits for ever.
SendInitial(c) ==
  /\ Record(c, first[c])
  /\ Len(send[c]) < SendBuffer
  /\ ClientGoto(c, "initial", "loop")
  /\ send' = [send EXCEPT ![c] = Append(@, first[c])]
  /\ first' = [first EXCEPT ![c] = 0]
  /\ UNCHANGED <<writerVars, clients, shown, closed>>

Receive(c) == send[c] # <<>> /\ send' = [send EXCEPT ![c] = Tail(@)]

\* A frame reaches the page, which shows it.
Deliver(c) ==
  /\ ClientGoto(c, "loop", "loop")
  /\ Receive(c) /\ UNCHANGED offered
  /\ shown' = [shown EXCEPT ![c] = Head(send[c])]
  /\ UNCHANGED <<writerVars, clients, first, closed>>

\* Writing to a closed connection fails.
DeliverFails(c) ==
  /\ c \in closed
  /\ ClientGoto(c, "loop", "leave")
  /\ Receive(c) /\ UNCHANGED offered
  /\ UNCHANGED <<writerVars, clients, first, shown, closed>>

\* waitForClose has closed done.
SeesClose(c) ==
  /\ c \in closed
  /\ ClientGoto(c, "loop", "leave")
  /\ UNCHANGED <<writerVars, offered, send, clients, first, shown, closed>>

\* Mutant of Remove: the client stays in the map.
RemoveForgets(c) ==
  /\ CanLock
  /\ ClientGoto(c, "leave", "off")
  /\ UNCHANGED <<writerVars, offered, send, clients, first, shown, closed>>

Remove(c) ==
  /\ CanLock
  /\ ClientGoto(c, "leave", "off")
  /\ clients' = clients \ {c}
  /\ UNCHANGED <<writerVars, offered, send, first, shown, closed>>

\* The peer goes away, whatever ServeJobs is doing.
Close(c) ==
  /\ cpc[c] # "off" /\ c \notin closed
  /\ closed' = closed \cup {c}
  /\ UNCHANGED <<writerVars, offered, send, clients, cpc, first, shown>>

Serve(c) ==
  Snapshot(c) \/ SendInitial(c) \/ DeliverFails(c) \/ SeesClose(c) \/ Remove(c)

Next ==
  \/ \E w \in Writers : Change(w) \/ Broadcast(w)
  \/ \E c \in Clients : Connect(c) \/ Serve(c) \/ Deliver(c) \/ Close(c)

Spec == Init /\ [][Next]_vars

\* Goroutines that can run do run; sync.RWMutex lets a waiting Lock in before
\* later readers.  No page is assumed to read what it is sent (Deliver).
FairSpec ==
  /\ Spec
  /\ \A w \in Writers : WF_vars(Broadcast(w))
  /\ \A c \in Clients : WF_vars(Serve(c)) /\ SF_vars(Remove(c))

-----------------------------------------------------------------------------
(* Properties.                                                             *)

\* No client holds up the goroutine that changed the store, however slow or
\* dead it is: Set and Delete always return.
ChangeReturns == \A w \in Writers : bpc[w] # "idle" ~> bpc[w] = "idle"

\* A client that closes its connection while it is being served is taken out
\* of the map, even while broadcasts go on.
LeavesOnClose ==
  \A c \in Clients : cpc[c] = "loop" /\ c \in closed ~> c \notin clients

\* All goroutines are at rest and every frame has been delivered.
Quiet(c) ==
  /\ \A w \in Writers : bpc[w] = "idle"
  /\ cpc[c] = "loop" /\ send[c] = <<>> /\ c \notin closed

\* The latest version is never missed by a client that connects while
\* others change the store: as ServeJobs adds the client before it lists the
\* jobs, and every change is listed after it was made, one of the two has
\* offered it.  The page shows it unless the frame was dropped for a full
\* channel or an older one was sent behind it.
LatestIsOffered == \A c \in Clients : Quiet(c) => offered[c] = ver
=============================================================================
