------------------------- MODULE RedisClientProofs -------------------------
(***************************************************************************)
(* Do is faithful, for any number of calls, faults and reconnections: the  *)
(* mutex keeps one command on its way, so the one reply that can be there  *)
(* is its own, and what is left on an abandoned connection runs once.      *)
(***************************************************************************)
EXTENDS RedisClient, SequenceTheorems, TLAPS

Types ==
  /\ mu \in Calls \cup {Nobody}
  /\ pc \in [Calls -> {"idle", "lock", "write", "read", "done"}]
  /\ opened \in Nat /\ hello \in Nat
  /\ conn \in 0..opened /\ up \subseteq {conn} \ {0}
  /\ result \in [Calls -> Calls \cup {"none", "error"}]
  /\ wire \in [Conns -> Seq(Commands)]
  /\ replies \in [Conns -> Seq(Commands \cup {"error"})]
  /\ session \in [Conns -> Nat] /\ ran \in [Calls -> Seq(Nat)]
  /\ breaks \in 0..MaxBreaks /\ refused \in 0..MaxRefused

\* Every connection but the present one was closed because of a fault, and
\* so will the present one be if an error reply is on its way.
Budget ==
  opened <= breaks + refused
    + (IF conn \in up /\ replies[conn] # <<"error">> THEN 1 ELSE 0)

\* Whoever writes or reads holds the mutex.
Mutex == \A c \in Calls : mu = c <=> pc[c] \in {"write", "read"}

\* Connections that are still to be dialed are clean.
Clean == \A n \in Conns : n > opened =>
  wire[n] = <<>> /\ replies[n] = <<>> /\ session[n] = 0

\* Between two commands nothing is on its way, and Redis has run as much of
\* the handshake as was sent.
Between ==
  conn # 0 /\ (mu = Nobody \/ \E c \in Calls : mu = c /\ pc[c] = "write") =>
    /\ wire[conn] = <<>> /\ replies[conn] = <<>>
    /\ session[conn] + hello = Handshake

\* The command that c is waiting for.
Command(c) == IF hello > 0 THEN Hello ELSE c

\* It is on its way, answered, refused or lost with the connection.
Awaits(c) ==
  /\ conn # 0
  /\ \/ /\ wire[conn] = <<Command(c)>> /\ replies[conn] = <<>>
        /\ session[conn] + hello = Handshake
     \/ /\ wire[conn] = <<>> /\ replies[conn] = <<Command(c)>>
        /\ hello > 0 => session[conn] + hello = Handshake + 1
        /\ hello = 0 => session[conn] = Handshake /\ ran[c] # <<>>
     \/ wire[conn] = <<>> /\ replies[conn] = <<"error">>
     \/ wire[conn] = <<>> /\ replies[conn] = <<>> /\ conn \notin up

Waiting == \A c \in Calls : pc[c] = "read" => Awaits(c)

\* Do has not sent the command of c yet.
Unsent(c) ==
  pc[c] \in {"idle", "lock", "write"} \/ (pc[c] = "read" /\ hello > 0)

\* A command is on at most one connection, behind a complete handshake, and
\* only until it has run; what has run did so once, in a complete session.
Sent ==
  /\ \A n \in Conns : wire[n] = <<>> \/ \E x \in Commands : wire[n] = <<x>>
  /\ \A n \in Conns, c \in Calls : wire[n] = <<c>> =>
       /\ session[n] = Handshake /\ ran[c] = <<>> /\ ~Unsent(c)
       /\ pc[c] = "read" => n = conn
       /\ \A m \in Conns : wire[m] = <<c>> => m = n
  /\ \A c \in Calls : Unsent(c) => ran[c] = <<>>
  /\ \A c \in Calls : ran[c] \in {<<>>, <<Handshake>>}

\* What Do returned.
Results ==
  \A c \in Calls :
    /\ result[c] \in {"none", "error", c}
    /\ result[c] = c => ran[c] # <<>>

Inv ==
  /\ Types /\ Budget /\ Mutex /\ Clean /\ Between /\ Waiting /\ Sent /\ Results
-----------------------------------------------------------------------------

\* One command or reply at a time.
LEMMA OneAtATime ==
  \A x, y : /\ <<x>> # <<>> /\ Head(<<x>>) = x /\ Tail(<<x>>) = <<>>
            /\ Append(<<>>, x) = <<x>> /\ Len(<<x>>) = 1 /\ <<x>>[1] = x
            /\ <<x>> = <<y>> => x = y
OBVIOUS

\* Nobody is in Do, and no connection has been dialed.
LEMMA InitInv == Init => Inv
<1> SUFFICES ASSUME Init PROVE Inv
  OBVIOUS
<1>1. Types
  BY BoundsAssumption, EmptySeq DEF Init, Types
<1>2. Budget /\ Mutex /\ Clean /\ Between /\ Waiting /\ Results
  BY NobodyAssumption, CommandsAssumption
     DEF Init, Budget, Mutex, Clean, Between, Waiting, Results, Conns
<1>3. Sent
  BY OneAtATime DEF Init, Sent, Unsent
<1> QED
  BY <1>1, <1>2, <1>3 DEF Inv

\* The present connection is one of those that the model has room for.
LEMMA ConnInRange ==
  ASSUME Types, Budget
  PROVE  /\ conn # 0 => conn \in Conns
         /\ conn = 0 => opened + 1 \in Conns /\ opened <= breaks + refused
BY BoundsAssumption DEF Types, Budget, Conns

\* Taking the mutex and dialing change nothing that is on its way.
LEMMA LockSteps ==
  ASSUME Inv, NEW c \in Calls, Begin(c) \/ Lock(c) \/ Dial(c) \/ DialFails(c)
  PROVE  Inv'
<1> USE DEF Inv, Goto, clientVars, serverVars, boundVars
<1>1. CASE Begin(c)
  <2>1. /\ pc[c] = "idle" /\ pc' = [pc EXCEPT ![c] = "lock"]
        /\ UNCHANGED <<mu, conn, opened, hello, result, serverVars, boundVars>>
    BY <1>1 DEF Begin
  <2>2. Types'
    BY <2>1 DEF Types
  <2>3. Budget' /\ Clean' /\ Results'
    BY <2>1 DEF Budget, Clean, Results
  <2>4. Mutex'
    BY <2>1 DEF Types, Mutex
  <2>5. Between'
    BY <2>1 DEF Types, Between
  <2>6. Waiting'
    BY <2>1 DEF Types, Waiting, Awaits, Command
  <2>7. \A d \in Calls : Unsent(d)' <=> Unsent(d)
    BY <2>1 DEF Types, Unsent
  <2>8. \A d \in Calls : pc'[d] = "read" => pc[d] = "read"
    BY <2>1 DEF Types
  <2>9. Sent'
    BY <2>1, <2>7, <2>8 DEF Sent
  <2> QED
    BY <2>2, <2>3, <2>4, <2>5, <2>6, <2>9
<1>2. CASE Lock(c)
  <2>1. /\ pc[c] = "lock" /\ pc' = [pc EXCEPT ![c] = "write"]
        /\ mu = Nobody /\ mu' = c
        /\ UNCHANGED <<conn, opened, hello, result, serverVars, boundVars>>
    BY <1>2 DEF Lock
  <2>2. Types'
    BY <2>1 DEF Types
  <2>3. Budget' /\ Clean' /\ Results'
    BY <2>1 DEF Budget, Clean, Results
  <2>4. Mutex'
    BY <2>1, NobodyAssumption DEF Types, Mutex
  <2>5. Between'
    BY <2>1 DEF Types, Between
  <2>6. Waiting'
    BY <2>1 DEF Types, Waiting, Awaits, Command
  <2>7. \A d \in Calls : Unsent(d)' <=> Unsent(d)
    BY <2>1 DEF Types, Unsent
  <2>8. \A d \in Calls : pc'[d] = "read" => pc[d] = "read"
    BY <2>1 DEF Types
  <2>9. Sent'
    BY <2>1, <2>7, <2>8 DEF Sent
  <2> QED
    BY <2>2, <2>3, <2>4, <2>5, <2>6, <2>9
<1>3. CASE Dial(c)
  <2>1. /\ pc[c] = "write" /\ conn = 0
        /\ opened' = opened + 1 /\ conn' = opened + 1 /\ hello' = Handshake
        /\ up' = up \cup {opened + 1}
        /\ UNCHANGED <<mu, pc, result, silent, wire, replies, session, ran, boundVars>>
    BY <1>3 DEF Dial
  <2>2. Types'
    BY <2>1, HandshakeAssumption DEF Types
  <2>3. opened + 1 \in Conns /\ opened <= breaks + refused
    BY <2>1, ConnInRange
  <2>4. wire[opened + 1] = <<>> /\ replies[opened + 1] = <<>> /\ session[opened + 1] = 0
    BY <2>3 DEF Types, Clean
  <2>5. Budget'
    BY <2>1, <2>3, <2>4, OneAtATime DEF Types, Budget
  <2>6. Mutex' /\ Results'
    BY <2>1 DEF Mutex, Results
  <2>7. Clean'
    BY <2>1 DEF Types, Clean, Conns
  <2>8. Between'
    BY <2>1, <2>4, HandshakeAssumption DEF Between
  <2>9. \A d \in Calls : pc[d] # "read"
    BY <2>1 DEF Mutex
  <2>10. \A d \in Calls : Unsent(d)' <=> Unsent(d)
    BY <2>1, <2>9 DEF Unsent
  <2>11. Waiting' /\ Sent'
    BY <2>1, <2>9, <2>10 DEF Waiting, Sent
  <2> QED
    BY <2>2, <2>5, <2>6, <2>7, <2>8, <2>11
<1>4. CASE DialFails(c)
  <2>1. /\ pc[c] = "write" /\ pc' = [pc EXCEPT ![c] = "done"] /\ conn = 0
        /\ refused < MaxRefused /\ refused' = refused + 1 /\ mu' = Nobody
        /\ result' = [result EXCEPT ![c] = "error"]
        /\ UNCHANGED <<conn, opened, hello, serverVars, breaks>>
    BY <1>4 DEF DialFails, Return
  <2>2. Types'
    BY <2>1, BoundsAssumption DEF Types
  <2>3. Budget'
    BY <2>1, BoundsAssumption DEF Types, Budget
  <2>4. Clean' /\ Between'
    BY <2>1 DEF Clean, Between
  <2>5. Mutex'
    BY <2>1, NobodyAssumption DEF Types, Mutex
  <2>6. Results'
    BY <2>1, CommandsAssumption DEF Types, Results
  <2>7. \A d \in Calls : pc[d] # "read" /\ pc'[d] # "read"
    BY <2>1 DEF Types, Mutex
  <2>8. \A d \in Calls : Unsent(d)' => Unsent(d)
    BY <2>1, <2>7 DEF Types, Unsent
  <2>9. Waiting' /\ Sent'
    BY <2>1, <2>7, <2>8 DEF Waiting, Sent
  <2> QED
    BY <2>2, <2>3, <2>4, <2>5, <2>6, <2>9
<1> QED
  BY <1>1, <1>2, <1>3, <1>4

\* Writing puts one command on its way, the caller's own only when the
\* handshake is complete.
LEMMA WriteStep ==
  ASSUME Inv, NEW c \in Calls, Write(c)
  PROVE  Inv'
<1> USE DEF Inv, Goto, boundVars
<1>1. /\ conn # 0 /\ pc[c] = "write" /\ pc' = [pc EXCEPT ![c] = "read"]
      /\ conn \in up => wire' = [wire EXCEPT ![conn] = Append(@, Command(c))]
      /\ conn \notin up => wire' = wire
      /\ UNCHANGED <<mu, conn, opened, hello, result, up, silent, replies, session,
                     ran, boundVars>>
  BY DEF Write, Command
<1>2. conn \in Conns
  BY <1>1, ConnInRange
<1>3. mu = c /\ \A d \in Calls \ {c} : pc[d] \notin {"write", "read"}
  BY <1>1 DEF Mutex
<1>4. /\ wire[conn] = <<>> /\ replies[conn] = <<>>
      /\ session[conn] + hello = Handshake
  BY <1>1, <1>3 DEF Between
<1>5. /\ \A n \in Conns \ {conn} : wire'[n] = wire[n]
      /\ wire'[conn] = IF conn \in up THEN <<Command(c)>> ELSE <<>>
      /\ Command(c) \in Commands
  BY <1>1, <1>2, <1>4, OneAtATime DEF Types, Command, Commands
<1>6. Types'
  <2>1. Append(<<>>, Command(c)) \in Seq(Commands)
    BY <1>5, AppendProperties, EmptySeq
  <2>2. wire' \in [Conns -> Seq(Commands)]
    BY <1>1, <1>2, <1>4, <2>1 DEF Types
  <2>3. pc' \in [Calls -> {"idle", "lock", "write", "read", "done"}]
    BY <1>1 DEF Types
  <2> QED
    BY <1>1, <2>2, <2>3 DEF Types
<1>7. Budget' /\ Results'
  BY <1>1 DEF Budget, Results
<1>8. Mutex'
  BY <1>1, <1>3 DEF Types, Mutex
<1>9. Clean'
  BY <1>1, <1>2, <1>5 DEF Types, Clean
<1>10. Between'
  BY <1>1, <1>3, NobodyAssumption DEF Types, Between
<1>11. Waiting'
  <2>1. Awaits(c)'
    BY <1>1, <1>4, <1>5 DEF Awaits, Command
  <2>2. \A d \in Calls \ {c} : pc'[d] # "read"
    BY <1>1, <1>3 DEF Types
  <2> QED
    BY <2>1, <2>2 DEF Waiting
<1>12. Sent'
  <2>1. \A d \in Calls \ {c} : pc'[d] = pc[d] /\ (Unsent(d)' <=> Unsent(d))
    BY <1>1 DEF Types, Unsent
  <2>2. /\ Unsent(c) /\ ran[c] = <<>> /\ \A n \in Conns : wire[n] # <<c>>
        /\ Unsent(c)' <=> hello > 0
    BY <1>1 DEF Types, Unsent, Sent
  <2>3. ASSUME NEW n \in Conns
        PROVE  wire'[n] = <<>> \/ \E x \in Commands : wire'[n] = <<x>>
    BY <1>5 DEF Sent
  <2>4. ASSUME NEW n \in Conns, NEW d \in Calls, wire'[n] = <<d>>
        PROVE  /\ session[n] = Handshake /\ ran[d] = <<>> /\ ~Unsent(d)'
               /\ pc'[d] = "read" => n = conn
               /\ \A m \in Conns : wire'[m] = <<d>> => m = n
    <3>1. CASE n = conn
      <4>1. d = Command(c)
        BY <1>5, <2>4, <3>1, OneAtATime
      <4>2. hello = 0 /\ d = c
        BY <4>1, NobodyAssumption DEF Command, Types
      <4>3. session[conn] = Handshake
        BY <1>2, <1>4, <4>2, HandshakeAssumption DEF Types
      <4> QED
        BY <1>5, <2>2, <3>1, <4>2, <4>3
    <3>2. CASE n # conn
      <4>1. wire[n] = <<d>> /\ d # c
        BY <1>5, <2>2, <2>4, <3>2
      <4>2. wire'[conn] # <<d>>
        BY <1>5, <4>1, OneAtATime, NobodyAssumption DEF Command
      <4> QED
        BY <1>3, <1>5, <2>1, <4>1, <4>2 DEF Sent
    <3> QED
      BY <3>1, <3>2
  <2>5. \A d \in Calls : Unsent(d)' => ran[d] = <<>>
    BY <2>1, <2>2 DEF Sent
  <2> QED
    BY <1>1, <2>3, <2>4, <2>5 DEF Sent
<1> QED
  BY <1>6, <1>7, <1>8, <1>9, <1>10, <1>11, <1>12

\* Any error, on the connection or in the reply, closes the connection and
\* returns: the caller waits for nothing that could come later.
LEMMA ErrorSteps ==
  ASSUME Inv, NEW c \in Calls, IOFails(c) \/ ReadError(c)
  PROVE  Inv'
<1> USE DEF Inv
<1>1. /\ conn # 0 /\ pc[c] \in {"write", "read"} /\ pc' = [pc EXCEPT ![c] = "done"]
      /\ mu' = Nobody /\ result' = [result EXCEPT ![c] = "error"]
      /\ conn' = 0 /\ up' = up \ {conn}
      /\ UNCHANGED <<opened, hello, silent, wire, replies, session, ran, breaks, refused>>
  BY DEF IOFails, ReadError, Return, Goto, closeLocked, boundVars
<1>2. mu = c /\ \A d \in Calls \ {c} : pc[d] \notin {"write", "read"}
  BY <1>1 DEF Mutex
<1>3. conn \notin up \/ replies[conn] = <<"error">>
  <2>1. CASE IOFails(c)
    BY <2>1 DEF IOFails
  <2>2. CASE ReadError(c)
    <3>1. pc[c] = "read" /\ replies[conn] # <<>> /\ Head(replies[conn]) = "error"
      BY <2>2 DEF ReadError, Return, Goto, Received
    <3>2. Awaits(c) /\ Command(c) # "error"
      BY <3>1, CommandsAssumption DEF Waiting, Command
    <3> QED
      BY <3>1, <3>2, OneAtATime DEF Awaits
  <2> QED
    BY <2>1, <2>2
<1>4. Types'
  BY <1>1 DEF Types
<1>5. Budget'
  BY <1>1, <1>3 DEF Types, Budget
<1>6. Mutex'
  BY <1>1, <1>2, NobodyAssumption DEF Types, Mutex
<1>7. Clean' /\ Between'
  BY <1>1 DEF Clean, Between
<1>8. Results'
  BY <1>1, CommandsAssumption DEF Types, Results
<1>9. \A d \in Calls : pc'[d] # "read" /\ (Unsent(d)' => Unsent(d))
  BY <1>1, <1>2 DEF Types, Unsent
<1>10. Waiting' /\ Sent'
  BY <1>1, <1>9 DEF Waiting, Sent
<1> QED
  BY <1>4, <1>5, <1>6, <1>7, <1>8, <1>10

\* The one reply that can be there is that of the command c waits for.
LEMMA OwnReply ==
  ASSUME Inv, NEW c \in Calls, Receive, Received # "error", pc[c] = "read"
  PROVE  /\ conn \in Conns /\ mu = c
         /\ \A d \in Calls \ {c} : pc[d] \notin {"write", "read"}
         /\ wire[conn] = <<>> /\ replies[conn] = <<Command(c)>>
         /\ Received = Command(c)
         /\ hello > 0 => session[conn] + hello = Handshake + 1
         /\ hello = 0 => session[conn] = Handshake /\ ran[c] # <<>>
         /\ replies' = [replies EXCEPT ![conn] = <<>>]
<1>1. /\ conn # 0 /\ replies[conn] # <<>> /\ Head(replies[conn]) # "error"
      /\ replies' = [replies EXCEPT ![conn] = Tail(replies[conn])]
  BY DEF Receive, Received
<1>2. conn \in Conns
  BY <1>1, ConnInRange DEF Inv
<1>3. mu = c /\ \A d \in Calls \ {c} : pc[d] \notin {"write", "read"}
  BY DEF Inv, Mutex
<1>4. Awaits(c)
  BY DEF Inv, Waiting
<1>5. /\ wire[conn] = <<>> /\ replies[conn] = <<Command(c)>>
      /\ hello > 0 => session[conn] + hello = Handshake + 1
      /\ hello = 0 => session[conn] = Handshake /\ ran[c] # <<>>
  BY <1>1, <1>4, OneAtATime DEF Awaits
<1>6. Received = Command(c) /\ Tail(replies[conn]) = <<>>
  BY <1>5, OneAtATime DEF Received
<1> QED
  BY <1>1, <1>2, <1>3, <1>5, <1>6

\* A reply to the handshake brings the next command.
LEMMA ReadHelloStep ==
  ASSUME Inv, NEW c \in Calls, ReadHello(c)
  PROVE  Inv'
<1> USE DEF Inv
<1>1. /\ hello > 0 /\ pc[c] = "read" /\ pc' = [pc EXCEPT ![c] = "write"]
      /\ hello' = hello - 1 /\ Receive /\ Received # "error"
      /\ UNCHANGED <<mu, conn, opened, result, up, silent, wire, session, ran,
                     breaks, refused>>
  BY DEF ReadHello, Goto, boundVars
<1>2. /\ conn \in Conns /\ mu = c
      /\ \A d \in Calls \ {c} : pc[d] \notin {"write", "read"}
      /\ wire[conn] = <<>> /\ replies[conn] = <<Command(c)>>
      /\ session[conn] + hello = Handshake + 1
      /\ replies' = [replies EXCEPT ![conn] = <<>>]
  BY <1>1, OwnReply
<1>3. replies'[conn] = <<>> /\ \A n \in Conns \ {conn} : replies'[n] = replies[n]
  BY <1>2 DEF Types
<1>4. Types'
  BY <1>1, <1>2, EmptySeq DEF Types
<1>5. Budget'
  <2>1. replies[conn] # <<"error">> /\ replies'[conn] # <<"error">>
    BY <1>2, <1>3, OneAtATime, CommandsAssumption DEF Command
  <2> QED
    BY <1>1, <2>1 DEF Types, Budget
<1>6. Mutex' /\ Results'
  BY <1>1, <1>2 DEF Types, Mutex, Results
<1>7. Clean'
  BY <1>1, <1>2, <1>3 DEF Types, Clean
<1>8. Between'
  <2>1. session[conn] + (hello - 1) = Handshake
    BY <1>1, <1>2, HandshakeAssumption DEF Types
  <2> QED
    BY <1>1, <1>2, <1>3, <2>1 DEF Between
<1>9. \A d \in Calls : pc'[d] # "read" /\ (Unsent(d)' => Unsent(d))
  BY <1>1, <1>2 DEF Types, Unsent
<1>10. Waiting' /\ Sent'
  BY <1>1, <1>9 DEF Waiting, Sent
<1> QED
  BY <1>4, <1>5, <1>6, <1>7, <1>8, <1>10

\* The caller's reply ends the call, and leaves the connection empty for the
\* next one.
LEMMA ReadStep ==
  ASSUME Inv, NEW c \in Calls, Read(c)
  PROVE  Inv'
<1> USE DEF Inv
<1>1. /\ hello = 0 /\ pc[c] = "read" /\ pc' = [pc EXCEPT ![c] = "done"]
      /\ mu' = Nobody /\ result' = [result EXCEPT ![c] = Received]
      /\ Receive /\ Received # "error"
      /\ UNCHANGED <<conn, opened, hello, up, silent, wire, session, ran,
                     breaks, refused>>
  BY DEF Read, Return, Goto, boundVars
<1>2. /\ conn \in Conns /\ mu = c
      /\ \A d \in Calls \ {c} : pc[d] \notin {"write", "read"}
      /\ wire[conn] = <<>> /\ replies[conn] = <<c>> /\ Received = c
      /\ session[conn] = Handshake /\ ran[c] # <<>>
      /\ replies' = [replies EXCEPT ![conn] = <<>>]
  BY <1>1, OwnReply DEF Command
<1>3. replies'[conn] = <<>> /\ \A n \in Conns \ {conn} : replies'[n] = replies[n]
  BY <1>2 DEF Types
<1>4. Types'
  BY <1>1, <1>2, EmptySeq DEF Types
<1>5. Budget'
  <2>1. replies[conn] # <<"error">> /\ replies'[conn] # <<"error">>
    BY <1>2, <1>3, OneAtATime, CommandsAssumption
  <2> QED
    BY <1>1, <2>1 DEF Types, Budget
<1>6. Mutex'
  BY <1>1, <1>2, NobodyAssumption DEF Types, Mutex
<1>7. Clean'
  BY <1>1, <1>2, <1>3 DEF Types, Clean
<1>8. Between'
  BY <1>1, <1>2, <1>3, HandshakeAssumption DEF Between
<1>9. Results'
  BY <1>1, <1>2 DEF Types, Results
<1>10. \A d \in Calls : pc'[d] # "read" /\ (Unsent(d)' => Unsent(d))
  BY <1>1, <1>2 DEF Types, Unsent
<1>11. Waiting' /\ Sent'
  BY <1>1, <1>10 DEF Waiting, Sent
<1> QED
  BY <1>4, <1>5, <1>6, <1>7, <1>8, <1>9, <1>11

\* What is on the present connection is the command its holder waits for.
LEMMA OnTheWay ==
  ASSUME Inv, NEW n \in Conns, wire[n] # <<>>
  PROVE  /\ n <= opened
         /\ \E x \in Commands : wire[n] = <<x>>
         /\ n = conn => \E c \in Calls :
              /\ pc[c] = "read" /\ mu = c
              /\ wire[conn] = <<Command(c)>> /\ replies[conn] = <<>>
              /\ session[conn] + hello = Handshake
<1>1. n <= opened
  BY DEF Inv, Types, Clean, Conns
<1>2. \E x \in Commands : wire[n] = <<x>>
  BY DEF Inv, Sent
<1>3. ASSUME n = conn
      PROVE  \E c \in Calls :
               /\ pc[c] = "read" /\ mu = c
               /\ wire[conn] = <<Command(c)>> /\ replies[conn] = <<>>
               /\ session[conn] + hello = Handshake
  <2>1. conn # 0
    BY <1>3 DEF Conns
  <2>2. mu # Nobody /\ mu \in Calls
    BY <1>3, <2>1 DEF Inv, Between, Types
  <2>3. pc[mu] = "read"
    BY <1>3, <2>1, <2>2 DEF Inv, Between, Mutex
  <2>4. Awaits(mu)
    BY <2>2, <2>3 DEF Inv, Waiting
  <2> QED
    BY <1>3, <2>2, <2>3, <2>4 DEF Awaits
<1> QED
  BY <1>1, <1>2, <1>3

\* Redis answers on an abandoned connection without touching the present one,
\* and on the present one it answers the command that is waited for.
LEMMA RunStep ==
  ASSUME Inv, NEW n \in Conns, Run(n)
  PROVE  Inv'
<1> USE DEF Inv
<1>1. wire[n] # <<>>
  BY DEF Run, Serve
<1>2. PICK x \in Commands : wire[n] = <<x>>
  BY <1>1, OnTheWay
<1>3. Head(wire[n]) = x /\ Tail(wire[n]) = <<>>
  BY <1>2, OneAtATime
<1>4. /\ wire' = [wire EXCEPT ![n] = <<>>]
      /\ n \in up => replies' = [replies EXCEPT ![n] = Append(replies[n], x)]
      /\ n \notin up => replies' = replies
      /\ x = Hello => session' = [session EXCEPT ![n] = session[n] + 1] /\ ran' = ran
      /\ x # Hello => /\ ran' = [ran EXCEPT ![x] = Append(ran[x], session[n])]
                      /\ session' = session
      /\ UNCHANGED <<mu, pc, conn, opened, hello, result, up, silent, breaks, refused>>
  BY <1>3 DEF Run, Serve, clientVars
<1>5. n <= opened /\ opened \in Nat /\ (n \in up => n = conn)
  BY <1>1, OnTheWay DEF Types
<1>6. /\ wire'[n] = <<>> /\ \A m \in Conns \ {n} :
           wire'[m] = wire[m] /\ replies'[m] = replies[m] /\ session'[m] = session[m]
  BY <1>4 DEF Types
<1>7. x # Hello => /\ x \in Calls /\ ran[x] = <<>> /\ session[n] = Handshake
                   /\ ~Unsent(x) /\ ran'[x] = <<Handshake>>
                   /\ \A m \in Conns : wire[m] = <<x>> => m = n
  <2> SUFFICES ASSUME x # Hello
               PROVE  /\ x \in Calls /\ ran[x] = <<>> /\ session[n] = Handshake
                      /\ ~Unsent(x) /\ ran'[x] = <<Handshake>>
                      /\ \A m \in Conns : wire[m] = <<x>> => m = n
    OBVIOUS
  <2>1. x \in Calls
    BY DEF Commands
  <2>2. /\ ran[x] = <<>> /\ session[n] = Handshake /\ ~Unsent(x)
        /\ \A m \in Conns : wire[m] = <<x>> => m = n
    BY <1>2, <2>1 DEF Sent
  <2>3. Append(ran[x], session[n]) = <<Handshake>>
    BY <2>2, OneAtATime
  <2>4. ran'[x] = <<Handshake>>
    BY <1>4, <2>1, <2>3 DEF Types
  <2> QED
    BY <2>1, <2>2, <2>4
<1>8. /\ \A c \in Calls : ran[c] # <<>> => ran'[c] # <<>>
      /\ \A c \in Calls : c # x => ran'[c] = ran[c]
  BY <1>4, <1>7, OneAtATime, NobodyAssumption DEF Types
<1>9. n = conn => \E c \in Calls :
         /\ pc[c] = "read" /\ mu = c /\ x = Command(c) /\ replies[conn] = <<>>
         /\ session[conn] + hello = Handshake
  BY <1>1, <1>2, OnTheWay, OneAtATime
<1>10. n = conn /\ n \in up => replies'[conn] = <<x>>
  BY <1>4, <1>9, OneAtATime DEF Types
<1>11. Types'
  <2>1. replies' \in [Conns -> Seq(Commands \cup {"error"})]
    <3>1. \A t \in Seq(Commands \cup {"error"}) :
            Append(t, x) \in Seq(Commands \cup {"error"})
      BY AppendProperties
    <3>2. Append(replies[n], x) \in Seq(Commands \cup {"error"})
      BY <3>1 DEF Types
    <3> QED
      BY <1>4, <3>2 DEF Types
  <2>2. ran' \in [Calls -> Seq(Nat)]
    <3>1. CASE x = Hello
      BY <1>4, <3>1 DEF Types
    <3>2. CASE x # Hello
      <4>1. Append(ran[x], session[n]) \in Seq(Nat)
        BY <1>7, <3>2, AppendProperties DEF Types
      <4> QED
        BY <1>4, <3>2, <4>1 DEF Types
    <3> QED
      BY <3>1, <3>2
  <2>3. session' \in [Conns -> Nat]
    <3>1. session \in [Conns -> Nat] /\ session[n] + 1 \in Nat
      BY DEF Types
    <3> QED
      BY <1>4, <3>1
  <2>4. wire' \in [Conns -> Seq(Commands)]
    BY <1>4, EmptySeq DEF Types
  <2> QED
    BY <1>4, <2>1, <2>2, <2>3, <2>4 DEF Types
<1>12. Budget'
  <2>1. conn \in up => (replies'[conn] = <<"error">> <=> replies[conn] = <<"error">>)
    <3> SUFFICES ASSUME conn \in up
                 PROVE  replies'[conn] = <<"error">> <=> replies[conn] = <<"error">>
      OBVIOUS
    <3>1. CASE n = conn
      BY <1>9, <1>10, <3>1, OneAtATime, CommandsAssumption DEF Command
    <3>2. CASE n # conn
      BY <1>4, <1>5, <3>2
    <3> QED
      BY <3>1, <3>2
  <2> QED
    BY <1>4, <2>1 DEF Budget
<1>13. Mutex' /\ Results'
  BY <1>4, <1>8 DEF Mutex, Results
<1>14. Clean'
  BY <1>4, <1>5, <1>6 DEF Types, Clean, Conns
<1>15. Between'
  <2>1. CASE n = conn
    BY <1>4, <1>9, <2>1, NobodyAssumption DEF Between, Mutex
  <2>2. CASE n # conn
    BY <1>4, <1>6, <2>2, ConnInRange DEF Between
  <2> QED
    BY <2>1, <2>2
<1>16. Waiting'
  <2> SUFFICES ASSUME NEW c \in Calls, pc[c] = "read"
               PROVE  Awaits(c)'
    BY <1>4 DEF Waiting
  <2>1. Awaits(c) /\ mu = c /\ conn # 0 /\ conn \in Conns
    BY ConnInRange DEF Waiting, Mutex, Awaits
  <2>2. CASE n # conn
    BY <1>4, <1>6, <1>8, <2>1, <2>2 DEF Awaits, Command
  <2>3. CASE n = conn
    <3>1. x = Command(c) /\ replies[conn] = <<>> /\ session[conn] + hello = Handshake
      BY <1>9, <2>1, <2>3
    <3>2. CASE conn \notin up
      BY <1>4, <1>6, <2>1, <2>3, <3>1, <3>2 DEF Awaits
    <3>3. CASE conn \in up
      <4>1. hello > 0 => session'[conn] + hello = Handshake + 1
        BY <1>4, <2>1, <2>3, <3>1, HandshakeAssumption DEF Types, Command
      <4>2. hello = 0 => session'[conn] = Handshake /\ ran'[c] # <<>>
        BY <1>4, <1>7, <2>1, <2>3, <3>1, OneAtATime, NobodyAssumption,
           HandshakeAssumption DEF Types, Command
      <4> QED
        BY <1>4, <1>6, <1>10, <2>1, <2>3, <3>1, <3>3, <4>1, <4>2 DEF Awaits, Command
    <3> QED
      BY <3>2, <3>3
  <2> QED
    BY <2>2, <2>3
<1>17. Sent'
  <2>1. \A c \in Calls : Unsent(c)' <=> Unsent(c)
    BY <1>4 DEF Unsent
  <2>2. ASSUME NEW m \in Conns
        PROVE  wire'[m] = <<>> \/ \E y \in Commands : wire'[m] = <<y>>
    BY <1>6 DEF Sent
  <2>3. ASSUME NEW m \in Conns, NEW c \in Calls, wire'[m] = <<c>>
        PROVE  /\ session'[m] = Handshake /\ ran'[c] = <<>> /\ ~Unsent(c)
               /\ pc[c] = "read" => m = conn
               /\ \A k \in Conns : wire'[k] = <<c>> => k = m
    <3>1. m # n /\ wire[m] = <<c>>
      BY <1>6, <2>3, OneAtATime
    <3>2. c # x
      BY <1>7, <3>1, NobodyAssumption
    <3>3. \A k \in Conns : wire'[k] = <<c>> => wire[k] = <<c>>
      BY <1>6, OneAtATime
    <3> QED
      BY <1>6, <1>8, <3>1, <3>2, <3>3 DEF Sent
  <2>4. ASSUME NEW c \in Calls
        PROVE  (Unsent(c) => ran'[c] = <<>>) /\ ran'[c] \in {<<>>, <<Handshake>>}
    BY <1>7, <1>8, NobodyAssumption DEF Sent
  <2> QED
    BY <1>4, <2>1, <2>2, <2>3, <2>4 DEF Sent
<1> QED
  BY <1>11, <1>12, <1>13, <1>14, <1>15, <1>16, <1>17

\* A command that Redis refuses has not run.
LEMMA RefuseStep ==
  ASSUME Inv, NEW n \in Conns, Refuse(n)
  PROVE  Inv'
<1> USE DEF Inv
<1>1. wire[n] # <<>>
  BY DEF Refuse, Serve
<1>2. PICK x \in Commands : wire[n] = <<x>>
  BY <1>1, OnTheWay
<1>3. Tail(wire[n]) = <<>>
  BY <1>2, OneAtATime
<1>4. /\ wire' = [wire EXCEPT ![n] = <<>>]
      /\ n \in up => replies' = [replies EXCEPT ![n] = Append(replies[n], "error")]
      /\ n \notin up => replies' = replies
      /\ refused < MaxRefused /\ refused' = refused + 1
      /\ UNCHANGED <<mu, pc, conn, opened, hello, result, up, silent, breaks,
                     session, ran>>
  BY <1>3 DEF Refuse, Serve, clientVars
<1>5. n <= opened /\ opened \in Nat /\ (n \in up => n = conn)
  BY <1>1, OnTheWay DEF Types
<1>6. /\ wire'[n] = <<>>
      /\ \A m \in Conns \ {n} : wire'[m] = wire[m] /\ replies'[m] = replies[m]
  BY <1>4 DEF Types
<1>7. n = conn => \E c \in Calls : pc[c] = "read" /\ mu = c /\ replies[conn] = <<>>
  BY <1>1, OnTheWay
<1>8. n = conn /\ n \in up => replies'[conn] = <<"error">>
  BY <1>4, <1>7, OneAtATime DEF Types
<1>9. Types'
  <2>1. replies' \in [Conns -> Seq(Commands \cup {"error"})]
    <3>1. \A t \in Seq(Commands \cup {"error"}) :
            Append(t, "error") \in Seq(Commands \cup {"error"})
      BY AppendProperties
    <3>2. Append(replies[n], "error") \in Seq(Commands \cup {"error"})
      BY <3>1 DEF Types
    <3> QED
      BY <1>4, <3>2 DEF Types
  <2>2. wire' \in [Conns -> Seq(Commands)] /\ refused' \in 0..MaxRefused
    BY <1>4, EmptySeq, BoundsAssumption DEF Types
  <2> QED
    BY <1>4, <2>1, <2>2 DEF Types
<1>10. Budget'
  <2>1. n \notin up => replies' = replies
    BY <1>4
  <2> QED
    BY <1>4, <1>5, <2>1, BoundsAssumption DEF Types, Budget
<1>11. Mutex' /\ Results'
  BY <1>4 DEF Mutex, Results
<1>12. Clean'
  BY <1>4, <1>5, <1>6 DEF Types, Clean, Conns
<1>13. Between'
  <2>1. CASE n = conn
    BY <1>4, <1>7, <2>1, NobodyAssumption DEF Between, Mutex
  <2>2. CASE n # conn
    BY <1>4, <1>6, <2>2, ConnInRange DEF Between
  <2> QED
    BY <2>1, <2>2
<1>14. Waiting'
  <2> SUFFICES ASSUME NEW c \in Calls, pc[c] = "read"
               PROVE  Awaits(c)'
    BY <1>4 DEF Waiting
  <2>1. Awaits(c) /\ conn # 0 /\ conn \in Conns
    BY ConnInRange DEF Waiting, Awaits
  <2>2. CASE n # conn
    BY <1>4, <1>6, <2>1, <2>2 DEF Awaits, Command
  <2>3. CASE n = conn
    BY <1>4, <1>6, <1>7, <1>8, <2>1, <2>3 DEF Awaits
  <2> QED
    BY <2>2, <2>3
<1>15. Sent'
  <2>1. \A c \in Calls : Unsent(c)' <=> Unsent(c)
    BY <1>4 DEF Unsent
  <2>2. \A m \in Conns : wire'[m] = <<>> \/ (wire'[m] = wire[m])
    BY <1>6
  <2> QED
    BY <1>4, <2>1, <2>2, OneAtATime DEF Sent
<1> QED
  BY <1>9, <1>10, <1>11, <1>12, <1>13, <1>14, <1>15

\* Only the present connection can break; what it loses is not waited for.
LEMMA NetworkSteps ==
  ASSUME Inv, NEW n \in Conns, Break(n) \/ FallSilent(n)
  PROVE  Inv'
<1> USE DEF Inv
<1>1. CASE Break(n)
  <2>1. PICK read \in {replies[n], <<>>}, kept \in {wire[n], <<>>} :
          replies' = [replies EXCEPT ![n] = read] /\ wire' = [wire EXCEPT ![n] = kept]
    BY <1>1 DEF Break
  <2>2. /\ breaks < MaxBreaks /\ breaks' = breaks + 1 /\ n \in up /\ up' = up \ {n}
        /\ UNCHANGED <<mu, pc, conn, opened, hello, result, silent, session, ran,
                       refused>>
    BY <1>1 DEF Break, clientVars
  <2>3. n = conn /\ conn # 0 /\ up' = {}
    BY <2>2 DEF Types
  <2>4. /\ replies'[conn] \in {replies[conn], <<>>} /\ wire'[conn] \in {wire[conn], <<>>}
        /\ \A m \in Conns \ {conn} : replies'[m] = replies[m] /\ wire'[m] = wire[m]
    BY <2>1, <2>3 DEF Types
  <2>5. Types'
    <3>1. replies' \in [Conns -> Seq(Commands \cup {"error"})]
      <4>1. read \in Seq(Commands \cup {"error"})
        BY <2>1, EmptySeq DEF Types
      <4> QED
        BY <2>1, <4>1 DEF Types
    <3>2. wire' \in [Conns -> Seq(Commands)]
      <4>1. kept \in Seq(Commands)
        BY <2>1, EmptySeq DEF Types
      <4> QED
        BY <2>1, <4>1 DEF Types
    <3>3. breaks' \in 0..MaxBreaks
      BY <2>2, BoundsAssumption DEF Types
    <3> QED
      BY <2>2, <3>1, <3>2, <3>3 DEF Types
  <2>6. Budget'
    BY <2>2, <2>3, BoundsAssumption DEF Types, Budget
  <2>7. Mutex' /\ Results'
    BY <2>2 DEF Mutex, Results
  <2>8. Clean' /\ Between'
    BY <2>2, <2>3, <2>4 DEF Clean, Between
  <2>9. Waiting'
    <3> SUFFICES ASSUME NEW c \in Calls, pc[c] = "read"
                 PROVE  Awaits(c)'
      BY <2>2 DEF Waiting
    <3>1. Awaits(c)
      BY DEF Waiting
    <3> QED
      BY <2>2, <2>3, <2>4, <3>1 DEF Awaits, Command
  <2>10. Sent'
    <3>1. \A c \in Calls : Unsent(c)' <=> Unsent(c)
      BY <2>2 DEF Unsent
    <3>2. \A m \in Conns : wire'[m] = <<>> \/ (wire'[m] = wire[m])
      BY <2>4
    <3>3. \A c : <<c>> # <<>>
      BY OneAtATime
    <3>4. ASSUME NEW m \in Conns, NEW c \in Calls, wire'[m] = <<c>>
          PROVE  wire[m] = <<c>>
      BY <3>2, <3>3, <3>4
    <3>5. \A m \in Conns : wire'[m] = <<>> \/ \E x \in Commands : wire'[m] = <<x>>
      BY <3>2 DEF Sent
    <3> QED
      BY <2>2, <3>1, <3>4, <3>5 DEF Sent
  <2> QED
    BY <2>5, <2>6, <2>7, <2>8, <2>9, <2>10
<1>2. CASE FallSilent(n)
  <2>1. /\ breaks < MaxBreaks /\ breaks' = breaks + 1
        /\ UNCHANGED <<mu, pc, conn, opened, hello, result, up, wire, replies, session,
                       ran, refused>>
    BY <1>2 DEF FallSilent, clientVars
  <2>2. breaks' \in 0..MaxBreaks
    BY <2>1, BoundsAssumption DEF Types
  <2>3. Types'
    BY <2>1, <2>2 DEF Types
  <2>4. Budget'
    BY <2>1, BoundsAssumption DEF Types, Budget
  <2>5. Mutex' /\ Clean' /\ Between' /\ Results'
    BY <2>1 DEF Mutex, Clean, Between, Results
  <2>6. Waiting' /\ Sent'
    BY <2>1 DEF Waiting, Awaits, Command, Sent, Unsent
  <2> QED
    BY <2>3, <2>4, <2>5, <2>6
<1> QED
  BY <1>1, <1>2

\* No step of a caller, of Redis or of the network breaks the invariant.
LEMMA NextInv == Inv /\ [Next]_vars => Inv'
<1> SUFFICES ASSUME Inv, [Next]_vars
             PROVE  Inv'
  OBVIOUS
<1>1. ASSUME NEW c \in Calls, Begin(c) \/ Step(c) \/ DialFails(c)
      PROVE  Inv'
  BY <1>1, LockSteps, WriteStep, ErrorSteps, ReadHelloStep, ReadStep DEF Step
<1>2. ASSUME NEW n \in Conns, Run(n) \/ Refuse(n) \/ Break(n) \/ FallSilent(n)
      PROVE  Inv'
  BY <1>2, RunStep, RefuseStep, NetworkSteps
<1>3. CASE UNCHANGED vars
  <2> USE <1>3 DEF vars, clientVars, serverVars, boundVars, Inv
  <2>1. Types' /\ Budget'
    BY DEF Types, Budget
  <2>2. Mutex' /\ Clean' /\ Between' /\ Results'
    BY DEF Mutex, Clean, Between, Results
  <2>3. Waiting' /\ Sent'
    BY DEF Waiting, Awaits, Command, Sent, Unsent
  <2> QED
    BY <2>1, <2>2, <2>3
<1> QED
  BY <1>1, <1>2, <1>3 DEF Next

\* DoIsFaithful holds of the client for any set of calls, any handshake of
\* ensureConn and any number of broken, silent and refused connections.
THEOREM DoIsFaithfulAlways == Spec => []DoIsFaithful
<1>1. Inv => DoIsFaithful
  <2> SUFFICES ASSUME Inv, NEW c \in Calls
               PROVE  /\ Len(ran[c]) <= 1
                      /\ \A i \in 1..Len(ran[c]) : ran[c][i] = Handshake
                      /\ result[c] \in {"none", "error", c}
                      /\ result[c] = c => Len(ran[c]) = 1
    BY DEF DoIsFaithful
  <2>1. /\ result[c] \in {"none", "error", c}
        /\ result[c] = c => ran[c] # <<>>
    BY DEF Inv, Results
  <2>2. CASE ran[c] = <<>>
    BY <2>1, <2>2
  <2>3. CASE ran[c] = <<Handshake>>
    BY <2>1, <2>3
  <2> QED
    BY <2>2, <2>3 DEF Inv, Sent
<1> QED
  BY <1>1, InitInv, NextInv, PTL DEF Spec

=============================================================================
