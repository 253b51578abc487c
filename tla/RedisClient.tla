---------------------------- MODULE RedisClient ----------------------------
(***************************************************************************)
(* The Redis client (internal/redisx/client.go): goroutines share one      *)
(* connection under one mutex, which Do holds while it connects, writes a  *)
(* command and reads the reply.                                            *)
(*                                                                         *)
(* A call of Do is named by its command and happens once.  A connection    *)
(* carries commands one way and replies the other, and may break with data *)
(* on the way, or fall silent: the peer stops answering without closing,   *)
(* and no deadline is ever set on the connection.  What a command does to  *)
(* the data is left to RedisQueue and RedisStorage; here it is run or not. *)
(***************************************************************************)
EXTENDS Naturals, Sequences

CONSTANTS
  Calls,        \* calls of Do
  Nobody,       \* the holder of a free mutex
  Hello,        \* AUTH or SELECT
  Handshake,    \* how many of them ensureConn sends: 0, 1 or 2
  MaxBreaks,    \* bound on connections that break or fall silent
  MaxRefused    \* bound on error replies and failed dials

ASSUME NobodyAssumption == {Nobody, Hello} \cap Calls = {}
ASSUME CommandsAssumption == {"none", "error"} \cap (Calls \cup {Hello}) = {}
ASSUME HandshakeAssumption == Handshake \in 0..2
ASSUME BoundsAssumption == MaxBreaks \in Nat /\ MaxRefused \in Nat

\* Every connection but the last one is closed because of a fault.
Conns == 1..(1 + MaxBreaks + MaxRefused)
Commands == Calls \cup {Hello}

VARIABLES
  mu,        \* holder of Client.mu
  pc,        \* call -> where it is
  conn,      \* Client.conn, 0 for nil
  opened,    \* connections dialed so far
  hello,     \* handshake commands still to be sent on conn
  result,    \* call -> what Do returned, "none" before
  up,        \* connections that are not broken or closed
  silent,    \* connections whose peer answers no more
  wire,      \* connection -> commands Redis has not looked at
  replies,   \* connection -> replies not read yet
  session,   \* connection -> handshake commands Redis has run on it
  ran,       \* call -> sessions in which Redis has run its command
  breaks, refused

clientVars == <<mu, pc, conn, opened, hello, result>>
serverVars == <<up, silent, wire, replies, session, ran>>
boundVars == <<breaks, refused>>
vars == <<clientVars, serverVars, boundVars>>

Init ==
  /\ mu = Nobody /\ pc = [c \in Calls |-> "idle"]
  /\ conn = 0 /\ opened = 0 /\ hello = 0
  /\ result = [c \in Calls |-> "none"]
  /\ up = {} /\ silent = {}
  /\ wire = [n \in Conns |-> <<>>] /\ replies = [n \in Conns |-> <<>>]
  /\ session = [n \in Conns |-> 0] /\ ran = [c \in Calls |-> <<>>]
  /\ breaks = 0 /\ refused = 0

-----------------------------------------------------------------------------
(* Do.                                                                     *)

Goto(c, from, to) == pc[c] = from /\ pc' = [pc EXCEPT ![c] = to]

\* The deferred Unlock, with what Do returns.
Return(c, from, value) ==
  /\ Goto(c, from, "done")
  /\ mu' = Nobody
  /\ result' = [result EXCEPT ![c] = value]

\* A goroutine that comes to Do waits for the mutex.
Begin(c) ==
  /\ Goto(c, "idle", "lock")
  /\ UNCHANGED <<mu, conn, opened, hello, result, serverVars, boundVars>>

Lock(c) ==
  /\ mu = Nobody
  /\ Goto(c, "lock", "write")
  /\ mu' = c
  /\ UNCHANGED <<conn, opened, hello, result, serverVars, boundVars>>

\* ensureConn has no connection and dials.
Dial(c) ==
  /\ pc[c] = "write" /\ conn = 0
  /\ opened' = opened + 1 /\ conn' = opened' /\ hello' = Handshake
  /\ up' = up \cup {opened'}
  /\ UNCHANGED <<mu, pc, result, silent, wire, replies, session, ran, boundVars>>

\* Mutant of DialFails: the early return leaves the mutex locked.
DialFailsLocked(c) ==
  /\ conn = 0 /\ refused < MaxRefused
  /\ refused' = refused + 1
  /\ Goto(c, "write", "done")
  /\ UNCHANGED <<mu, result, conn, opened, hello, serverVars, breaks>>

DialFails(c) ==
  /\ conn = 0 /\ refused < MaxRefused
  /\ refused' = refused + 1
  /\ Return(c, "write", "error")
  /\ UNCHANGED <<conn, opened, hello, serverVars, breaks>>

\* writeCommand: the next of the handshake, or the caller's own.  What is
\* written to a broken connection may be lost without an error.
Write(c) ==
  /\ conn # 0
  /\ Goto(c, "write", "read")
  /\ wire' = IF conn \in up
               THEN [wire EXCEPT ![conn] = Append(@, IF hello > 0 THEN Hello ELSE c)]
               ELSE wire
  /\ UNCHANGED <<mu, conn, opened, hello, result>>
  /\ UNCHANGED <<up, silent, replies, session, ran, boundVars>>

closeLocked ==
  /\ conn' = 0 /\ up' = up \ {conn}
  /\ UNCHANGED <<opened, hello, silent, wire, replies, session, ran>>

\* Writing to or reading from a broken connection fails.
IOFails(c) ==
  /\ conn # 0 /\ conn \notin up
  /\ \E at \in {"write", "read"} : Return(c, at, "error")
  /\ closeLocked
  /\ UNCHANGED boundVars

Received == Head(replies[conn])

Receive ==
  /\ conn # 0 /\ replies[conn] # <<>>
  /\ replies' = [replies EXCEPT ![conn] = Tail(@)]

\* The handshake goes on with the next command, or is over.
ReadHello(c) ==
  /\ hello > 0
  /\ Receive /\ Received # "error"
  /\ Goto(c, "read", "write")
  /\ hello' = hello - 1
  /\ UNCHANGED <<mu, conn, opened, result, up, silent, wire, session, ran, boundVars>>

Read(c) ==
  /\ hello = 0
  /\ Receive /\ Received # "error"
  /\ Return(c, "read", Received)
  /\ UNCHANGED <<conn, opened, hello, up, silent, wire, session, ran, boundVars>>

\* Mutant of ReadError: an error reply to AUTH or SELECT leaves the connection
\* as it is.
ReadErrorKeepsConn(c) ==
  /\ Receive /\ Received = "error"
  /\ Return(c, "read", "error")
  /\ hello' = 0
  /\ UNCHANGED <<conn, opened, up, silent, wire, session, ran, boundVars>>

\* An error reply, of the handshake too, closes the connection.
ReadError(c) ==
  /\ conn # 0 /\ replies[conn] # <<>> /\ Received = "error"
  /\ Return(c, "read", "error")
  /\ closeLocked
  /\ UNCHANGED boundVars

Step(c) ==
  \/ Lock(c) \/ Dial(c) \/ Write(c) \/ IOFails(c)
  \/ ReadHello(c) \/ Read(c) \/ ReadError(c)

-----------------------------------------------------------------------------
(* Redis and the network.                                                  *)

\* A connection that broke takes its replies with it, but Redis may still run
\* what it had received, even after Do returned its error.
Serve(n, reply) ==
  /\ wire[n] # <<>> /\ n \notin silent
  /\ wire' = [wire EXCEPT ![n] = Tail(@)]
  /\ replies' = IF n \in up THEN [replies EXCEPT ![n] = Append(@, reply)] ELSE replies
  /\ UNCHANGED <<clientVars, up, silent, breaks>>

\* BRPOP may take its five seconds: nothing says when.
Run(n) ==
  /\ LET cmd == Head(wire[n]) IN
       /\ Serve(n, cmd)
       /\ IF cmd = Hello
            THEN session' = [session EXCEPT ![n] = @ + 1] /\ UNCHANGED ran
            ELSE ran' = [ran EXCEPT ![cmd] = Append(@, session[n])] /\ UNCHANGED session
  /\ UNCHANGED refused

Refuse(n) ==
  /\ refused < MaxRefused /\ refused' = refused + 1
  /\ Serve(n, "error")
  /\ UNCHANGED <<session, ran>>

Break(n) ==
  /\ breaks < MaxBreaks /\ breaks' = breaks + 1
  /\ n \in up /\ up' = up \ {n}
  /\ \E read \in {replies[n], <<>>} : replies' = [replies EXCEPT ![n] = read]
  /\ \E kept \in {wire[n], <<>>} : wire' = [wire EXCEPT ![n] = kept]
  /\ UNCHANGED <<clientVars, silent, session, ran, refused>>

FallSilent(n) ==
  /\ breaks < MaxBreaks /\ breaks' = breaks + 1
  /\ n \in up \ silent /\ silent' = silent \cup {n}
  /\ UNCHANGED <<clientVars, up, wire, replies, session, ran, refused>>

Next ==
  \/ \E c \in Calls : Begin(c) \/ Step(c) \/ DialFails(c)
  \/ \E n \in Conns : Run(n) \/ Refuse(n) \/ Break(n) \/ FallSilent(n)

Spec == Init /\ [][Next]_vars

\* Goroutines that can run do run, a free mutex is taken in the end, and Redis
\* answers what it receives on a connection that has not fallen silent.
FairSpec ==
  /\ Spec
  /\ \A c \in Calls : WF_vars(Step(c))
  /\ \A n \in Conns : WF_vars(Run(n))

-----------------------------------------------------------------------------
(* Properties.                                                             *)

\* What RedisQueue and RedisStorage take for granted of Do.  A command runs
\* at most once, also when Do failed and the next call reconnected, and never
\* in a session without its AUTH and SELECT (which would be another
\* database); and a reply that Do returns is that of its own command, which
\* has run.
DoIsFaithful ==
  \A c \in Calls :
    /\ Len(ran[c]) <= 1
    /\ \A i \in 1..Len(ran[c]) : ran[c][i] = Handshake
    /\ result[c] \in {"none", "error", c}
    /\ result[c] = c => Len(ran[c]) = 1

\* Every call returns, although all wait for one mutex and a call that
\* blocks in Redis keeps it: after errors, failed dials and broken connections
\* the next one connects again.  The exception is a connection that falls
\* silent without closing: as Do sets no deadline, its caller waits for ever
\* with the mutex in its hands, and so does everybody else.
DoReturnsUnlessSilent ==
  \A c \in Calls : pc[c] = "lock" ~> pc[c] = "done" \/ conn \in silent \cap up
=============================================================================
