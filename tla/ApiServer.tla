----------------------------- MODULE ApiServer -----------------------------
(***************************************************************************)
(* internal/api: the server on the Unix socket and the calls of its        *)
(* clients.  Every call has a connection of its own, and every accepted    *)
(* connection a goroutine, which the server's WaitGroup counts.            *)
(***************************************************************************)
EXTENDS Integers, FiniteSets

CONSTANT Callers   \* the cm commands, each of which makes one call

ASSUME CallersAssumption == IsFiniteSet(Callers)

VARIABLES
  server,      \* where Start and Close are; "failed": it could not listen
  listening,   \* the listener is open
  accepting,   \* the goroutine of acceptLoop runs
  wg,          \* the counter of s.wg
  handler,     \* the goroutine of serveConn for each call
  call         \* Client.Call for each caller

apiVars == <<server, listening, accepting, wg, handler, call>>

(***************************************************************************)
(* A caller that is killed may leave before it has sent its request, or    *)
(* abandon a request that the server still finds in the socket.  A call is *)
(* over when neither side has anything to do for it.                       *)
(***************************************************************************)
Calls == {"none", "dialed", "sent", "left", "abandoned", "over"}
Underway == {"dialed", "sent"}
Delivered == {"sent", "abandoned"}
Waiting(c) == call[c] \notin {"none", "over"} /\ handler[c] = "none"

ApiReset ==
  /\ server' = "new" /\ listening' = FALSE /\ accepting' = FALSE /\ wg' = 0
  /\ handler' = [c \in Callers |-> "none"]

ApiInit ==
  /\ server = "new" /\ listening = FALSE /\ accepting = FALSE /\ wg = 0
  /\ handler = [c \in Callers |-> "none"]
  /\ call = [c \in Callers |-> "none"]
-----------------------------------------------------------------------------
(* The client *)

Dial(c) ==
  /\ call[c] = "none"
  /\ call' = [call EXCEPT ![c] = IF listening THEN "dialed" ELSE "over"]
  /\ UNCHANGED <<server, listening, accepting, wg, handler>>

Send(c) ==
  /\ call[c] = "dialed"
  /\ call' = [call EXCEPT ![c] = "sent"]
  /\ UNCHANGED <<server, listening, accepting, wg, handler>>

Interrupt(c) ==
  /\ call[c] \in Underway
  /\ call' = [call EXCEPT ![c] = IF @ = "sent" THEN "abandoned" ELSE "left"]
  /\ UNCHANGED <<server, listening, accepting, wg, handler>>
-----------------------------------------------------------------------------
(* The server *)

\* Server.Start, which first removes whatever socket it finds.
Listen ==
  /\ server = "new"
  /\ server' = "serving" /\ listening' = TRUE /\ accepting' = TRUE /\ wg' = 1
  /\ UNCHANGED <<handler, call>>

ListenFails ==
  /\ server = "new"
  /\ server' = "failed"
  /\ UNCHANGED <<listening, accepting, wg, handler, call>>

\* Mutant of Accept: wg.Add is missing.
AcceptUncounted(c) ==
  /\ accepting /\ listening
  /\ Waiting(c)
  /\ handler' = [handler EXCEPT ![c] = "reading"]
  /\ UNCHANGED <<server, listening, accepting, wg, call>>

Accept(c) ==
  /\ accepting /\ listening
  /\ Waiting(c)
  /\ handler' = [handler EXCEPT ![c] = "reading"]
  /\ wg' = wg + 1
  /\ UNCHANGED <<server, listening, accepting, call>>

\* serveConn decodes a request that has come in.
Read(c) ==
  /\ handler[c] = "reading"
  /\ call[c] \in Delivered
  /\ handler' = [handler EXCEPT ![c] = "running"]
  /\ UNCHANGED <<server, listening, accepting, wg, call>>

\* It finds the end of the stream instead.
ReadEnds(c) ==
  /\ handler[c] = "reading"
  /\ call[c] = "left"
  /\ handler' = [handler EXCEPT ![c] = "none"]
  /\ wg' = wg - 1
  /\ call' = [call EXCEPT ![c] = "over"]
  /\ UNCHANGED <<server, listening, accepting>>

\* dispatch returns, and the answer reaches a caller that is still there.
Reply(c) ==
  /\ handler[c] = "running"
  /\ handler' = [handler EXCEPT ![c] = "none"]
  /\ wg' = wg - 1
  /\ call' = [call EXCEPT ![c] = "over"]
  /\ UNCHANGED <<server, listening, accepting>>

\* Server.Close closes s.done,
CloseApi ==
  /\ server = "serving"
  /\ server' = "closing"
  /\ UNCHANGED <<listening, accepting, wg, handler, call>>

\* Mutant of CloseListener: the callers that wait to be accepted hear nothing.
CloseListenerSilently ==
  /\ server = "closing" /\ listening
  /\ listening' = FALSE
  /\ UNCHANGED <<server, accepting, wg, handler, call>>

\* then the listener, which resets the connections that nobody has accepted,
CloseListener ==
  /\ server = "closing" /\ listening
  /\ listening' = FALSE
  /\ call' = [c \in Callers |-> IF Waiting(c) THEN "over" ELSE call[c]]
  /\ UNCHANGED <<server, accepting, wg, handler>>

\* which ends the accept loop,
AcceptEnds ==
  /\ accepting /\ ~listening
  /\ accepting' = FALSE
  /\ wg' = wg - 1
  /\ UNCHANGED <<server, listening, handler, call>>

\* and waits for all goroutines.
ApiClosed ==
  /\ server = "closing" /\ ~listening
  /\ wg = 0
  /\ server' = "closed"
  /\ UNCHANGED <<listening, accepting, wg, handler, call>>

\* The process is gone, and the socket of every call with it.
ApiKilled ==
  /\ ApiReset
  /\ call' = [c \in Callers |-> IF call[c] = "none" THEN "none" ELSE "over"]

\* What the server and the callers do on their own.
ApiStep ==
  \/ \E c \in Callers : Dial(c) \/ Send(c) \/ Interrupt(c)
  \/ \E c \in Callers : Accept(c) \/ Read(c) \/ ReadEnds(c)
  \/ CloseListener \/ AcceptEnds \/ ApiClosed

ApiTypeOK ==
  /\ server \in {"new", "failed", "serving", "closing", "closed"}
  /\ listening \in BOOLEAN /\ accepting \in BOOLEAN
  /\ wg \in Nat
  /\ handler \in [Callers -> {"none", "reading", "running"}]
  /\ call \in [Callers -> Calls]
=============================================================================
