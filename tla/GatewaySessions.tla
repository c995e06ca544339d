---------------------------- MODULE GatewaySessions ----------------------------
(***************************************************************************)
(* The gateway's session registry between the goroutines that share it:    *)
(* one ServeHTTP per WebSocket connection, which registers, reads and      *)
(* unregisters, and the Kafka worker, which looks a rider up under the     *)
(* read lock and writes after releasing it. Each critical section of the   *)
(* RWMutex is one step.                                                    *)
(***************************************************************************)
EXTENDS Integers

CONSTANTS
  Riders,
  Conns,       \* one per upgraded GET /ws; a rider that reconnects gets a new one
  RiderOf,     \* the rider_id query parameter of each
  NoConn

\* An assumption of GatewayPush, which runs these sessions in a process.
GatewayAssumption ==
  /\ RiderOf \in [Conns -> Riders]
  /\ NoConn \notin Conns

VARIABLES
  sessions,   \* Registry.sessions, NoConn where the map has no entry
  handler,    \* each ServeHTTP: new, upgraded, registered, reading, exited,
              \* unregistered, closed
  client,     \* the other end of each connection: away, open, stalled, gone
  pushing     \* the connection the worker is writing to, NoConn between events

vars == <<sessions, handler, client, pushing>>

HandlerStates == {"new", "upgraded", "registered", "reading", "exited",
                  "unregistered", "closed"}

Init ==
  /\ sessions = [r \in Riders |-> NoConn]
  /\ handler = [c \in Conns |-> "new"]
  /\ client = [c \in Conns |-> "away"]
  /\ pushing = NoConn

-------------------------------------------------------------------------------
(* ServeHTTP.                                                              *)

Step(c, from, to) ==
  /\ handler[c] = from
  /\ handler' = [handler EXCEPT ![c] = to]

SetSession(r, c) == sessions' = [sessions EXCEPT ![r] = c]

Upgrade(c) ==
  /\ Step(c, "new", "upgraded")
  /\ client' = [client EXCEPT ![c] = "open"]
  /\ UNCHANGED <<sessions, pushing>>

\* The previous connection of the rider, if any, is replaced but stays open.
Register(c) ==
  /\ Step(c, "upgraded", "registered")
  /\ SetSession(RiderOf[c], c)
  /\ UNCHANGED <<client, pushing>>

\* SetReadDeadline: sixty seconds, prolonged only by a pong.
ArmDeadline(c) ==
  /\ Step(c, "registered", "reading")
  /\ UNCHANGED <<sessions, client, pushing>>

\* Mutant of ReadFails: an unexpected close returns early.
ReadFailsReturning(c) ==
  /\ client[c] = "gone"
  /\ Step(c, "reading", "closed")
  /\ UNCHANGED <<sessions, client, pushing>>

\* ReadMessage fails: the peer closed or reset the connection.
ReadFails(c) ==
  /\ client[c] = "gone"
  /\ Step(c, "reading", "exited")
  /\ UNCHANGED <<sessions, client, pushing>>

\* Mutant of ReadTimeout: a timeout counts as temporary and the loop goes on.
ReadTimeoutContinues(c) ==
  /\ handler[c] = "reading"
  /\ UNCHANGED vars

\* ReadMessage fails: no pong for sixty seconds. The gateway sends no pings, so
\* this is how every connection of an ordinary client ends.
ReadTimeout(c) ==
  /\ Step(c, "reading", "exited")
  /\ UNCHANGED <<sessions, client, pushing>>

\* The entry of the rider goes, whichever connection it holds.
Unregister(c) ==
  /\ Step(c, "exited", "unregistered")
  /\ SetSession(RiderOf[c], NoConn)
  /\ UNCHANGED <<client, pushing>>

Close(c) ==
  /\ Step(c, "unregistered", "closed")
  /\ UNCHANGED <<sessions, client, pushing>>

-------------------------------------------------------------------------------
(* The worker: Registry.Send for the rider of one event after the other.   *)

\* The read-locked half. A rider without an entry gets nothing.
Lookup(r) ==
  /\ pushing = NoConn
  /\ pushing' = sessions[r]
  /\ UNCHANGED <<sessions, handler, client>>

\* WriteMessage has no deadline: it returns when the peer takes the frame or is
\* known to be gone, or with an error once the handler has closed the connection.
WriteReturns ==
  /\ pushing # NoConn
  /\ client[pushing] # "stalled" \/ handler[pushing] = "closed"
  /\ pushing' = NoConn
  /\ UNCHANGED <<sessions, handler, client>>

-------------------------------------------------------------------------------
(* The clients.                                                            *)

ClientMoves(c, from, to) ==
  /\ client[c] \in from
  /\ client' = [client EXCEPT ![c] = to]
  /\ UNCHANGED <<sessions, handler, pushing>>

ClientLeaves(c) == ClientMoves(c, {"open", "stalled"}, "gone")
\* The client stops reading and its window fills up.
ClientStalls(c) == ClientMoves(c, {"open"}, "stalled")
ClientDrains(c) == ClientMoves(c, {"stalled"}, "open")

ServeHTTP(c) == Register(c) \/ ArmDeadline(c) \/ Unregister(c) \/ Close(c)

Next ==
  \/ \E c \in Conns : \/ Upgrade(c) \/ ServeHTTP(c) \/ ReadFails(c) \/ ReadTimeout(c)
                      \/ ClientLeaves(c) \/ ClientStalls(c) \/ ClientDrains(c)
  \/ \E r \in Riders : Lookup(r)
  \/ WriteReturns

Spec == Init /\ [][Next]_vars

-------------------------------------------------------------------------------
(* Correctness.                                                            *)

\* The type invariant; a client is there from the upgrade on, and the worker
\* only writes to connections that have been registered.
TypeOK ==
  /\ sessions \in [Riders -> Conns \cup {NoConn}]
  /\ handler \in [Conns -> HandlerStates]
  /\ client \in [Conns -> {"away", "open", "stalled", "gone"}]
  /\ pushing \in Conns \cup {NoConn}
  /\ pushing # NoConn => handler[pushing] \notin {"new", "upgraded"}
  /\ \A c \in Conns : (handler[c] = "new") <=> (client[c] = "away")

Serving == {"registered", "reading", "exited"}

\* The registry only hands out connections the gateway has not given up: a
\* connection leaves the map before it is closed and never comes back, whatever
\* other connections of the same rider come and go.
RegisteredIsOpen ==
  \A r \in Riders : sessions[r] # NoConn =>
    handler[sessions[r]] \in Serving /\ RiderOf[sessions[r]] = r

\* A client that left is forgotten, also if the network swallowed its goodbye.
LeaversAreForgotten ==
  \A c \in Conns : client[c] = "gone" ~> \A r \in Riders : sessions[r] # c

\* A rider with a live connection has an entry in the registry, so that a push
\* is a no-op only for a rider who is not connected.
ConnectedIsRegistered ==
  \A c \in Conns : handler[c] = "reading" /\ client[c] = "open"
                     => sessions[RiderOf[c]] # NoConn

\* The read loop runs until the client disconnects.
ReadsUntilClientLeaves ==
  \A c \in Conns : handler[c] \in {"exited", "unregistered", "closed"}
                     => client[c] = "gone"
===============================================================================
