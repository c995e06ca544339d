------------------------------ MODULE GatewayPush ------------------------------
(***************************************************************************)
(* The gateway process: the worker loop (EventWorker), whose processing of *)
(* an assignment is Registry.Send, over the sessions that the connection   *)
(* handlers keep (GatewaySessions), from the start of the process to its   *)
(* orderly or sudden end. Each step is a step of one of the two, or of     *)
(* both where processMessage reaches the registry.                         *)
(***************************************************************************)
EXTENDS Integers, Sequences

CONSTANTS
  Riders, Conns, RiderOf, NoConn,                         \* GatewaySessions
  Partitions, NoPartition, Records, KindOf,               \* EventWorker
  FaultKinds, MaxFaults,
  Topic,          \* what Dispatch publishes on each partition, in order, over time
  RiderOfRecord,  \* a record's payload.rider_id
  KeepsAlive      \* the clients that send pongs nobody asked for (no browser does)

VARIABLES
  sessions, handler, client, pushing,                     \* GatewaySessions
  log, position, committed, stage, current,               \* EventWorker
  cached, stopping, logged, dropped, rewinds, faults,
  server,          \* starting, up (ListenAndServe), down (main has returned)
  frames,          \* history: what each connection was sent
  commitFailed     \* history: whether a commit ever failed

S == INSTANCE GatewaySessions
W == INSTANCE EventWorker     \* logged counts the records offered to Send
       WITH Capacity <- [p \in Partitions |-> Len(Topic[p])]

ASSUME PushAssumption ==
  /\ S!GatewayAssumption
  /\ Topic \in [Partitions -> Seq(Records)]
  /\ W!WorkerAssumption
  /\ RiderOfRecord \in [Records -> Riders]
  /\ KeepsAlive \subseteq Conns

connections == <<sessions, handler, client, pushing>>
loop == <<log, position, committed, stage, current, cached, stopping,
          logged, dropped, rewinds, faults>>
history == <<frames, commitFailed>>
vars == <<connections, loop, server, history>>

Init ==
  /\ S!Init /\ W!Init
  /\ server = "starting"
  /\ frames = [c \in Conns |-> << >>]
  /\ commitFailed = FALSE

-------------------------------------------------------------------------------
(* processMessage.                                                         *)

Pushable == stage = "process" /\ W!Kind = "TripAssigned"
Rider    == RiderOfRecord[W!Record]

\* Send finds no session: the push is skipped.
NotConnected ==
  /\ Pushable
  /\ sessions[Rider] = NoConn
  /\ S!Lookup(Rider)
  /\ W!Notify
  /\ UNCHANGED <<server, history>>

\* Send finds the session and starts to write to it.
BeginWrite ==
  /\ Pushable
  /\ sessions[Rider] # NoConn
  /\ S!Lookup(Rider)
  /\ UNCHANGED <<loop, server, history>>

Frame == [place |-> W!Held, rewinds |-> rewinds,
          current |-> sessions[RiderOf[pushing]] = pushing]

\* The frame reaches a client that is there, over a connection that is not closed.
Sent ==
  frames' = IF client[pushing] = "open" /\ handler[pushing] # "closed"
              THEN [frames EXCEPT ![pushing] = Append(@, Frame)]
              ELSE frames

\* Mutant of EndWrite: the worker keeps the connection for the next event.
EndWriteKeepsConnection ==
  /\ pushing # NoConn
  /\ client[pushing] # "stalled" \/ handler[pushing] = "closed"
  /\ W!Notify
  /\ Sent
  /\ UNCHANGED <<connections, server, commitFailed>>

\* Mutant of EndWrite: after a write that fails, the record is left uncommitted.
EndWriteReturnsError ==
  /\ S!WriteReturns
  /\ IF handler[pushing] = "closed"
       THEN stage' = "top" /\ current' = NoPartition
            /\ UNCHANGED <<log, position, committed, cached, stopping,
                           logged, dropped, rewinds, faults>>
       ELSE W!Notify
  /\ Sent
  /\ UNCHANGED <<server, commitFailed>>

\* WriteMessage returns; its error, if any, is not looked at.
EndWrite ==
  /\ S!WriteReturns
  /\ W!Notify
  /\ Sent
  /\ UNCHANGED <<server, commitFailed>>

\* Not in filteredEventTypes.
Skip ==
  /\ W!Skip
  /\ UNCHANGED <<connections, server, history>>

\* deserializeAvro fails, or there is no payload or no rider_id in it.
Drop ==
  /\ pushing = NoConn
  /\ W!Drop
  /\ UNCHANGED <<connections, server, history>>

processMessage == NotConnected \/ BeginWrite \/ EndWrite \/ Skip \/ Drop

-------------------------------------------------------------------------------
(* run.                                                                    *)

Read(p) ==
  /\ W!ReadMessage(p)
  /\ UNCHANGED <<connections, server, history>>

\* The look at stopCh, and a read that brings nothing.
Poll ==
  /\ W!LoopTop \/ W!ReadReturnsNothing
  /\ UNCHANGED <<connections, server, history>>

\* Mutant of Commit: the offset of the message itself, not of the one after it.
CommitOneShort ==
  /\ stage = "commit"
  /\ committed' = [committed EXCEPT ![current] = W!Index - 1]
  /\ stage' = "top"
  /\ current' = NoPartition
  /\ UNCHANGED <<log, position, cached, stopping, logged, dropped, rewinds,
                 faults, connections, server, history>>

Commit ==
  /\ W!CommitMessage
  /\ UNCHANGED <<connections, server, history>>

CommitFails ==
  /\ W!CommitMessageFails
  /\ commitFailed' = TRUE
  /\ UNCHANGED <<connections, server, frames>>

\* main has its tracer, its registry and its consumer, and starts the worker.
Start ==
  /\ W!Start
  /\ UNCHANGED <<connections, server, history>>

StartFails ==
  /\ W!StartFails
  /\ UNCHANGED <<connections, server, history>>

run == \/ Start \/ StartFails
       \/ Poll \/ (\E p \in Partitions : Read(p)) \/ processMessage \/ Commit \/ CommitFails

-------------------------------------------------------------------------------
(* main.                                                                   *)

\* The server listens only after the worker was started.
Listen ==
  /\ server = "starting" /\ stage # "starting"
  /\ server' = "up"
  /\ UNCHANGED <<connections, loop, history>>

Stop ==
  /\ server # "down"
  /\ W!Stop
  /\ UNCHANGED <<connections, server, history>>

\* The sessions and connections end with the process.
LoseConnections ==
  /\ sessions' = [r \in Riders |-> NoConn]
  /\ handler' = [c \in Conns |-> IF handler[c] = "new" THEN "new" ELSE "closed"]
  /\ client' = [c \in Conns |-> IF handler[c] = "new" THEN "away" ELSE "gone"]
  /\ pushing' = NoConn

\* Stop has returned. Shutdown does not wait for connections that were upgraded.
Exit ==
  /\ stage = "stopped" /\ server # "down"
  /\ server' = "down"
  /\ LoseConnections
  /\ UNCHANGED <<loop, history>>

StartAgain ==
  /\ server = "down"
  /\ W!StartAgain
  /\ server' = "starting"
  /\ UNCHANGED <<connections, history>>

Crash ==
  /\ server # "down"
  /\ W!Crash
  /\ server' = "starting"
  /\ LoseConnections
  /\ UNCHANGED history

-------------------------------------------------------------------------------
(* Connections, and the broker.                                            *)

Upgrade(c) ==
  /\ server = "up"
  /\ S!Upgrade(c)
  /\ UNCHANGED <<loop, server, history>>

ServeHTTP(c) ==
  /\ S!ServeHTTP(c)
  /\ UNCHANGED <<loop, server, history>>

\* The end of the connection need not be noticed: the network may swallow it.
Disconnected(c) ==
  /\ S!ReadFails(c)
  /\ UNCHANGED <<loop, server, history>>

Timeout(c) ==
  /\ S!ReadTimeout(c)
  /\ UNCHANGED <<loop, server, history>>

Client(c) ==
  /\ S!ClientLeaves(c) \/ S!ClientStalls(c) \/ S!ClientDrains(c)
  /\ UNCHANGED <<loop, server, history>>

NextOnTopic(p) == Topic[p][W!End(p) + 1]

Broker ==
  /\ \/ \E p \in Partitions, e \in Records : W!Publish(p, e) /\ e = NextOnTopic(p)
     \/ W!Rebalance
  /\ UNCHANGED <<connections, server, history>>

Next ==
  \/ run
  \/ Listen \/ Stop \/ Exit \/ StartAgain \/ Crash
  \/ \E c \in Conns : \/ Upgrade(c) \/ ServeHTTP(c) \/ Disconnected(c) \/ Timeout(c)
                      \/ Client(c)
  \/ Broker

Spec == Init /\ [][Next]_vars

\* Goroutines are scheduled, main's too when Stop has returned; librdkafka serves
\* the partitions it fetched in turn; time passes, so a deadline nobody prolongs
\* expires.
Fairness ==
  /\ WF_vars(run)
  /\ \A p \in Partitions : SF_vars(Read(p))
  /\ \A c \in Conns : WF_vars(ServeHTTP(c))
  /\ \A c \in Conns \ KeepsAlive : WF_vars(Timeout(c))
  /\ WF_vars(Exit)

FairSpec == Spec /\ Fairness

-------------------------------------------------------------------------------
(* Correctness.                                                            *)

\* The type invariant, with that of both parts. A write is part of processing,
\* only a rider's own events are sent to a connection, and no connection outlives
\* the process.
TypeOK ==
  /\ S!TypeOK /\ W!TypeOK
  /\ server \in {"starting", "up", "down"}
  /\ pushing # NoConn => /\ stage = "process"
                         /\ RiderOf[pushing] = Rider
  /\ \A c \in Conns : \A i \in DOMAIN frames[c] :
       RiderOfRecord[log[frames[c][i].place[1]][frames[c][i].place[2]]] = RiderOf[c]
  /\ commitFailed \in BOOLEAN
  /\ server = "down" => /\ stage = "stopped"
                        /\ \A c \in Conns : handler[c] \in {"new", "closed"}
  /\ stage = "starting" => server = "starting"

\* The gateway's worker keeps what EventWorker promises (offsets that give up
\* nothing, records in order, Stop with no message in hand) although it writes to
\* clients in the middle of a record: between two records it is the same loop.
ImplementsWorker == W!Spec

\* The registry only hands out connections the gateway has not given up, whatever
\* other connections of the rider come and go and whenever the process ends.
RegisteredIsOpen == S!RegisteredIsOpen

\* One connection sees the events of a partition in the order of the topic and
\* each once. Two things must come together to break that: a failed commit and
\* then a rebalance. A restart cannot, because no connection survives it.
PushesInOrder ==
  \A c \in Conns : \A i, j \in DOMAIN frames[c] :
    LET f == frames[c][i]  g == frames[c][j]
    IN  i < j /\ f.place[1] = g.place[1] =>
          f.place[2] < g.place[2] \/ (commitFailed /\ f.rewinds < g.rewinds)

\* A connection that was replaced or unregistered gets at most one more event, the
\* one that Send had already looked it up for.
StaleGetsAtMostOne ==
  \A c \in Conns : \A i, j \in DOMAIN frames[c] :
    i # j => frames[c][i].current \/ frames[c][j].current

\* Every record is offered to its rider in the end, whatever the clients of other
\* riders do: a client that has stopped reading holds the loop up only until its
\* handler's deadline.
EveryRecordIsOffered ==
  \A p \in Partitions : \A i \in W!Indexes(p) :
    W!End(p) >= i ~> (W!Settled(p, i) \/ stopping)

\* A client that left is forgotten, also if the network swallowed its goodbye.
LeaversAreForgotten == S!LeaversAreForgotten

\* SIGTERM ends the process, also while a write is blocked: main calls Stop, which
\* has no timeout, before it shuts the server down.
StopEnds == stopping ~> (server = "down" \/ ~stopping)
===============================================================================
