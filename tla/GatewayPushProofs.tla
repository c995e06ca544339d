--------------------------- MODULE GatewayPushProofs ---------------------------
(***************************************************************************)
(* The gateway's loop is EventWorker's, whatever its clients do, and keeps *)
(* what EventWorker promises; its connections, and what they are sent.     *)
(***************************************************************************)
EXTENDS GatewayPush, TLAPS

P == INSTANCE EventWorkerProofs WITH Capacity <- [p \in Partitions |-> Len(Topic[p])]

\* Every step of the gateway is a step of the worker loop or leaves it alone.
LEMMA StepIsWorkerStep == [Next]_vars => [W!Next]_W!vars
<1> SUFFICES ASSUME [Next]_vars
             PROVE  [W!Next]_W!vars
  OBVIOUS
<1>1. CASE UNCHANGED vars
  BY <1>1 DEF vars, loop, W!vars, W!offsets, W!history
<1>2. CASE run
  <2>1. CASE Start \/ StartFails \/ Poll
    BY <2>1 DEF Start, StartFails, Poll, W!Next, W!Run
  <2>2. CASE \E p \in Partitions : Read(p)
    BY <2>2 DEF Read, W!Next, W!Run
  <2>3. CASE NotConnected \/ EndWrite
    BY <2>3 DEF NotConnected, EndWrite, W!Next, W!Run
  <2>4. CASE BeginWrite
    BY <2>4 DEF BeginWrite, loop, W!vars, W!offsets, W!history
  <2>5. CASE Skip \/ Drop
    BY <2>5 DEF Skip, Drop, W!Next, W!Run
  <2>6. CASE Commit \/ CommitFails
    BY <2>6 DEF Commit, CommitFails, W!Next, W!Run
  <2> QED BY <1>2, <2>1, <2>2, <2>3, <2>4, <2>5, <2>6 DEF run, processMessage
<1>3. CASE Listen \/ Exit
  BY <1>3 DEF Listen, Exit, loop, W!vars, W!offsets, W!history
<1>4. CASE Stop \/ StartAgain \/ Crash
  BY <1>4 DEF Stop, StartAgain, Crash, W!Next
<1>5. CASE \E c \in Conns : \/ Upgrade(c) \/ ServeHTTP(c) \/ Disconnected(c) \/ Timeout(c)
                            \/ Client(c)
  BY <1>5 DEF Upgrade, ServeHTTP, Disconnected, Timeout, Client, loop,
              W!vars, W!offsets, W!history
<1>6. CASE Broker
  BY <1>6 DEF Broker, W!Next
<1> QED BY <1>1, <1>2, <1>3, <1>4, <1>5, <1>6 DEF Next

\* The gateway implements EventWorker, with any clients.
THEOREM WorkerRefinement == Spec => ImplementsWorker
<1>1. Init => W!Init
  BY DEF Init
<1> QED BY <1>1, StepIsWorkerStep, PTL DEF Spec, ImplementsWorker, W!Spec

\* The instance that carries EventWorker's theorems is the same worker.
LEMMA SameWorker ==
  /\ W!WorkerAssumption => P!WorkerAssumption
  /\ W!Init <=> P!Init
  /\ [W!Next]_W!vars <=> [P!Next]_P!vars
  /\ P!CommittedIsSettled <=> W!CommittedIsSettled
  /\ P!NoOvertaking <=> W!NoOvertaking
<1>1. W!WorkerAssumption => P!WorkerAssumption
  BY DEF W!WorkerAssumption, P!WorkerAssumption, W!RecordKinds, P!RecordKinds,
         W!AllFaultKinds, P!AllFaultKinds
<1>2. W!Init <=> P!Init
  BY DEF W!Init, P!Init, W!Places, P!Places, W!Indexes, P!Indexes
<1>3. [W!Next]_W!vars <=> [P!Next]_P!vars
  BY DEF
      W!Run, W!Start, W!StartFails, W!Publish, W!LoopTop, W!ReadMessage, W!ReadReturnsNothing,
      W!Notify, W!Skip, W!Drop, W!LogNotification, W!LogWarning, W!CommitMessage, W!CommitMessageFails,
      W!Rewind, W!Rebalance, W!NewProcess, W!Crash, W!Stop, W!StartAgain,
      W!Fault, W!NoFault, W!Index, W!Held, W!Record, W!Kind, W!End, W!Indexes, W!Places,
      W!offsets, W!history, W!vars, W!Init, W!Next,
      P!Run, P!Start, P!StartFails, P!Publish, P!LoopTop, P!ReadMessage, P!ReadReturnsNothing,
      P!Notify, P!Skip, P!Drop, P!LogNotification, P!LogWarning, P!CommitMessage, P!CommitMessageFails,
      P!Rewind, P!Rebalance, P!NewProcess, P!Crash, P!Stop, P!StartAgain,
      P!Fault, P!NoFault, P!Index, P!Held, P!Record, P!Kind, P!End, P!Indexes, P!Places,
      P!offsets, P!history, P!vars, P!Init, P!Next
<1>4. P!CommittedIsSettled <=> W!CommittedIsSettled
  BY DEF P!CommittedIsSettled, W!CommittedIsSettled, P!Settled, W!Settled, P!End, W!End
<1>5. P!NoOvertaking <=> W!NoOvertaking
  BY DEF P!NoOvertaking, W!NoOvertaking, P!Settled, W!Settled, P!Indexes, W!Indexes, P!End, W!End
<1> QED BY <1>1, <1>2, <1>3, <1>4, <1>5

\* So no offset that the gateway commits gives up an event that was neither
\* offered to its rider's session nor dropped with a warning.
THEOREM CommittedIsOffered == Spec => []W!CommittedIsSettled
<1>1. P!Spec => []P!CommittedIsSettled
  BY P!CommittedIsSettledHolds, PushAssumption, SameWorker
<1>2. W!Spec => P!Spec
  BY SameWorker, PTL DEF W!Spec, P!Spec
<1> QED BY <1>1, <1>2, SameWorker, WorkerRefinement, PTL DEF ImplementsWorker

\* And a rider's events on one trip are offered in the order of the topic, however
\* long a write to some client takes.
THEOREM OffersInOrder == Spec => []W!NoOvertaking
<1>1. P!Spec => []P!NoOvertaking
  BY P!NoOvertakingHolds, PushAssumption, SameWorker
<1>2. W!Spec => P!Spec
  BY SameWorker, PTL DEF W!Spec, P!Spec
<1> QED BY <1>1, <1>2, SameWorker, WorkerRefinement, PTL DEF ImplementsWorker

-------------------------------------------------------------------------------
(* The connections.                                                        *)

\* The registry and the handlers.
ConnInv == S!TypeOK /\ S!RegisteredIsOpen

\* What is sent to a connection: a place of the topic and when.
FrameType == [place : Partitions \X (Nat \ {0}), rewinds : Nat, current : BOOLEAN]

\* A connection that was sent an event after it was given up is never looked up
\* again: it was registered before, and a connection registers once.
StaleIsForgotten ==
  \A c \in Conns : \A i \in DOMAIN frames[c] : ~frames[c][i].current =>
    /\ handler[c] \notin {"new", "upgraded"}
    /\ pushing # c /\ sessions[RiderOf[c]] # c

\* The frames keep their type.
FramesTyped == frames \in [Conns -> Seq(FrameType)]

\* As long as no commit has failed, only the message in hand is uncommitted.
CommitsKeepUp ==
  ~commitFailed => \A p \in Partitions :
    committed[p] = IF current = p THEN position[p] - 1 ELSE position[p]

\* Frame f lies behind the loop.
Behind(f) ==
  /\ f.rewinds <= rewinds
  /\ f.rewinds = rewinds \/ ~commitFailed =>
       /\ f.place[2] <= position[f.place[1]]
       /\ stage = "process" /\ current = f.place[1] => f.place[2] < position[f.place[1]]

\* What an open connection was sent since the last rewind has been read, and is not
\* the message being processed; without a failed commit that is so for all of it.
FramesAreBehind ==
  \A c \in Conns :
    /\ handler[c] = "new" => frames[c] = << >>
    /\ handler[c] # "closed" => \A i \in DOMAIN frames[c] : Behind(frames[c][i])

\* What the type invariant says of the composition.
FramesAreOwn ==
  \A c \in Conns : \A i \in DOMAIN frames[c] :
    LET f == frames[c][i].place
    IN  f[2] <= Len(log[f[1]]) /\ RiderOfRecord[log[f[1]][f[2]]] = RiderOf[c]

\* A write is part of the processing of an assignment.
PushingIsProcessing ==
  pushing # NoConn => Pushable /\ RiderOf[pushing] = Rider

\* The server is down only when the loop has ended and every connection with it.
ServerFitsLoop ==
  /\ server \in {"starting", "up", "down"}
  /\ commitFailed \in BOOLEAN
  /\ server = "down" => /\ stage = "stopped"
                        /\ \A c \in Conns : handler[c] \in {"new", "closed"}
  /\ stage = "starting" => server = "starting"

\* EventWorker's types hold of the gateway's loop.
LEMMA WorkerTypeOK == Spec => []W!TypeOK
<1>1. P!Spec => []P!TypeOK
  BY P!TypeOKHolds, PushAssumption, SameWorker
<1>2. W!Spec => P!Spec
  BY SameWorker, PTL DEF W!Spec, P!Spec
<1>3. P!TypeOK <=> W!TypeOK
  BY DEF P!TypeOK, W!TypeOK, P!Places, W!Places, P!Indexes, W!Indexes, P!Stages, W!Stages,
         P!End, W!End
<1> QED BY <1>1, <1>2, <1>3, WorkerRefinement, PTL DEF ImplementsWorker

\* The process takes its registry and its connections with it.
LEMMA LosingKeepsConnections ==
  ASSUME ConnInv, LoseConnections
  PROVE  ConnInv'
BY DEF ConnInv, LoseConnections, S!TypeOK, S!RegisteredIsOpen, S!HandlerStates

\* Every critical section of the registry keeps what it says.
LEMMA SessionStepKeeps ==
  ASSUME ConnInv, S!Next
  PROVE  ConnInv'
<1> USE PushAssumption DEF ConnInv, S!TypeOK, S!RegisteredIsOpen, S!GatewayAssumption, S!Serving
<1>1. ASSUME NEW c \in Conns, S!Upgrade(c)
      PROVE  ConnInv'
  BY <1>1 DEF S!Upgrade, S!Step, S!HandlerStates
<1>2. ASSUME NEW c \in Conns, S!Register(c)
      PROVE  ConnInv'
  BY <1>2 DEF S!Register, S!Step, S!SetSession, S!HandlerStates
<1>3. ASSUME NEW c \in Conns, S!ArmDeadline(c) \/ S!ReadFails(c) \/ S!ReadTimeout(c)
      PROVE  ConnInv'
  <2>1. /\ handler[c] \in {"registered", "reading"} /\ UNCHANGED <<sessions, client, pushing>>
        /\ handler' = [handler EXCEPT ![c] = handler'[c]] /\ handler'[c] \in {"reading", "exited"}
    BY <1>3 DEF S!ArmDeadline, S!ReadFails, S!ReadTimeout, S!Step
  <2>2. S!TypeOK'
    BY <2>1 DEF S!HandlerStates
  <2>3. S!RegisteredIsOpen'
    BY <2>1
  <2> QED BY <2>2, <2>3
<1>4. ASSUME NEW c \in Conns, S!Unregister(c)
      PROVE  ConnInv'
  BY <1>4 DEF S!Unregister, S!Step, S!SetSession, S!HandlerStates
<1>5. ASSUME NEW c \in Conns, S!Close(c)
      PROVE  ConnInv'
  BY <1>5 DEF S!Close, S!Step, S!HandlerStates
<1>6. ASSUME NEW c \in Conns, S!ClientLeaves(c) \/ S!ClientStalls(c) \/ S!ClientDrains(c)
      PROVE  ConnInv'
  BY <1>6 DEF S!ClientLeaves, S!ClientStalls, S!ClientDrains, S!ClientMoves
<1>7. ASSUME NEW r \in Riders, S!Lookup(r)
      PROVE  ConnInv'
  BY <1>7 DEF S!Lookup
<1>8. CASE S!WriteReturns
  BY <1>8 DEF S!WriteReturns
<1> QED BY <1>1, <1>2, <1>3, <1>4, <1>5, <1>6, <1>7, <1>8 DEF S!Next, S!ServeHTTP

\* What a step of the gateway is for its connections.
LEMMA StepOfSessions ==
  ASSUME [Next]_vars, W!TypeOK
  PROVE  UNCHANGED connections \/ S!Next \/ LoseConnections
<1>1. Pushable => Rider \in Riders
  <2> SUFFICES ASSUME Pushable PROVE Rider \in Riders
    OBVIOUS
  <2>1. /\ current \in Partitions /\ log[current] \in Seq(Records)
        /\ position[current] \in 1 .. Len(log[current])
    BY DEF Pushable, W!TypeOK, W!End
  <2>2. log[current][position[current]] \in Records
    BY <2>1
  <2> QED BY <2>2, PushAssumption DEF Rider, W!Record, W!Index
<1>2. CASE run
  BY <1>1, <1>2
     DEF run, Start, StartFails, Poll, Read, processMessage, NotConnected, BeginWrite, EndWrite,
         Skip, Drop, Commit, CommitFails, S!Next
<1>3. CASE Listen \/ Stop \/ Exit \/ StartAgain \/ Crash \/ Broker
  BY <1>3 DEF Listen, Stop, Exit, StartAgain, Crash, Broker
<1>4. CASE \E c \in Conns : \/ Upgrade(c) \/ ServeHTTP(c) \/ Disconnected(c) \/ Timeout(c)
                            \/ Client(c)
  BY <1>4 DEF Upgrade, ServeHTTP, Disconnected, Timeout, Client, S!Next
<1>5. CASE UNCHANGED vars
  BY <1>5 DEF vars
<1> QED BY <1>2, <1>3, <1>4, <1>5 DEF Next

\* Every step of the gateway keeps what the registry says.
LEMMA StepKeepsConnections ==
  ASSUME ConnInv, W!TypeOK, [Next]_vars
  PROVE  ConnInv'
<1>1. CASE UNCHANGED connections
  BY <1>1 DEF connections, ConnInv, S!TypeOK, S!RegisteredIsOpen
<1> QED BY <1>1, StepOfSessions, SessionStepKeeps, LosingKeepsConnections

\* So it always holds.
LEMMA ConnInvariant == Spec => []ConnInv
<1>1. Init => ConnInv
  BY PushAssumption
     DEF Init, S!Init, ConnInv, S!TypeOK, S!RegisteredIsOpen, S!HandlerStates
<1> QED BY <1>1, StepKeepsConnections, WorkerTypeOK, PTL DEF Spec

\* For any riders and connections, the registry hands out only connections that
\* the gateway has not given up.
THEOREM RegisteredIsOpenHolds == Spec => []RegisteredIsOpen
<1>1. ConnInv => RegisteredIsOpen
  BY DEF ConnInv, RegisteredIsOpen
<1> QED BY <1>1, ConnInvariant, PTL

-------------------------------------------------------------------------------
(* The process and its loop.                                               *)

\* No goroutine of the process is left when main has returned.
LEMMA StepServerFitsLoop ==
  ASSUME ServerFitsLoop, [Next]_vars
  PROVE  ServerFitsLoop'
<1> USE DEF ServerFitsLoop, history, connections, loop
<1>1. CASE run
  <2>1. server' = server /\ UNCHANGED handler
    BY <1>1 DEF run, Start, StartFails, Poll, Read, processMessage, NotConnected, BeginWrite,
                EndWrite, Skip, Drop, Commit, CommitFails, S!Lookup, S!WriteReturns
  <2>2. stage # "stopped" /\ (stage' = "starting" => stage = "starting")
    BY <1>1 DEF run, Start, StartFails, Poll, Read, processMessage, NotConnected, BeginWrite,
                EndWrite, Skip, Drop, Commit, CommitFails, S!Lookup, S!WriteReturns, Pushable,
                W!Start, W!StartFails, W!LoopTop, W!ReadReturnsNothing, W!ReadMessage,
                W!Notify, W!Skip, W!Drop, W!CommitMessage, W!CommitMessageFails
  <2>3. commitFailed' \in BOOLEAN
    BY <1>1 DEF run, Start, StartFails, Poll, Read, processMessage, NotConnected, BeginWrite,
                EndWrite, Skip, Drop, Commit, CommitFails
  <2> QED BY <2>1, <2>2, <2>3
<1>2. CASE Listen \/ Stop
  BY <1>2 DEF Listen, Stop, W!Stop
<1>3. CASE Exit \/ Crash
  BY <1>3 DEF Exit, Crash, LoseConnections, W!Crash, W!NewProcess
<1>4. CASE StartAgain
  BY <1>4 DEF StartAgain, W!StartAgain, W!NewProcess
<1>5. ASSUME NEW c \in Conns, Upgrade(c)
      PROVE  ServerFitsLoop'
  BY <1>5 DEF Upgrade
<1>6. ASSUME NEW c \in Conns, ServeHTTP(c) \/ Disconnected(c) \/ Timeout(c) \/ Client(c)
      PROVE  ServerFitsLoop'
  <2>1. UNCHANGED <<loop, server, history>>
    BY <1>6 DEF ServeHTTP, Disconnected, Timeout, Client
  <2>2. (\A d \in Conns : handler[d] \in {"new", "closed"}) => UNCHANGED handler
    BY <1>6 DEF ServeHTTP, Disconnected, Timeout, Client, S!ServeHTTP, S!Register,
                S!ArmDeadline, S!Unregister, S!Close, S!ReadFails, S!ReadTimeout, S!Step,
                S!ClientLeaves, S!ClientStalls, S!ClientDrains, S!ClientMoves
  <2> QED BY <2>1, <2>2
<1>7. CASE Broker
  BY <1>7 DEF Broker, W!Publish, W!Rebalance
<1>8. CASE UNCHANGED vars
  BY <1>8 DEF vars
<1> QED BY <1>1, <1>2, <1>3, <1>4, <1>5, <1>6, <1>7, <1>8 DEF Next

\* What the loop has read stays where it is.
LEMMA LogKeeps ==
  ASSUME W!TypeOK, [Next]_vars, NEW p \in Partitions, NEW i \in 1 .. Len(log[p])
  PROVE  log'[p][i] = log[p][i] /\ i \in 1 .. Len(log'[p])
<1>1. CASE \E q \in Partitions, e \in Records : W!Publish(q, e)
  <2>1. PICK q \in Partitions, e \in Records : W!Publish(q, e)
    BY <1>1
  <2>2. log[q] \in Seq(Records) /\ log[p] \in Seq(Records)
    BY DEF W!TypeOK
  <2>3. log'[p] = IF p = q THEN Append(log[q], e) ELSE log[p]
    BY <2>1 DEF W!Publish, W!TypeOK
  <2> QED BY <2>2, <2>3
<1>2. CASE UNCHANGED log
  BY <1>2
<1>3. CASE run
  BY <1>2, <1>3
     DEF run, Start, StartFails, Poll, Read, processMessage, NotConnected, BeginWrite,
         EndWrite, Skip, Drop, Commit, CommitFails, loop,
         W!Start, W!StartFails, W!LoopTop, W!ReadReturnsNothing, W!ReadMessage,
         W!Notify, W!Skip, W!Drop, W!CommitMessage, W!CommitMessageFails
<1>4. CASE Listen \/ Stop \/ Exit \/ StartAgain \/ Crash
  BY <1>2, <1>4
     DEF Listen, Stop, Exit, StartAgain, Crash, loop, W!Stop, W!StartAgain, W!Crash, W!NewProcess
<1>5. CASE \E c \in Conns : \/ Upgrade(c) \/ ServeHTTP(c) \/ Disconnected(c) \/ Timeout(c)
                            \/ Client(c)
  BY <1>2, <1>5 DEF Upgrade, ServeHTTP, Disconnected, Timeout, Client, loop
<1>6. CASE Broker
  BY <1>1, <1>2, <1>6 DEF Broker, W!Rebalance
<1>7. CASE UNCHANGED vars
  BY <1>2, <1>7 DEF vars, loop
<1> QED BY <1>3, <1>4, <1>5, <1>6, <1>7 DEF Next

\* A step that leaves the loop where it is leaves it with its message.
LEMMA MessageKeeps ==
  ASSUME W!TypeOK, [Next]_vars, stage = "process", UNCHANGED <<stage, position, current>>
  PROVE  W!Record' = W!Record /\ (Pushable' <=> Pushable) /\ Rider' = Rider
<1>1. current \in Partitions /\ position[current] \in 1 .. Len(log[current])
  BY DEF W!TypeOK, W!End
<1>2. W!Record' = W!Record
  BY <1>1, LogKeeps DEF W!Record, W!Index
<1> QED BY <1>2 DEF Pushable, Rider, W!Kind

\* A write is about the message that is being processed.
LEMMA StepPushingIsProcessing ==
  ASSUME W!TypeOK, ConnInv, PushingIsProcessing, [Next]_vars
  PROVE  PushingIsProcessing'
<1> USE DEF connections, loop
<1>1. CASE pushing' = NoConn
  BY <1>1 DEF PushingIsProcessing
<1>2. CASE pushing' = pushing /\ UNCHANGED <<stage, position, current>>
  BY <1>2, MessageKeeps DEF PushingIsProcessing, Pushable
<1>3. CASE BeginWrite
  <2>1. pushing' = sessions[Rider] /\ RiderOf[sessions[Rider]] = Rider
    <3>1. current \in Partitions /\ position[current] \in 1 .. Len(log[current])
          /\ log[current] \in Seq(Records)
      BY <1>3 DEF BeginWrite, Pushable, W!TypeOK, W!End
    <3>2. Rider \in Riders
      BY <3>1, PushAssumption DEF Rider, W!Record, W!Index
    <3> QED BY <1>3, <3>2 DEF BeginWrite, S!Lookup, ConnInv, S!RegisteredIsOpen
  <2>2. (Pushable' <=> Pushable) /\ Rider' = Rider
    BY <1>3, MessageKeeps DEF BeginWrite, Pushable
  <2> QED BY <1>3, <2>1, <2>2 DEF BeginWrite, PushingIsProcessing
<1>4. CASE run
  <2>1. CASE Start \/ StartFails \/ Poll \/ (\E p \in Partitions : Read(p)) \/ Commit \/ CommitFails
    <3>1. stage # "process" /\ pushing' = pushing
      BY <2>1 DEF Start, StartFails, Poll, Read, Commit, CommitFails, W!Start, W!StartFails,
                  W!LoopTop, W!ReadReturnsNothing, W!ReadMessage, W!CommitMessage,
                  W!CommitMessageFails
    <3> QED BY <1>1, <3>1 DEF PushingIsProcessing, Pushable
  <2>2. CASE NotConnected \/ EndWrite
    BY <1>1, <2>2 DEF NotConnected, EndWrite, S!Lookup, S!WriteReturns
  <2>3. CASE Skip \/ Drop
    <3>1. pushing = NoConn /\ pushing' = pushing
      BY <2>3 DEF Skip, Drop, W!Skip, PushingIsProcessing, Pushable
    <3> QED BY <1>1, <3>1
  <2> QED BY <1>3, <1>4, <2>1, <2>2, <2>3 DEF run, processMessage
<1>5. CASE Exit \/ Crash
  BY <1>1, <1>5 DEF Exit, Crash, LoseConnections
<1>6. CASE StartAgain
  <2>1. pushing = NoConn /\ pushing' = pushing
    BY <1>6 DEF StartAgain, W!StartAgain, PushingIsProcessing, Pushable
  <2> QED BY <1>1, <2>1
<1>7. CASE Listen \/ Stop
  BY <1>2, <1>7 DEF Listen, Stop, W!Stop, W!offsets
<1>8. CASE \E c \in Conns : \/ Upgrade(c) \/ ServeHTTP(c) \/ Disconnected(c) \/ Timeout(c)
                            \/ Client(c)
  BY <1>2, <1>8 DEF Upgrade, ServeHTTP, Disconnected, Timeout, Client,
                    S!Upgrade, S!ServeHTTP, S!Register, S!ArmDeadline, S!Unregister, S!Close,
                    S!ReadFails, S!ReadTimeout, S!ClientLeaves, S!ClientStalls, S!ClientDrains,
                    S!ClientMoves
<1>9. CASE Broker
  <2>1. pushing' = pushing /\ (UNCHANGED <<stage, position, current>> \/ stage = "read")
    BY <1>9 DEF Broker, W!Publish, W!Rebalance, W!offsets
  <2> QED BY <1>1, <1>2, <2>1 DEF PushingIsProcessing, Pushable
<1>10. CASE UNCHANGED vars
  BY <1>2, <1>10 DEF vars
<1> QED BY <1>4, <1>5, <1>6, <1>7, <1>8, <1>9, <1>10 DEF Next

-------------------------------------------------------------------------------
(* The frames.                                                             *)

\* A frame reaches the connection that is written to, if it is not closed.
Appends ==
  /\ EndWrite /\ pushing \in Conns /\ handler[pushing] # "closed"
  /\ frames' = [frames EXCEPT ![pushing] = Append(@, Frame)]

\* Nothing else is sent to anyone.
LEMMA StepOfFrames ==
  ASSUME ConnInv, [Next]_vars
  PROVE  UNCHANGED frames \/ Appends
<1> USE DEF history
<1>1. CASE EndWrite
  <2>1. pushing \in Conns
    BY <1>1 DEF EndWrite, S!WriteReturns, ConnInv, S!TypeOK
  <2> QED BY <1>1, <2>1 DEF EndWrite, Sent, Appends
<1>2. CASE run
  BY <1>1, <1>2
     DEF run, Start, StartFails, Poll, Read, processMessage, NotConnected, BeginWrite, Skip,
         Drop, Commit, CommitFails
<1>3. CASE Listen \/ Stop \/ Exit \/ StartAgain \/ Crash \/ Broker
  BY <1>3 DEF Listen, Stop, Exit, StartAgain, Crash, Broker
<1>4. CASE \E c \in Conns : \/ Upgrade(c) \/ ServeHTTP(c) \/ Disconnected(c) \/ Timeout(c)
                            \/ Client(c)
  BY <1>4 DEF Upgrade, ServeHTTP, Disconnected, Timeout, Client
<1>5. CASE UNCHANGED vars
  BY <1>5 DEF vars
<1> QED BY <1>2, <1>3, <1>4, <1>5 DEF Next

\* The frame is of the message in hand, which is in the log.
LEMMA FrameIs ==
  ASSUME W!TypeOK, ConnInv, PushingIsProcessing, FramesTyped, Appends
  PROVE  /\ stage = "process" /\ stage' = "commit" /\ current \in Partitions
         /\ UNCHANGED <<log, position, current, rewinds, commitFailed, handler>>
         /\ Frame.place[1] = current /\ Frame.place[2] = position[current]
         /\ position[current] \in 1 .. Len(log[current])
         /\ RiderOfRecord[log[current][position[current]]] = RiderOf[pushing]
         /\ Frame.rewinds = rewinds
         /\ Frame.current = (sessions[RiderOf[pushing]] = pushing)
         /\ Frame \in FrameType
         /\ FramesTyped'
         /\ \A c \in Conns : c # pushing => frames'[c] = frames[c]
         /\ Len(frames'[pushing]) = Len(frames[pushing]) + 1 /\ Len(frames[pushing]) \in Nat
         /\ frames'[pushing][Len(frames[pushing]) + 1] = Frame
         /\ \A i \in 1 .. Len(frames[pushing]) : frames'[pushing][i] = frames[pushing][i]
<1>1. /\ pushing \in Conns /\ stage = "process" /\ stage' = "commit"
      /\ UNCHANGED <<log, position, current, rewinds, commitFailed, handler>>
      /\ frames' = [frames EXCEPT ![pushing] = Append(@, Frame)]
  BY DEF Appends, EndWrite, W!Notify, W!offsets, S!WriteReturns
<1>2. /\ current \in Partitions /\ position[current] \in 1 .. Len(log[current])
      /\ position[current] \in Nat \ {0}
  BY <1>1 DEF W!TypeOK, W!End
<1>3. RiderOfRecord[log[current][position[current]]] = RiderOf[pushing]
  BY <1>1, PushAssumption
     DEF PushingIsProcessing, Rider, W!Record, W!Index, S!GatewayAssumption
<1>4. Frame.place = <<current, position[current]>> /\ Frame.rewinds = rewinds
  BY DEF Frame, W!Held, W!Index
<1>5. Frame.current = (sessions[RiderOf[pushing]] = pushing)
  BY DEF Frame
<1>6. Frame \in FrameType
  <2>1. rewinds \in Nat /\ W!Held \in Partitions \X (Nat \ {0})
    BY <1>2 DEF W!TypeOK, W!Held, W!Index
  <2>2. (sessions[RiderOf[pushing]] = pushing) \in BOOLEAN
    OBVIOUS
  <2> QED BY <2>1, <2>2 DEF Frame, FrameType
<1>7. frames[pushing] \in Seq(FrameType) /\ DOMAIN frames = Conns
  BY <1>1 DEF FramesTyped
<1> HIDE DEF Frame
<1>8. frames'[pushing] = Append(frames[pushing], Frame)
  BY <1>1, <1>7
<1>9. /\ Append(frames[pushing], Frame) \in Seq(FrameType)
      /\ Len(frames'[pushing]) = Len(frames[pushing]) + 1 /\ Len(frames[pushing]) \in Nat
      /\ frames'[pushing][Len(frames[pushing]) + 1] = Frame
      /\ \A i \in 1 .. Len(frames[pushing]) : frames'[pushing][i] = frames[pushing][i]
  BY <1>6, <1>7, <1>8
<1>10. FramesTyped'
  BY <1>1, <1>9 DEF FramesTyped
<1> QED BY <1>1, <1>2, <1>3, <1>4, <1>5, <1>6, <1>7, <1>9, <1>10

\* Every frame of a connection after the step is an old one or the new one.
LEMMA FramesAre ==
  ASSUME W!TypeOK, ConnInv, PushingIsProcessing, FramesTyped, Appends, NEW c \in Conns
  PROVE  /\ DOMAIN frames[c] = 1 .. Len(frames[c]) /\ DOMAIN frames'[c] = 1 .. Len(frames'[c])
         /\ \A i \in DOMAIN frames'[c] :
              \/ i \in DOMAIN frames[c] /\ frames'[c][i] = frames[c][i]
              \/ c = pushing /\ i = Len(frames[c]) + 1 /\ frames'[c][i] = Frame
<1>1. frames[c] \in Seq(FrameType) /\ frames'[c] \in Seq(FrameType)
  BY FrameIs DEF FramesTyped
<1>2. DOMAIN frames[c] = 1 .. Len(frames[c]) /\ DOMAIN frames'[c] = 1 .. Len(frames'[c])
      /\ Len(frames[c]) \in Nat
  BY <1>1
<1>3. CASE c # pushing
  <2>1. frames'[c] = frames[c]
    BY <1>3, FrameIs
  <2> QED BY <1>2, <2>1
<1>4. CASE c = pushing
  <2>1. /\ Len(frames'[c]) = Len(frames[c]) + 1 /\ frames'[c][Len(frames[c]) + 1] = Frame
        /\ \A i \in 1 .. Len(frames[c]) : frames'[c][i] = frames[c][i]
    BY <1>4, FrameIs
  <2>2. \A i \in 1 .. Len(frames'[c]) : i \in 1 .. Len(frames[c]) \/ i = Len(frames[c]) + 1
    BY <1>2, <2>1
  <2> QED BY <1>2, <1>4, <2>1, <2>2
<1> QED BY <1>3, <1>4

\* A connection is sent its own rider's events only.
LEMMA StepFramesAreOwn ==
  ASSUME W!TypeOK, ConnInv, PushingIsProcessing, FramesTyped, FramesAreOwn, [Next]_vars
  PROVE  FramesTyped' /\ FramesAreOwn'
<1>1. \A p \in Partitions : \A i \in 1 .. Len(log[p]) :
        log'[p][i] = log[p][i] /\ i \in 1 .. Len(log'[p])
  BY LogKeeps
<1>2. \A c \in Conns : \A i \in DOMAIN frames[c] :
        LET f == frames[c][i].place
        IN  f[1] \in Partitions /\ f[2] \in 1 .. Len(log[f[1]])
  <2> SUFFICES ASSUME NEW c \in Conns, NEW i \in DOMAIN frames[c]
               PROVE  /\ frames[c][i].place[1] \in Partitions
                      /\ frames[c][i].place[2] \in 1 .. Len(log[frames[c][i].place[1]])
    OBVIOUS
  <2>1. frames[c] \in Seq(FrameType)
    BY DEF FramesTyped
  <2>2. frames[c][i] \in FrameType
    BY <2>1
  <2>3. frames[c][i].place[1] \in Partitions /\ frames[c][i].place[2] \in Nat \ {0}
    BY <2>2 DEF FrameType
  <2>4. log[frames[c][i].place[1]] \in Seq(Records)
    BY <2>3 DEF W!TypeOK
  <2>5. frames[c][i].place[2] <= Len(log[frames[c][i].place[1]])
    BY DEF FramesAreOwn
  <2> QED BY <2>3, <2>4, <2>5
<1>3. \A c \in Conns : \A i \in DOMAIN frames[c] :
        LET f == frames[c][i].place
        IN  /\ f[2] <= Len(log'[f[1]])
            /\ RiderOfRecord[log'[f[1]][f[2]]] = RiderOf[c]
  <2> SUFFICES ASSUME NEW c \in Conns, NEW i \in DOMAIN frames[c]
               PROVE  LET f == frames[c][i].place
                      IN  /\ f[2] <= Len(log'[f[1]])
                          /\ RiderOfRecord[log'[f[1]][f[2]]] = RiderOf[c]
    OBVIOUS
  <2> DEFINE f == frames[c][i].place
  <2>1. f[1] \in Partitions /\ f[2] \in 1 .. Len(log[f[1]])
    BY <1>2
  <2>2. log'[f[1]][f[2]] = log[f[1]][f[2]] /\ f[2] \in 1 .. Len(log'[f[1]])
    BY <1>1, <2>1
  <2>3. RiderOfRecord[log[f[1]][f[2]]] = RiderOf[c]
    BY DEF FramesAreOwn
  <2> HIDE DEF f
  <2>4. f[2] <= Len(log'[f[1]])
    BY <2>2
  <2> QED BY <2>2, <2>3, <2>4 DEF f
<1>4. CASE UNCHANGED frames
  BY <1>3, <1>4 DEF FramesTyped, FramesAreOwn
<1>5. CASE Appends
  <2>1. FramesTyped'
    BY <1>5, FrameIs
  <2>2. ASSUME NEW c \in Conns, NEW i \in DOMAIN frames'[c]
        PROVE  /\ frames'[c][i].place[2] <= Len(log'[frames'[c][i].place[1]])
               /\ RiderOfRecord[log'[frames'[c][i].place[1]][frames'[c][i].place[2]]] = RiderOf[c]
    <3>1. CASE i \in DOMAIN frames[c] /\ frames'[c][i] = frames[c][i]
      BY <1>3, <3>1
    <3>2. CASE c = pushing /\ frames'[c][i] = Frame
      <4>1. /\ Frame.place[1] = current /\ Frame.place[2] = position[current] /\ log' = log
            /\ position[current] \in 1 .. Len(log[current])
            /\ RiderOfRecord[log[current][position[current]]] = RiderOf[pushing]
        BY <1>5, FrameIs
      <4>2. position[current] <= Len(log[current])
        BY <4>1
      <4> QED BY <3>2, <4>1, <4>2
    <3> QED BY <1>5, <3>1, <3>2, FramesAre
  <2> QED BY <2>1, <2>2 DEF FramesAreOwn
<1> QED BY <1>4, <1>5, StepOfFrames

\* The parts of the type invariant, for every step.
TypeInv == ConnInv /\ ServerFitsLoop /\ PushingIsProcessing /\ FramesTyped /\ FramesAreOwn

\* They hold of every state, with those of the loop.
LEMMA TypeInvariant == Spec => [](W!TypeOK /\ TypeInv)
<1>1. Init => TypeInv
  <2> SUFFICES ASSUME Init PROVE TypeInv
    OBVIOUS
  <2>1. ConnInv
    BY PushAssumption
       DEF Init, S!Init, ConnInv, S!TypeOK, S!RegisteredIsOpen, S!HandlerStates
  <2>2. ServerFitsLoop /\ PushingIsProcessing
    BY DEF Init, S!Init, W!Init, ServerFitsLoop, PushingIsProcessing
  <2>3. FramesTyped /\ FramesAreOwn
    BY DEF Init, FramesTyped, FramesAreOwn
  <2> QED BY <2>1, <2>2, <2>3 DEF TypeInv
<1>2. W!TypeOK /\ TypeInv /\ [Next]_vars => TypeInv'
  BY StepKeepsConnections, StepServerFitsLoop, StepPushingIsProcessing, StepFramesAreOwn
     DEF TypeInv
<1> QED BY <1>1, <1>2, WorkerTypeOK, PTL DEF Spec

\* The gateway's variables keep their types, a write is part of processing, a
\* connection is sent its own rider's events only, and none outlives the process.
THEOREM TypeOKHolds == Spec => []TypeOK
<1>1. W!TypeOK /\ TypeInv => TypeOK
  <2> SUFFICES ASSUME W!TypeOK, TypeInv PROVE TypeOK
    OBVIOUS
  <2>1. \A c \in Conns : \A i \in DOMAIN frames[c] :
          RiderOfRecord[log[frames[c][i].place[1]][frames[c][i].place[2]]] = RiderOf[c]
    BY DEF TypeInv, FramesAreOwn
  <2>2. pushing # NoConn => stage = "process" /\ RiderOf[pushing] = Rider
    BY DEF TypeInv, PushingIsProcessing, Pushable
  <2> QED BY <2>1, <2>2 DEF TypeInv, ConnInv, ServerFitsLoop, TypeOK
<1> QED BY <1>1, TypeInvariant, PTL

-------------------------------------------------------------------------------
(* Connections that were given up.                                         *)

\* Such a connection and its frames.
StaleInv == StaleIsForgotten /\ StaleGetsAtMostOne

\* No step lets such a connection be looked up again.
LEMMA StepStaleInv ==
  ASSUME W!TypeOK, TypeInv, StaleInv, [Next]_vars
  PROVE  StaleInv'
<1> USE DEF TypeInv
<1>1. CASE Appends
  <2>1. /\ pushing \in Conns /\ pushing' = NoConn /\ UNCHANGED <<sessions, handler>>
        /\ handler[pushing] \notin {"new", "upgraded"} /\ NoConn \notin Conns
    BY <1>1, PushAssumption
       DEF Appends, EndWrite, S!WriteReturns, ConnInv, S!TypeOK, S!GatewayAssumption
  <2>2. \A i \in DOMAIN frames[pushing] : frames[pushing][i].current
    BY <2>1 DEF StaleInv, StaleIsForgotten
  <2>3. Frame.current = (sessions[RiderOf[pushing]] = pushing)
    BY <1>1, FrameIs
  <2>4. StaleIsForgotten'
    <3> SUFFICES ASSUME NEW c \in Conns, NEW i \in DOMAIN frames'[c], ~frames'[c][i].current
                 PROVE  handler[c] \notin {"new", "upgraded"} /\ sessions[RiderOf[c]] # c
      BY <2>1 DEF StaleIsForgotten
    <3>1. CASE i \in DOMAIN frames[c] /\ frames'[c][i] = frames[c][i]
      BY <3>1 DEF StaleInv, StaleIsForgotten
    <3>2. CASE c = pushing /\ frames'[c][i] = Frame
      BY <2>1, <2>3, <3>2
    <3> QED BY <1>1, <3>1, <3>2, FramesAre
  <2>5. StaleGetsAtMostOne'
    <3> SUFFICES ASSUME NEW c \in Conns, NEW i \in DOMAIN frames'[c], NEW j \in DOMAIN frames'[c],
                        i # j
                 PROVE  frames'[c][i].current \/ frames'[c][j].current
      BY DEF StaleGetsAtMostOne
    <3>1. CASE c # pushing
      <4>1. frames'[c] = frames[c]
        BY <1>1, <3>1, FrameIs
      <4> QED BY <4>1 DEF StaleInv, StaleGetsAtMostOne
    <3>2. CASE c = pushing
      <4>1. \/ i \in DOMAIN frames[c] /\ frames'[c][i] = frames[c][i]
            \/ j \in DOMAIN frames[c] /\ frames'[c][j] = frames[c][j]
        BY <1>1, FramesAre
      <4> QED BY <2>2, <3>2, <4>1
    <3> QED BY <3>1, <3>2
  <2> QED BY <2>4, <2>5 DEF StaleInv
<1>2. ASSUME UNCHANGED frames,
             \A c \in Conns :
               handler[c] \notin {"new", "upgraded"} /\ pushing # c /\ sessions[RiderOf[c]] # c
                 => /\ handler'[c] \notin {"new", "upgraded"}
                    /\ pushing' # c /\ sessions'[RiderOf[c]] # c
      PROVE  StaleInv'
  BY <1>2 DEF StaleInv, StaleIsForgotten, StaleGetsAtMostOne
<1>3. ASSUME NEW c \in Conns,
             handler[c] \notin {"new", "upgraded"}, pushing # c, sessions[RiderOf[c]] # c
      PROVE  /\ handler'[c] \notin {"new", "upgraded"}
             /\ pushing' # c /\ sessions'[RiderOf[c]] # c
  <2> USE PushAssumption DEF ConnInv, S!TypeOK, S!GatewayAssumption
  <2>1. CASE UNCHANGED connections
    BY <1>3, <2>1 DEF connections
  <2>2. CASE LoseConnections
    BY <1>3, <2>2 DEF LoseConnections
  <2>3. ASSUME NEW r \in Riders, S!Lookup(r)
        PROVE  /\ handler'[c] \notin {"new", "upgraded"}
               /\ pushing' # c /\ sessions'[RiderOf[c]] # c
    BY <1>3, <2>3 DEF S!Lookup, S!RegisteredIsOpen
  <2>4. CASE S!WriteReturns
    BY <1>3, <2>4 DEF S!WriteReturns
  <2>5. ASSUME NEW d \in Conns, S!Register(d) \/ S!Unregister(d)
        PROVE  /\ handler'[c] \notin {"new", "upgraded"}
               /\ pushing' # c /\ sessions'[RiderOf[c]] # c
    BY <1>3, <2>5 DEF S!Register, S!Unregister, S!Step, S!SetSession
  <2>6. ASSUME NEW d \in Conns,
               \/ S!Upgrade(d) \/ S!ArmDeadline(d) \/ S!ReadFails(d) \/ S!ReadTimeout(d)
               \/ S!Close(d) \/ S!ClientLeaves(d) \/ S!ClientStalls(d) \/ S!ClientDrains(d)
        PROVE  /\ handler'[c] \notin {"new", "upgraded"}
               /\ pushing' # c /\ sessions'[RiderOf[c]] # c
    BY <1>3, <2>6
       DEF S!Upgrade, S!ArmDeadline, S!ReadFails, S!ReadTimeout, S!Close, S!Step,
           S!ClientLeaves, S!ClientStalls, S!ClientDrains, S!ClientMoves
  <2> QED BY <2>1, <2>2, <2>3, <2>4, <2>5, <2>6, StepOfSessions DEF S!Next, S!ServeHTTP
<1> QED BY <1>1, <1>2, <1>3, StepOfFrames

\* For any reconnecting and leaving, a connection that was given up is sent at most
\* one more event.
THEOREM StaleGetsAtMostOneHolds == Spec => []StaleGetsAtMostOne
<1>1. Init => StaleInv
  BY DEF Init, StaleInv, StaleIsForgotten, StaleGetsAtMostOne
<1>2. StaleInv => StaleGetsAtMostOne
  BY DEF StaleInv
<1> QED BY <1>1, <1>2, StepStaleInv, TypeInvariant, PTL DEF Spec

-------------------------------------------------------------------------------
(* The order of the frames.                                                *)

\* Only the commit of the message in hand, and the reading of the next, move the
\* offsets apart and together again.
LEMMA StepCommitsKeepUp ==
  ASSUME W!TypeOK, CommitsKeepUp, [Next]_vars
  PROVE  CommitsKeepUp'
<1> USE PushAssumption DEF CommitsKeepUp, W!TypeOK, W!WorkerAssumption, W!offsets, history, loop
<1>1. CASE UNCHANGED <<position, committed, current, commitFailed>>
  BY <1>1
<1>2. CASE run
  <2>1. CASE Start \/ StartFails \/ Poll \/ processMessage
    BY <1>1, <2>1
       DEF Start, StartFails, Poll, processMessage, NotConnected, BeginWrite, EndWrite, Skip,
           Drop, W!Start, W!StartFails, W!LoopTop, W!ReadReturnsNothing, W!Notify, W!Skip, W!Drop
  <2>2. ASSUME NEW p \in Partitions, Read(p)
        PROVE  CommitsKeepUp'
    <3>1. /\ position' = [position EXCEPT ![p] = @ + 1] /\ current' = p /\ current = NoPartition
          /\ UNCHANGED <<committed, commitFailed>>
      BY <2>2 DEF Read, W!ReadMessage
    <3>2. \A q \in Partitions : position[q] \in Nat
      OBVIOUS
    <3> QED BY <3>1, <3>2
  <2>3. CASE Commit
    <3>1. /\ committed' = [committed EXCEPT ![current] = position[current]]
          /\ current' = NoPartition /\ UNCHANGED <<position, commitFailed>>
      BY <2>3 DEF Commit, W!CommitMessage, W!Index
    <3> QED BY <3>1
  <2>4. CASE CommitFails
    BY <2>4 DEF CommitFails
  <2> QED BY <1>2, <2>1, <2>2, <2>3, <2>4 DEF run
<1>3. CASE Listen \/ Stop \/ Exit
  BY <1>1, <1>3 DEF Listen, Stop, Exit, W!Stop
<1>4. CASE StartAgain \/ Crash
  <2>1. /\ position' = committed /\ current' = NoPartition /\ UNCHANGED committed
    BY <1>4 DEF StartAgain, Crash, W!StartAgain, W!Crash, W!NewProcess, W!Rewind
  <2> QED BY <2>1
<1>5. CASE Broker
  <2>1. CASE \E p \in Partitions, e \in Records : W!Publish(p, e)
    BY <1>1, <1>5, <2>1 DEF Broker, W!Publish
  <2>2. CASE W!Rebalance
    <3>1. /\ position' = committed /\ current = NoPartition
          /\ UNCHANGED <<committed, current, commitFailed>>
      BY <1>5, <2>2 DEF Broker, W!Rebalance, W!Rewind
    <3> QED BY <3>1
  <2> QED BY <1>5, <2>1, <2>2 DEF Broker
<1>6. CASE \/ UNCHANGED vars
           \/ \E c \in Conns : \/ Upgrade(c) \/ ServeHTTP(c) \/ Disconnected(c) \/ Timeout(c)
                               \/ Client(c)
  BY <1>1, <1>6 DEF vars, Upgrade, ServeHTTP, Disconnected, Timeout, Client
<1> QED BY <1>2, <1>3, <1>4, <1>5, <1>6 DEF Next

\* What the loop does next leaves every frame behind it, unless the process ends.
LEMMA StepKeepsBehind ==
  ASSUME W!TypeOK, CommitsKeepUp, [Next]_vars, ~Crash, ~StartAgain,
         NEW f \in FrameType, Behind(f)
  PROVE  Behind(f)'
<1> USE DEF Behind, W!TypeOK, W!offsets, history, loop
<1>1. /\ f.place[1] \in Partitions /\ f.place[2] \in Nat /\ f.rewinds \in Nat
      /\ position[f.place[1]] \in Nat /\ rewinds \in Nat
  BY DEF FrameType
<1>2. CASE UNCHANGED <<position, current, rewinds, commitFailed>> /\ (stage' = "process" => stage = "process")
  BY <1>2
<1>3. CASE run
  <2>1. CASE Start \/ StartFails \/ Poll \/ processMessage
    BY <1>2, <2>1
       DEF Start, StartFails, Poll, processMessage, NotConnected, BeginWrite, EndWrite, Skip,
           Drop, W!Start, W!StartFails, W!LoopTop, W!ReadReturnsNothing, W!Notify, W!Skip, W!Drop,
           W!history
  <2>2. ASSUME NEW p \in Partitions, Read(p)
        PROVE  Behind(f)'
    <3>1. /\ position' = [position EXCEPT ![p] = @ + 1] /\ current' = p
          /\ stage = "read" /\ UNCHANGED <<rewinds, commitFailed>>
      BY <2>2 DEF Read, W!ReadMessage, W!history
    <3>2. position'[f.place[1]] = IF f.place[1] = p THEN position[f.place[1]] + 1
                                                    ELSE position[f.place[1]]
      BY <1>1, <3>1
    <3> QED BY <1>1, <3>1, <3>2
  <2>3. CASE Commit
    BY <1>1, <2>3 DEF Commit, W!CommitMessage, W!history
  <2>4. CASE CommitFails
    BY <1>1, <2>4 DEF CommitFails, W!CommitMessageFails, W!history
  <2> QED BY <1>3, <2>1, <2>2, <2>3, <2>4 DEF run
<1>4. CASE Listen \/ Stop \/ Exit
  BY <1>2, <1>4 DEF Listen, Stop, Exit, W!Stop, W!history
<1>5. CASE Broker
  <2>1. CASE \E p \in Partitions, e \in Records : W!Publish(p, e)
    BY <1>2, <1>5, <2>1 DEF Broker, W!Publish, W!history
  <2>2. CASE W!Rebalance
    <3>1. /\ position' = committed /\ current = NoPartition /\ rewinds' = rewinds + 1
          /\ stage' = "read" /\ UNCHANGED commitFailed
      BY <1>5, <2>2 DEF Broker, W!Rebalance, W!Rewind
    <3>2. ~commitFailed => position' = position
      <4>1. NoPartition \notin Partitions
        BY PushAssumption DEF W!WorkerAssumption
      <4>2. ~commitFailed => \A p \in Partitions : committed[p] = position[p]
        BY <3>1, <4>1 DEF CommitsKeepUp
      <4> QED BY <3>1, <4>2
    <3> QED BY <1>1, <3>1, <3>2
  <2> QED BY <1>5, <2>1, <2>2 DEF Broker
<1>6. CASE \/ UNCHANGED vars
           \/ \E c \in Conns : \/ Upgrade(c) \/ ServeHTTP(c) \/ Disconnected(c) \/ Timeout(c)
                               \/ Client(c)
  BY <1>2, <1>6 DEF vars, Upgrade, ServeHTTP, Disconnected, Timeout, Client
<1> QED BY <1>3, <1>4, <1>5, <1>6 DEF Next

\* A closed connection stays closed, and only a new one can become open.
LEMMA HandlersMove ==
  ASSUME ConnInv, W!TypeOK, [Next]_vars, NEW c \in Conns
  PROVE  /\ handler'[c] = "new" => handler[c] = "new"
         /\ handler'[c] # "closed" => handler[c] # "closed"
<1> USE DEF ConnInv, S!TypeOK
<1>1. CASE UNCHANGED connections
  BY <1>1 DEF connections
<1>2. CASE LoseConnections
  BY <1>2 DEF LoseConnections
<1>3. CASE S!Next
  BY <1>3 DEF S!Next, S!ServeHTTP, S!Upgrade, S!Register, S!ArmDeadline, S!ReadFails,
              S!ReadTimeout, S!Unregister, S!Close, S!Step, S!ClientLeaves, S!ClientStalls,
              S!ClientDrains, S!ClientMoves, S!Lookup, S!WriteReturns
<1> QED BY <1>1, <1>2, <1>3, StepOfSessions

\* What was sent is of a place of the topic.
LEMMA FrameHasType ==
  ASSUME FramesTyped, NEW c \in Conns, NEW i \in DOMAIN frames[c]
  PROVE  frames[c][i] \in FrameType
<1>1. frames[c] \in Seq(FrameType)
  BY DEF FramesTyped
<1> QED BY <1>1

\* A rewind leaves the frames of open connections behind, since either no commit
\* had failed or the frames are older than the rewind; the end of the process
\* leaves no open connection.
LEMMA StepFramesAreBehind ==
  ASSUME W!TypeOK, TypeInv, CommitsKeepUp, FramesAreBehind, [Next]_vars
  PROVE  FramesAreBehind'
<1> USE DEF TypeInv
<1>1. CASE Crash
  <2>1. UNCHANGED frames /\ LoseConnections
    BY <1>1 DEF Crash, history
  <2>2. \A c \in Conns : handler'[c] = IF handler[c] = "new" THEN "new" ELSE "closed"
    BY <2>1 DEF LoseConnections
  <2>3. \A c \in Conns : handler[c] = "new" => frames'[c] = << >>
    BY <2>1 DEF FramesAreBehind
  <2> QED BY <2>2, <2>3 DEF FramesAreBehind
<1>2. CASE StartAgain
  <2>1. UNCHANGED <<frames, handler>> /\ server = "down"
    BY <1>2 DEF StartAgain, history, connections
  <2>2. \A c \in Conns : handler[c] \in {"new", "closed"}
    BY <2>1 DEF ServerFitsLoop
  <2>3. \A c \in Conns : handler[c] = "new" => frames'[c] = << >>
    BY <2>1 DEF FramesAreBehind
  <2> QED BY <2>1, <2>2, <2>3 DEF FramesAreBehind
<1> DEFINE BehindNext(f) ==
      /\ f.rewinds <= rewinds'
      /\ f.rewinds = rewinds' \/ ~commitFailed' =>
           /\ f.place[2] <= position'[f.place[1]]
           /\ stage' = "process" /\ current' = f.place[1]
                => f.place[2] < position'[f.place[1]]
<1>3. ASSUME ~Crash, ~StartAgain,
             NEW c \in Conns, handler'[c] # "closed", NEW i \in DOMAIN frames[c]
      PROVE  BehindNext(frames[c][i])
  <2>1. Behind(frames[c][i])
    BY <1>3, HandlersMove DEF FramesAreBehind
  <2>2. PICK f \in FrameType : f = frames[c][i]
    BY FrameHasType
  <2>3. (Behind(f))'
    BY <1>3, <2>1, <2>2, StepKeepsBehind
  <2> QED BY <2>2, <2>3 DEF Behind
<1>4. CASE UNCHANGED frames /\ ~Crash /\ ~StartAgain
  <2>1. \A c \in Conns : handler'[c] = "new" => frames'[c] = << >>
    BY <1>4, HandlersMove DEF FramesAreBehind
  <2>2. \A c \in Conns : handler'[c] # "closed" =>
          \A i \in DOMAIN frames'[c] : BehindNext(frames'[c][i])
    <3> HIDE DEF BehindNext
    <3> QED BY <1>3, <1>4
  <2> QED BY <2>1, <2>2 DEF FramesAreBehind, Behind
<1>5. CASE Appends /\ ~Crash /\ ~StartAgain
  <2>1. handler[pushing] # "new" /\ pushing \in Conns
    BY <1>5, PushAssumption
       DEF Appends, EndWrite, S!WriteReturns, ConnInv, S!TypeOK, S!RegisteredIsOpen,
           S!GatewayAssumption
  <2>2. BehindNext(Frame)
    <3>1. /\ Frame.place[1] = current /\ Frame.place[2] = position[current]
          /\ Frame.rewinds = rewinds /\ stage' = "commit"
          /\ rewinds' = rewinds /\ position' = position
          /\ rewinds \in Nat /\ position[current] \in Nat
      BY <1>5, FrameIs DEF W!TypeOK
    <3> HIDE DEF Frame
    <3> QED BY <3>1
  <2>3. \A c \in Conns : handler'[c] = "new" => frames'[c] = << >>
    <3> SUFFICES ASSUME NEW c \in Conns, handler'[c] = "new"
                 PROVE  frames'[c] = << >>
      OBVIOUS
    <3>1. handler[c] = "new" /\ c # pushing
      BY <2>1, HandlersMove
    <3> QED BY <1>5, <3>1, FrameIs DEF FramesAreBehind
  <2>4. \A c \in Conns : handler'[c] # "closed" =>
          \A i \in DOMAIN frames'[c] : BehindNext(frames'[c][i])
    <3> HIDE DEF BehindNext
    <3> QED BY <1>3, <1>5, <2>2, FramesAre
  <2> QED BY <2>3, <2>4 DEF FramesAreBehind, Behind
<1> QED BY <1>1, <1>2, <1>4, <1>5, StepOfFrames

\* No step forgets that a commit failed.
LEMMA FailureStays ==
  ASSUME [Next]_vars, commitFailed \in BOOLEAN
  PROVE  commitFailed => commitFailed'
<1> USE DEF history
<1>1. CASE run
  BY <1>1
     DEF run, Start, StartFails, Poll, Read, processMessage, NotConnected, BeginWrite, EndWrite,
         Skip, Drop, Commit, CommitFails
<1>2. CASE Listen \/ Stop \/ Exit \/ StartAgain \/ Crash \/ Broker
  BY <1>2 DEF Listen, Stop, Exit, StartAgain, Crash, Broker
<1>3. CASE \E c \in Conns : \/ Upgrade(c) \/ ServeHTTP(c) \/ Disconnected(c) \/ Timeout(c)
                            \/ Client(c)
  BY <1>3 DEF Upgrade, ServeHTTP, Disconnected, Timeout, Client
<1>4. CASE UNCHANGED vars
  BY <1>4 DEF vars
<1> QED BY <1>1, <1>2, <1>3, <1>4 DEF Next

\* A frame is sent behind those that are there, or after a rewind that could go
\* back past them.
LEMMA StepPushesInOrder ==
  ASSUME W!TypeOK, TypeInv, FramesAreBehind, PushesInOrder, [Next]_vars
  PROVE  PushesInOrder'
<1> USE DEF TypeInv
<1>1. commitFailed => commitFailed'
  BY FailureStays DEF ServerFitsLoop
<1>2. CASE UNCHANGED frames
  BY <1>1, <1>2 DEF PushesInOrder
<1>3. CASE Appends
  <2>1. /\ Frame.place[1] = current /\ Frame.place[2] = position[current]
        /\ Frame.rewinds = rewinds /\ stage = "process"
    BY <1>3, FrameIs
  <2> HIDE DEF Frame
  <2> SUFFICES ASSUME NEW c \in Conns, NEW i \in DOMAIN frames'[c], NEW j \in DOMAIN frames'[c],
                      i < j, frames'[c][i].place[1] = frames'[c][j].place[1]
               PROVE  \/ frames'[c][i].place[2] < frames'[c][j].place[2]
                      \/ commitFailed' /\ frames'[c][i].rewinds < frames'[c][j].rewinds
    BY DEF PushesInOrder
  <2>2. i \in DOMAIN frames[c] /\ frames'[c][i] = frames[c][i]
    <3>1. /\ DOMAIN frames[c] = 1 .. Len(frames[c]) /\ frames[c] \in Seq(FrameType)
          /\ j \in DOMAIN frames[c] \/ j = Len(frames[c]) + 1
          /\ i \in DOMAIN frames[c] \/ i = Len(frames[c]) + 1
          /\ i \in DOMAIN frames[c] => frames'[c][i] = frames[c][i]
      <4>1. frames[c] \in Seq(FrameType)
        BY DEF FramesTyped
      <4>2. i = Len(frames[c]) + 1 => i \notin DOMAIN frames[c]
        BY <4>1
      <4> QED BY <1>3, <4>1, <4>2, FramesAre
    <3>2. Len(frames[c]) \in Nat
      BY <3>1
    <3> QED BY <3>1, <3>2
  <2>3. CASE j \in DOMAIN frames[c] /\ frames'[c][j] = frames[c][j]
    BY <1>1, <2>2, <2>3 DEF PushesInOrder
  <2>4. CASE c = pushing /\ frames'[c][j] = Frame
    <3>1. handler[c] # "closed"
      BY <1>3, <2>4 DEF Appends
    <3>2. Behind(frames[c][i])
      BY <2>2, <3>1 DEF FramesAreBehind
    <3>3. frames[c][i] \in FrameType /\ rewinds \in Nat
      BY <2>2, FrameHasType DEF W!TypeOK
    <3>4. frames[c][i].rewinds \in Nat
      BY <3>3 DEF FrameType
    <3> QED BY <1>1, <2>1, <2>2, <2>4, <3>2, <3>3, <3>4 DEF Behind
  <2> QED BY <1>3, <2>3, <2>4, FramesAre
<1> QED BY <1>2, <1>3, StepOfFrames

\* What the order of the frames rests on: a rewind goes back only past what is not
\* committed, and that is the message in hand until a commit fails.
OrderInv == CommitsKeepUp /\ FramesAreBehind /\ PushesInOrder

\* With any failures and any clients, a connection sees the events of a partition
\* in the order of the topic and each once, unless a commit had failed and the loop
\* was rewound in between.
THEOREM PushesInOrderHolds == Spec => []PushesInOrder
<1>1. Init => OrderInv
  <2> SUFFICES ASSUME Init PROVE OrderInv
    OBVIOUS
  <2>1. CommitsKeepUp
    BY PushAssumption DEF Init, W!Init, CommitsKeepUp, W!WorkerAssumption
  <2>2. FramesAreBehind /\ PushesInOrder
    BY DEF Init, FramesAreBehind, PushesInOrder
  <2> QED BY <2>1, <2>2 DEF OrderInv
<1>2. W!TypeOK /\ TypeInv /\ OrderInv /\ [Next]_vars => OrderInv'
  BY StepCommitsKeepUp, StepFramesAreBehind, StepPushesInOrder DEF OrderInv
<1>3. OrderInv => PushesInOrder
  BY DEF OrderInv
<1> QED BY <1>1, <1>2, <1>3, TypeInvariant, PTL DEF Spec
===============================================================================
