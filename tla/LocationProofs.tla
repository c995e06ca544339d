---------------------------- MODULE LocationProofs ----------------------------
(***************************************************************************)
(* What a driver may conclude from the answer to a ping, and what Dispatch *)
(* may conclude from its offsets, for any drivers and pings, any           *)
(* partitioning, any size of the queue and any failures of either service. *)
(***************************************************************************)
EXTENDS LocationFeed, FiniteSetTheorems, TLAPS

\* Partition by partition, no sequence of f has a ping twice, and every ping is
\* where its key belongs.
EachOnce(f) ==
  \A p \in Partitions : \A i, j \in 1 .. Len(f[p]) : f[p][i] = f[p][j] => i = j

OnOwnPartition(f) ==
  \A p \in Partitions : \A i \in 1 .. Len(f[p]) : PartitionOf[f[p][i][1]] = p

QueueFacts == IsFiniteSet(Queued) /\ EachOnce(queue) /\ OnOwnPartition(queue)

\* A stored ping has its report, and a good report is about a stored ping.
TopicFacts ==
  /\ EachOnce(topic) /\ OnOwnPartition(topic)
  /\ \A p \in Partitions : \A i \in 1 .. Len(topic[p]) : report[topic[p][i]] # "none"
  /\ \A r \in Pings : report[r] = "ok" =>
       \E p \in Partitions : \E i \in 1 .. Len(topic[p]) : topic[p][i] = r

\* Only a handler that waited has a report, and its status says what the report
\* says; a request that was refused never got so far.
ReplyFacts ==
  \A r \in Pings :
    /\ report[r] # "none" => handler[r] \in {"wait", "ended", "killed"}
    /\ reply[r] = 202 => report[r] = "ok"
    /\ reply[r] \in {413, 422} => report[r] = "none"

\* A client that did not give up goes on only when its handler is gone, and sends
\* its pings in order.
ClientFacts ==
  \A r \in Pings :
    /\ client[r] = "before" => handler[r] = "none"
    /\ client[r] \in {"answered", "reset"} => handler[r] \notin Active
    /\ client[r] # "before" =>
         \A m \in 1 .. r[2] - 1 : client[<<r[1], m>>] \in {"answered", "reset", "gone"}

IngestInv ==
  TypeOK /\ QueueFacts /\ TopicFacts /\ ReplyFacts /\ ClientFacts /\ OrderUnlessGivenUp

-------------------------------------------------------------------------------
(* Pings, and the steps by what they change.                               *)

LEMMA PingIs ==
  ASSUME NEW r \in Pings
  PROVE  r[1] \in Drivers /\ r[2] \in 1 .. PingsOf[r[1]] /\ r = <<r[1], r[2]>>
         /\ r[2] \in Nat /\ PingsOf[r[1]] \in Nat
BY IngestAssumption DEF Pings

LEMMA PingMade ==
  ASSUME NEW d \in Drivers, NEW n \in 1 .. PingsOf[d]
  PROVE  <<d, n>> \in Pings /\ <<d, n>>[1] = d /\ <<d, n>>[2] = n
BY DEF Pings

LEMMA Earlier ==
  ASSUME NEW u \in Pings, NEW m \in 1 .. u[2] - 1
  PROVE  <<u[1], m>> \in Pings
<1>1. u[1] \in Drivers /\ u[2] \in 1 .. PingsOf[u[1]] /\ PingsOf[u[1]] \in Nat
  BY PingIs
<1>2. m \in 1 .. PingsOf[u[1]]
  BY <1>1
<1> QED BY <1>1, <1>2, PingMade

LEMMA ElementsOf ==
  ASSUME NEW f \in [Partitions -> Seq(Pings)], NEW r
  PROVE  r \in UNION {ToSet(f[p]) : p \in Partitions}
           <=> \E p \in Partitions : \E i \in 1 .. Len(f[p]) : f[p][i] = r
<1>1. \A p \in Partitions : DOMAIN f[p] = 1 .. Len(f[p])
  OBVIOUS
<1> QED BY <1>1 DEF ToSet

LEMMA QueuedIs ==
  ASSUME queue \in [Partitions -> Seq(Pings)], NEW r
  PROVE  r \in Queued <=> \E p \in Partitions : \E i \in 1 .. Len(queue[p]) : queue[p][i] = r
BY ElementsOf DEF Queued

LEMMA QueuedWillBe ==
  ASSUME queue' \in [Partitions -> Seq(Pings)], NEW r
  PROVE  r \in Queued' <=> \E p \in Partitions : \E i \in 1 .. Len(queue'[p]) : queue'[p][i] = r
BY ElementsOf DEF Queued

\* A handler goes on by itself, before it has handed over its record.
Advances(r) ==
  /\ handler[r] \in {"decode", "schema", "register"}
  /\ \E to \in {"schema", "register", "produce"} : handler' = [handler EXCEPT ![r] = to]
  /\ UNCHANGED <<reply, late, records, client>>

\* A handler writes the status it has come to.
EndsRequest(r) ==
  \E from \in {"decode", "register", "produce", "wait"}, status \in {202, 413, 422, 503} :
    /\ WriteJSON(r, from, status)
    /\ UNCHANGED records
    /\ status = 202 => report[r] = "ok"
    /\ status \in {413, 422} => from = "decode"
    /\ from = "wait" => report[r] # "none"

\* A record gets its report: a good one only if it is stored.
Reports(p) ==
  \E stored \in BOOLEAN, outcome \in {"ok", "failed"} :
    Report(p, stored, outcome) /\ (outcome = "ok" => stored)

\* Nothing that the facts above are about.
Elsewhere == UNCHANGED <<handler, reply, records, client>>

LEMMA StepIs ==
  ASSUME TypeOK, [Next]_vars
  PROVE  \/ \E r \in Pings : \/ Post(r) \/ GiveUp(r) \/ Produce(r)
                             \/ Advances(r) \/ EndsRequest(r)
         \/ \E p \in Partitions : Reports(p)
         \/ \E how \in {"exited", "died"} : Ends(how)
         \/ Elsewhere
<1>1. ASSUME NEW r \in Pings, Handle(r)
      PROVE  Produce(r) \/ Advances(r) \/ EndsRequest(r)
  <2>1. CASE Decode(r) \/ ReadSchema(r) \/ CreateSchema(r)
    BY <2>1 DEF Decode, ReadSchema, CreateSchema, Step, Advances
  <2>2. CASE DecodeRefuses(r)
    BY <2>2 DEF DecodeRefuses, EndsRequest
  <2>3. CASE CreateSchemaFails(r) \/ ProduceFails(r)
    BY <2>3 DEF CreateSchemaFails, ProduceFails, EndsRequest
  <2>4. CASE ReadReport(r)
    <3>1. CASE report[r] = "ok"
      BY <2>4, <3>1 DEF ReadReport, EndsRequest
    <3>2. CASE report[r] # "ok"
      BY <2>4, <3>2 DEF ReadReport, EndsRequest
    <3> QED BY <3>1, <3>2
  <2> QED BY <1>1, <2>1, <2>2, <2>3, <2>4 DEF Handle
<1>2. ASSUME NEW p \in Partitions, Delivered(p) \/ Rejected(p) \/ Expires(p)
      PROVE  Reports(p)
  BY <1>2 DEF Delivered, Rejected, Expires, Reports
<1>3. CASE Exit \/ ShutdownFails \/ Crash
  BY <1>3 DEF Exit, ShutdownFails, Crash
<1>4. CASE \/ \E r \in Pings : WriteDeadline(r)
           \/ Serve \/ StartFails \/ Sigterm \/ Restart \/ Idle \/ UNCHANGED vars
  BY <1>4 DEF WriteDeadline, Serve, StartFails, Sigterm, Restart, Idle, vars, records, Elsewhere
<1> QED BY <1>1, <1>2, <1>3, <1>4 DEF Next

-------------------------------------------------------------------------------
(* The queue.                                                              *)

QueueTyped == queue \in [Partitions -> Seq(Pings)] /\ Cardinality(Queued) <= QueueMax

\* A record is queued once, behind the others of its partition.
LEMMA ProduceQueues ==
  ASSUME TypeOK, QueueFacts, NEW r \in Pings, Produce(r)
  PROVE  QueueTyped' /\ QueueFacts' /\ Queued' \subseteq Queued \cup {r}
<1> DEFINE p == PartitionOf[r[1]]
<1>1. p \in Partitions
  BY PingIs, IngestAssumption
<1>2. queue \in [Partitions -> Seq(Pings)] /\ queue' = [queue EXCEPT ![p] = Append(@, r)]
  BY DEF TypeOK, Produce
<1> HIDE DEF p
<1>3. queue' \in [Partitions -> Seq(Pings)]
  BY <1>1, <1>2
<1>4. /\ Len(queue'[p]) = Len(queue[p]) + 1 /\ Len(queue[p]) \in Nat
      /\ queue'[p][Len(queue[p]) + 1] = r
      /\ \A i \in 1 .. Len(queue[p]) : queue'[p][i] = queue[p][i]
      /\ \A q \in Partitions : q # p => queue'[q] = queue[q]
  BY <1>1, <1>2
<1>5. \A q \in Partitions : \A i \in 1 .. Len(queue'[q]) :
        \/ i \in 1 .. Len(queue[q]) /\ queue'[q][i] = queue[q][i]
        \/ q = p /\ i = Len(queue[p]) + 1 /\ queue'[q][i] = r
  BY <1>4
<1>6. Queued' \subseteq Queued \cup {r}
  <2> SUFFICES ASSUME NEW u \in Queued' PROVE u \in Queued \cup {r}
    OBVIOUS
  <2>1. \E q \in Partitions : \E i \in 1 .. Len(queue'[q]) : queue'[q][i] = u
    BY <1>3, QueuedWillBe
  <2> QED BY <1>2, <1>5, <2>1, QueuedIs
<1>7. r \notin Queued
  BY DEF TypeOK, Produce, Step
<1>8. \A i \in 1 .. Len(queue[p]) : queue[p][i] # r
  BY <1>1, <1>2, <1>7, QueuedIs
<1>9. EachOnce(queue)'
  <2> SUFFICES ASSUME NEW q \in Partitions, NEW i \in 1 .. Len(queue'[q]),
                      NEW j \in 1 .. Len(queue'[q]), queue'[q][i] = queue'[q][j]
               PROVE  i = j
    BY DEF EachOnce
  <2>1. CASE i \in 1 .. Len(queue[q]) /\ j \in 1 .. Len(queue[q])
    BY <1>5, <1>4, <2>1 DEF QueueFacts, EachOnce
  <2>2. CASE ~(i \in 1 .. Len(queue[q]) /\ j \in 1 .. Len(queue[q]))
    BY <1>5, <1>8, <2>2
  <2> QED BY <2>1, <2>2
<1>10. OnOwnPartition(queue)'
  <2> SUFFICES ASSUME NEW q \in Partitions, NEW i \in 1 .. Len(queue'[q])
               PROVE  PartitionOf[queue'[q][i][1]] = q
    BY DEF OnOwnPartition
  <2> QED BY <1>5 DEF QueueFacts, OnOwnPartition, p
<1>11. IsFiniteSet(Queued \cup {r}) /\ Cardinality(Queued \cup {r}) = Cardinality(Queued) + 1
  BY <1>7, FS_AddElement DEF QueueFacts
<1>12. IsFiniteSet(Queued') /\ Cardinality(Queued') <= Cardinality(Queued \cup {r})
  BY <1>6, <1>11, FS_Subset
<1>13. Cardinality(Queued') <= QueueMax
  <2>1. PICK m \in Nat : m = Cardinality(Queued)
    BY FS_CardinalityType DEF QueueFacts
  <2>2. PICK n \in Nat : n = Cardinality(Queued')
    BY <1>12, FS_CardinalityType
  <2>3. m < QueueMax /\ n <= m + 1
    BY <1>11, <1>12, <2>1, <2>2 DEF Produce
  <2> QED BY <2>1, <2>2, <2>3, IngestAssumption
<1> QED BY <1>3, <1>6, <1>9, <1>10, <1>12, <1>13 DEF QueueTyped, QueueFacts

\* A report takes the record at the front out of the queue, for good.
LEMMA ReportsDequeue ==
  ASSUME TypeOK, QueueFacts, NEW p \in Partitions, Reports(p)
  PROVE  /\ QueueTyped' /\ QueueFacts' /\ Queued' \subseteq Queued \ {Head(queue[p])}
         /\ queue[p] # <<>> /\ Head(queue[p]) \in Queued
         /\ PartitionOf[Head(queue[p])[1]] = p
<1> DEFINE r == Head(queue[p])
<1>1. /\ queue \in [Partitions -> Seq(Pings)] /\ queue[p] # <<>>
      /\ queue' = [queue EXCEPT ![p] = Tail(@)]
  BY DEF TypeOK, Reports, Report
<1>2. queue' \in [Partitions -> Seq(Pings)]
  BY <1>1
<1>3. /\ Len(queue[p]) = Len(queue'[p]) + 1 /\ Len(queue'[p]) \in Nat
      /\ \A i \in 1 .. Len(queue'[p]) : queue'[p][i] = queue[p][i + 1]
      /\ r = queue[p][1] /\ 1 \in 1 .. Len(queue[p])
      /\ \A q \in Partitions : q # p => queue'[q] = queue[q]
  BY <1>1
<1> HIDE DEF r
<1>4. \A q \in Partitions : \A i \in 1 .. Len(queue'[q]) :
        \/ q # p /\ queue'[q] = queue[q]
        \/ q = p /\ i + 1 \in 2 .. Len(queue[p]) /\ queue'[q][i] = queue[p][i + 1]
  BY <1>3
<1>5. r \in Queued /\ PartitionOf[r[1]] = p
  BY <1>1, <1>3, QueuedIs DEF QueueFacts, OnOwnPartition
<1>6. ASSUME NEW q \in Partitions, NEW i \in 1 .. Len(queue'[q])
      PROVE  queue'[q][i] \in Queued /\ queue'[q][i] # r /\ PartitionOf[queue'[q][i][1]] = q
  <2>1. CASE q # p
    <3>1. queue'[q][i] \in Queued /\ PartitionOf[queue'[q][i][1]] = q
      BY <1>1, <1>3, <1>6, <2>1, QueuedIs DEF QueueFacts, OnOwnPartition
    <3> QED BY <1>5, <2>1, <3>1
  <2>2. CASE q = p
    <3>1. i + 1 \in 1 .. Len(queue[p]) /\ i + 1 # 1 /\ queue'[q][i] = queue[p][i + 1]
      BY <1>3, <1>6, <2>2
    <3> QED BY <1>1, <1>3, <2>2, <3>1, QueuedIs DEF QueueFacts, OnOwnPartition, EachOnce
  <2> QED BY <2>1, <2>2
<1>7. Queued' \subseteq Queued \ {r}
  <2> SUFFICES ASSUME NEW u \in Queued' PROVE u \in Queued \ {r}
    OBVIOUS
  <2>1. \E q \in Partitions : \E i \in 1 .. Len(queue'[q]) : queue'[q][i] = u
    BY <1>2, QueuedWillBe
  <2> QED BY <1>6, <2>1
<1>8. EachOnce(queue)' /\ OnOwnPartition(queue)'
  <2>1. ASSUME NEW q \in Partitions, NEW i \in 1 .. Len(queue'[q]),
               NEW j \in 1 .. Len(queue'[q]), queue'[q][i] = queue'[q][j]
        PROVE  i = j
    <3>1. CASE q # p
      BY <1>3, <2>1, <3>1 DEF QueueFacts, EachOnce
    <3>2. CASE q = p
      <4>1. i + 1 \in 1 .. Len(queue[p]) /\ j + 1 \in 1 .. Len(queue[p])
            /\ queue[p][i + 1] = queue[p][j + 1]
        BY <1>3, <2>1, <3>2
      <4>2. i + 1 = j + 1
        BY <4>1 DEF QueueFacts, EachOnce
      <4> QED BY <4>2
    <3> QED BY <3>1, <3>2
  <2> QED BY <1>6, <2>1 DEF EachOnce, OnOwnPartition
<1>9. IsFiniteSet(Queued') /\ Cardinality(Queued') <= Cardinality(Queued)
  <2>1. Queued' \in SUBSET Queued
    BY <1>7
  <2> QED BY <2>1, FS_Subset DEF QueueFacts
<1>10. Cardinality(Queued') <= QueueMax
  <2>1. Cardinality(Queued) \in Nat /\ Cardinality(Queued') \in Nat
    BY <1>9, FS_CardinalityType DEF QueueFacts
  <2> QED BY <1>9, <2>1, IngestAssumption DEF TypeOK
<1> QED BY <1>1, <1>2, <1>5, <1>7, <1>8, <1>9, <1>10 DEF QueueTyped, QueueFacts, r

\* A process that ends leaves nothing in its queue.
LEMMA EndsEmpties ==
  ASSUME NEW how, Ends(how)
  PROVE  QueueTyped' /\ QueueFacts' /\ Queued' = {}
<1>1. queue' = [p \in Partitions |-> <<>>]
  BY DEF Ends
<1>2. queue' \in [Partitions -> Seq(Pings)] /\ \A p \in Partitions : Len(queue'[p]) = 0
  BY <1>1
<1>3. Queued' = {}
  <2> SUFFICES ASSUME NEW u \in Queued' PROVE FALSE
    OBVIOUS
  <2>1. \E q \in Partitions : \E i \in 1 .. Len(queue'[q]) : queue'[q][i] = u
    BY <1>2, QueuedWillBe
  <2> QED BY <1>2, <2>1
<1>4. EachOnce(queue)' /\ OnOwnPartition(queue)'
  BY <1>2 DEF EachOnce, OnOwnPartition
<1> QED BY <1>2, <1>3, <1>4, FS_EmptySet, IngestAssumption DEF QueueTyped, QueueFacts

-------------------------------------------------------------------------------
(* Types.                                                                  *)

LEMMA StepRecords ==
  ASSUME TypeOK, QueueFacts, ReplyFacts, ClientFacts, [Next]_vars
  PROVE  /\ QueueTyped' /\ QueueFacts'
         /\ topic' \in [Partitions -> Seq(Pings)]
         /\ report' \in [Pings -> {"none", "ok", "failed"}]
         /\ \A u \in Queued' : handler'[u] = "wait" /\ report'[u] = "none"
<1>1. /\ topic \in [Partitions -> Seq(Pings)] /\ queue \in [Partitions -> Seq(Pings)]
      /\ report \in [Pings -> {"none", "ok", "failed"}]
      /\ handler \in [Pings -> Active \cup {"none", "ended", "killed"}]
      /\ \A u \in Queued : handler[u] = "wait" /\ report[u] = "none"
  BY DEF TypeOK
<1>2. \A u \in Queued : u \in Pings
  BY <1>1, QueuedIs
<1> DEFINE Goal == /\ QueueTyped' /\ QueueFacts'
                   /\ topic' \in [Partitions -> Seq(Pings)]
                   /\ report' \in [Pings -> {"none", "ok", "failed"}]
                   /\ \A u \in Queued' : handler'[u] = "wait" /\ report'[u] = "none"
<1>3. ASSUME UNCHANGED records, \A u \in Queued : handler'[u] = handler[u]
      PROVE  Goal
  <2>1. QueueTyped' /\ QueueFacts' /\ Queued' = Queued
    BY <1>3 DEF TypeOK, QueueTyped, QueueFacts, Queued, EachOnce, OnOwnPartition, records
  <2> QED BY <1>1, <1>3, <2>1 DEF records
<1>4. ASSUME NEW r \in Pings, Post(r)
      PROVE  Goal
  <2>1. handler[r] = "none" /\ UNCHANGED records
    BY <1>4 DEF Post, ClientFacts
  <2>2. \A u \in Queued : handler'[u] = handler[u]
    BY <1>1, <1>2, <1>4, <2>1 DEF Post
  <2> QED BY <1>3, <2>1, <2>2
<1>5. ASSUME NEW r \in Pings, Advances(r) \/ EndsRequest(r)
      PROVE  Goal
  <2>1. r \notin Queued /\ UNCHANGED records
    BY <1>1, <1>5 DEF Advances, EndsRequest, WriteJSON, Step
  <2>2. \A u \in Queued : handler'[u] = handler[u]
    BY <1>1, <1>2, <1>5, <2>1 DEF Advances, EndsRequest, WriteJSON, Step
  <2> QED BY <1>3, <2>1, <2>2
<1>6. ASSUME NEW r \in Pings, GiveUp(r)
      PROVE  Goal
  BY <1>3, <1>6 DEF GiveUp
<1>7. ASSUME NEW r \in Pings, Produce(r)
      PROVE  Goal
  <2>1. QueueTyped' /\ QueueFacts' /\ Queued' \subseteq Queued \cup {r}
    BY <1>7, ProduceQueues
  <2>2. handler'[r] = "wait" /\ \A u \in Pings : u # r => handler'[u] = handler[u]
    BY <1>1, <1>7 DEF Produce, Step
  <2>3. UNCHANGED <<report, topic>>
    BY <1>7 DEF Produce
  <2>4. report[r] = "none"
    BY <1>1, <1>7 DEF Produce, Step, ReplyFacts
  <2> QED BY <1>1, <1>2, <2>1, <2>2, <2>3, <2>4
<1>8. ASSUME NEW p \in Partitions, Reports(p)
      PROVE  Goal
  <2> DEFINE h == Head(queue[p])
  <2>1. /\ QueueTyped' /\ QueueFacts' /\ Queued' \subseteq Queued \ {h} /\ h \in Queued
    BY <1>8, ReportsDequeue
  <2>2. PICK stored \in BOOLEAN, outcome \in {"ok", "failed"} : Report(p, stored, outcome)
    BY <1>8 DEF Reports
  <2> HIDE DEF h
  <2>3. /\ report' = [report EXCEPT ![h] = outcome] /\ handler' = handler
        /\ topic' = IF stored THEN [topic EXCEPT ![p] = Append(@, h)] ELSE topic
    BY <2>2 DEF Report, h
  <2>4. topic' \in [Partitions -> Seq(Pings)]
    BY <1>1, <1>2, <2>1, <2>3
  <2>5. report' \in [Pings -> {"none", "ok", "failed"}] /\ \A u \in Pings : u # h => report'[u] = report[u]
    BY <1>1, <2>3
  <2> QED BY <1>1, <1>2, <2>1, <2>3, <2>4, <2>5
<1>9. ASSUME NEW how \in {"exited", "died"}, Ends(how)
      PROVE  Goal
  BY <1>1, <1>9, EndsEmpties DEF Ends
<1>10. CASE Elsewhere
  BY <1>3, <1>10 DEF Elsewhere
<1> QED BY <1>4, <1>5, <1>6, <1>7, <1>8, <1>9, <1>10, StepIs

RequestsTyped ==
  /\ handler \in [Pings -> Active \cup {"none", "ended", "killed"}]
  /\ reply \in [Pings -> {0, 202, 413, 422, 503}]
  /\ client \in [Pings -> {"before", "waiting", "answered", "reset", "gone"}]
  /\ \A r \in Pings : (handler[r] = "ended") <=> (reply[r] # 0)

LEMMA StepTypeOK ==
  ASSUME TypeOK, QueueFacts, ReplyFacts, ClientFacts, [Next]_vars
  PROVE  TypeOK'
<1>1. /\ QueueTyped'
      /\ topic' \in [Partitions -> Seq(Pings)]
      /\ report' \in [Pings -> {"none", "ok", "failed"}]
      /\ \A u \in Queued' : handler'[u] = "wait" /\ report'[u] = "none"
  BY StepRecords
<1>2. schema' \in BOOLEAN
  <2>1. schema' = schema \/ schema' = TRUE \/ schema' = FALSE
    BY DEF Next, Post, GiveUp, Handle, DecodeRefuses, Decode, ReadSchema, CreateSchema,
           CreateSchemaFails, Produce, ProduceFails, ReadReport, WriteJSON, WriteDeadline,
           Delivered, Rejected, Expires, Report, Serve, StartFails, Sigterm, Exit,
           ShutdownFails, Crash, Ends, Restart, Idle, vars
  <2>2. schema \in BOOLEAN
    BY DEF TypeOK
  <2> QED BY <2>1, <2>2
<1>5. faults' \in 0 .. MaxFaults
  <2>1. faults' = faults \/ (faults < MaxFaults /\ faults' = faults + 1)
    BY DEF Next, Post, GiveUp, Handle, DecodeRefuses, Decode, ReadSchema, CreateSchema,
           CreateSchemaFails, Produce, ProduceFails, ReadReport, WriteDeadline,
           Delivered, Rejected, Expires, Serve, StartFails, Sigterm, Exit,
           ShutdownFails, Crash, Restart, Idle, vars, Fault, NoFault
  <2>2. faults \in 0 .. MaxFaults /\ MaxFaults \in Nat
    BY IngestAssumption DEF TypeOK
  <2> QED BY <2>1, <2>2
<1>6. server' \in {"starting", "serving", "draining", "exited", "died"} /\ late' \subseteq Pings
  <2>1. ASSUME NEW r \in Pings, Handle(r)
        PROVE  server' = server /\ late' = late
    BY <2>1 DEF Handle, DecodeRefuses, Decode, ReadSchema, CreateSchema, CreateSchemaFails,
                Produce, ProduceFails, ReadReport, WriteJSON
  <2>2. ASSUME NEW p \in Partitions, Delivered(p) \/ Rejected(p) \/ Expires(p)
        PROVE  server' = server /\ late' = late
    BY <2>2 DEF Delivered, Rejected, Expires, Report
  <2>3. ASSUME NEW r \in Pings, Post(r) \/ GiveUp(r) \/ WriteDeadline(r)
        PROVE  server' = server /\ late' \subseteq late \cup {r}
    BY <2>3 DEF Post, GiveUp, WriteDeadline
  <2>4. CASE Serve \/ StartFails \/ Sigterm \/ Exit \/ ShutdownFails \/ Crash \/ Restart
               \/ Idle \/ UNCHANGED vars
    BY <2>4 DEF Serve, StartFails, Sigterm, Exit, ShutdownFails, Crash, Ends, Restart, Idle,
                vars, TypeOK
  <2> QED BY <2>1, <2>2, <2>3, <2>4 DEF Next, TypeOK
<1>3. RequestsTyped'
  <2> USE DEF TypeOK, Active, RequestsTyped
  <2>1. ASSUME NEW r \in Pings, Post(r)
        PROVE  RequestsTyped'
    <3>1. handler[r] = "none"
      BY <2>1 DEF Post, ClientFacts
    <3>2. reply[r] = 0 /\ reply' = reply
      BY <2>1, <3>1 DEF Post
    <3>3. /\ client' \in [Pings -> {"before", "waiting", "answered", "reset", "gone"}]
          /\ handler' = handler \/ handler' = [handler EXCEPT ![r] = "decode"]
      BY <2>1 DEF Post
    <3> QED BY <3>1, <3>2, <3>3
  <2>2. ASSUME NEW r \in Pings, Advances(r)
        PROVE  RequestsTyped'
    <3>1. reply[r] = 0 /\ UNCHANGED <<reply, client>>
      BY <2>2 DEF Advances
    <3>2. PICK to \in {"schema", "register", "produce"} : handler' = [handler EXCEPT ![r] = to]
      BY <2>2 DEF Advances
    <3> QED BY <3>1, <3>2
  <2>7. ASSUME NEW r \in Pings, Produce(r)
        PROVE  RequestsTyped'
    <3>1. reply[r] = 0 /\ UNCHANGED <<reply, client>>
      BY <2>7 DEF Produce, Step
    <3> QED BY <2>7, <3>1 DEF Produce, Step
  <2>8. ASSUME NEW r \in Pings, GiveUp(r)
        PROVE  RequestsTyped'
    BY <2>8 DEF GiveUp
  <2>3. ASSUME NEW r \in Pings, EndsRequest(r)
        PROVE  RequestsTyped'
    BY <2>3 DEF EndsRequest, WriteJSON, Step
  <2>4. ASSUME NEW p \in Partitions, Reports(p)
        PROVE  RequestsTyped'
    BY <2>4 DEF Reports, Report
  <2>5. ASSUME NEW how \in {"exited", "died"}, Ends(how)
        PROVE  RequestsTyped'
    BY <2>5 DEF Ends
  <2>6. CASE Elsewhere
    BY <2>6 DEF Elsewhere
  <2> QED BY <2>1, <2>2, <2>3, <2>4, <2>5, <2>6, <2>7, <2>8, StepIs
<1>4. (server' \in {"starting", "exited", "died"} => \A r \in Pings : handler'[r] \notin Active)
  <2> SUFFICES ASSUME server' \in {"starting", "exited", "died"}, NEW u \in Pings
               PROVE  handler'[u] \notin Active
    OBVIOUS
  <2>1. ASSUME server \in {"starting", "exited", "died"}, handler' = handler
        PROVE  handler'[u] \notin Active
    BY <2>1 DEF TypeOK
  <2>2. ASSUME NEW r \in Pings, Handle(r)
        PROVE  FALSE
    <3>1. handler[r] \in Active /\ server' = server
      BY <2>2 DEF Handle, DecodeRefuses, Decode, ReadSchema, CreateSchema, CreateSchemaFails,
                  Produce, ProduceFails, ReadReport, WriteJSON, Step, Active
    <3> QED BY <3>1 DEF TypeOK
  <2>3. ASSUME NEW p \in Partitions, Delivered(p) \/ Rejected(p) \/ Expires(p)
        PROVE  handler'[u] \notin Active
    BY <2>1, <2>3 DEF Delivered, Rejected, Expires, Report
  <2>4. ASSUME NEW r \in Pings, Post(r) \/ GiveUp(r) \/ WriteDeadline(r)
        PROVE  handler'[u] \notin Active
    BY <2>1, <2>4 DEF Post, GiveUp, WriteDeadline
  <2>5. CASE Exit \/ ShutdownFails \/ Crash
    BY <2>5 DEF Exit, ShutdownFails, Crash, Ends, Active
  <2>6. CASE Serve \/ StartFails \/ Sigterm \/ Restart \/ Idle \/ UNCHANGED vars
    BY <2>1, <2>6 DEF Serve, StartFails, Sigterm, Restart, Idle, vars
  <2> QED BY <2>2, <2>3, <2>4, <2>5, <2>6 DEF Next
<1> QED BY <1>1, <1>2, <1>3, <1>4, <1>5, <1>6 DEF TypeOK, QueueTyped, RequestsTyped

-------------------------------------------------------------------------------
(* The topic and the reports.                                              *)

LEMMA AppendIs ==
  ASSUME NEW f \in [Partitions -> Seq(Pings)], NEW p \in Partitions, NEW h \in Pings,
         NEW g, g = [f EXCEPT ![p] = Append(@, h)]
  PROVE  /\ \A q \in Partitions : \A i \in 1 .. Len(f[q]) :
              i \in 1 .. Len(g[q]) /\ g[q][i] = f[q][i]
         /\ \A q \in Partitions : \A i \in 1 .. Len(g[q]) :
              \/ i \in 1 .. Len(f[q]) /\ g[q][i] = f[q][i]
              \/ q = p /\ i = Len(f[p]) + 1 /\ g[q][i] = h
         /\ Len(f[p]) + 1 \in 1 .. Len(g[p]) /\ g[p][Len(f[p]) + 1] = h
<1>1. /\ g[p] = Append(f[p], h) /\ f[p] \in Seq(Pings)
      /\ \A q \in Partitions : q # p => g[q] = f[q]
  OBVIOUS
<1>2. PICK n \in Nat : n = Len(f[p])
  BY <1>1
<1>3. Len(g[p]) = n + 1 /\ g[p][n + 1] = h /\ \A i \in 1 .. n : g[p][i] = f[p][i]
  BY <1>1, <1>2
<1>4. ASSUME NEW i \in 1 .. n + 1, i \notin 1 .. n
      PROVE  i = n + 1
  BY <1>4
<1> QED BY <1>1, <1>2, <1>3, <1>4

\* A report is about a record that was queued with the key of its partition, and
\* at most that record is added to the topic, at the end.
LEMMA ReportIs ==
  ASSUME TypeOK, QueueFacts, NEW p \in Partitions, Reports(p)
  PROVE  \E h \in Pings, outcome \in {"ok", "failed"} :
           /\ h \in Queued /\ PartitionOf[h[1]] = p
           /\ report' = [report EXCEPT ![h] = outcome]
           /\ \/ topic' = topic /\ outcome = "failed"
              \/ topic' = [topic EXCEPT ![p] = Append(@, h)]
           /\ UNCHANGED <<handler, reply, client>>
<1> DEFINE h == Head(queue[p])
<1>1. h \in Queued /\ PartitionOf[h[1]] = p
  BY ReportsDequeue
<1>2. queue[p] \in Seq(Pings) /\ queue[p] # <<>>
  BY DEF TypeOK, Reports, Report
<1>5. h \in Pings
  BY <1>2
<1>3. PICK stored \in BOOLEAN, outcome \in {"ok", "failed"} :
        Report(p, stored, outcome) /\ (outcome = "ok" => stored)
  BY DEF Reports
<1>4. /\ report' = [report EXCEPT ![h] = outcome]
      /\ topic' = IF stored THEN [topic EXCEPT ![p] = Append(@, h)] ELSE topic
      /\ UNCHANGED <<handler, reply, client>>
  BY <1>3 DEF Report
<1> HIDE DEF h
<1> QED BY <1>1, <1>3, <1>4, <1>5

\* Only reports change the reports and the topic.
LEMMA StepOfRecords ==
  ASSUME TypeOK, [Next]_vars
  PROVE  UNCHANGED <<report, topic>> \/ \E p \in Partitions : Reports(p)
<1>1. ASSUME NEW r \in Pings, Post(r) \/ GiveUp(r) \/ Produce(r) \/ Advances(r) \/ EndsRequest(r)
      PROVE  UNCHANGED <<report, topic>>
  BY <1>1 DEF Post, GiveUp, Produce, Advances, EndsRequest, records
<1>2. ASSUME NEW how, Ends(how)
      PROVE  UNCHANGED <<report, topic>>
  BY <1>2 DEF Ends
<1> QED BY <1>1, <1>2, StepIs DEF Elsewhere, records

\* What was written stays where it is: every consumer's offsets keep their meaning.
LEMMA TopicKept ==
  ASSUME TypeOK, QueueFacts, [Next]_vars
  PROVE  \A q \in Partitions : \A i \in 1 .. Len(topic[q]) :
           i \in 1 .. Len(topic'[q]) /\ topic'[q][i] = topic[q][i]
<1>1. ASSUME NEW p \in Partitions, Reports(p)
      PROVE  \A q \in Partitions : \A i \in 1 .. Len(topic[q]) :
               i \in 1 .. Len(topic'[q]) /\ topic'[q][i] = topic[q][i]
  <2>1. PICK h \in Pings :
          topic' = topic \/ topic' = [topic EXCEPT ![p] = Append(@, h)]
    BY <1>1, ReportIs
  <2>2. topic \in [Partitions -> Seq(Pings)]
    BY DEF TypeOK
  <2>3. CASE topic' = [topic EXCEPT ![p] = Append(@, h)]
    BY <2>2, <2>3, AppendIs
  <2> QED BY <2>1, <2>3
<1> QED BY <1>1, StepOfRecords

LEMMA StepTopicFacts ==
  ASSUME TypeOK, QueueFacts, TopicFacts, [Next]_vars
  PROVE  TopicFacts'
<1>1. CASE UNCHANGED <<report, topic>>
  BY <1>1 DEF TopicFacts, EachOnce, OnOwnPartition
<1>2. ASSUME NEW p \in Partitions, Reports(p)
      PROVE  TopicFacts'
  <2>1. PICK h \in Pings, outcome \in {"ok", "failed"} :
           /\ h \in Queued /\ PartitionOf[h[1]] = p
           /\ report' = [report EXCEPT ![h] = outcome]
           /\ \/ topic' = topic /\ outcome = "failed"
              \/ topic' = [topic EXCEPT ![p] = Append(@, h)]
    BY <1>2, ReportIs
  <2>2. /\ topic \in [Partitions -> Seq(Pings)] /\ report \in [Pings -> {"none", "ok", "failed"}]
        /\ report[h] = "none"
    BY <2>1 DEF TypeOK
  <2>3. report'[h] = outcome /\ \A u \in Pings : u # h => report'[u] = report[u]
    BY <2>1, <2>2
  <2>4. \A q \in Partitions : \A i \in 1 .. Len(topic[q]) : topic[q][i] \in Pings /\ topic[q][i] # h
    BY <2>2 DEF TopicFacts
  <2>5. CASE topic' = topic /\ outcome = "failed"
    <3>1. EachOnce(topic)' /\ OnOwnPartition(topic)'
      BY <2>5 DEF TopicFacts, EachOnce, OnOwnPartition
    <3>2. \A q \in Partitions : \A i \in 1 .. Len(topic'[q]) : report'[topic'[q][i]] # "none"
      BY <2>3, <2>4, <2>5 DEF TopicFacts
    <3>3. \A r \in Pings : report'[r] = "ok" =>
            \E q \in Partitions : \E i \in 1 .. Len(topic'[q]) : topic'[q][i] = r
      BY <2>3, <2>5 DEF TopicFacts
    <3> QED BY <3>1, <3>2, <3>3 DEF TopicFacts
  <2>6. CASE topic' = [topic EXCEPT ![p] = Append(@, h)]
    <3>1. /\ \A q \in Partitions : \A i \in 1 .. Len(topic[q]) :
               i \in 1 .. Len(topic'[q]) /\ topic'[q][i] = topic[q][i]
          /\ \A q \in Partitions : \A i \in 1 .. Len(topic'[q]) :
               \/ i \in 1 .. Len(topic[q]) /\ topic'[q][i] = topic[q][i]
               \/ q = p /\ i = Len(topic[p]) + 1 /\ topic'[q][i] = h
          /\ Len(topic[p]) + 1 \in 1 .. Len(topic'[p]) /\ topic'[p][Len(topic[p]) + 1] = h
      BY <2>2, <2>6, AppendIs
    <3>2. EachOnce(topic)'
      <4> SUFFICES ASSUME NEW q \in Partitions, NEW i \in 1 .. Len(topic'[q]),
                          NEW j \in 1 .. Len(topic'[q]), topic'[q][i] = topic'[q][j]
                   PROVE  i = j
        BY DEF EachOnce
      <4>1. CASE i \in 1 .. Len(topic[q]) /\ j \in 1 .. Len(topic[q])
        BY <3>1, <4>1 DEF TopicFacts, EachOnce
      <4>2. CASE ~(i \in 1 .. Len(topic[q]) /\ j \in 1 .. Len(topic[q]))
        BY <2>4, <3>1, <4>2
      <4> QED BY <4>1, <4>2
    <3>3. OnOwnPartition(topic)'
      BY <2>1, <3>1 DEF TopicFacts, OnOwnPartition
    <3>4. \A q \in Partitions : \A i \in 1 .. Len(topic'[q]) : report'[topic'[q][i]] # "none"
      BY <2>3, <2>4, <3>1 DEF TopicFacts
    <3>5. \A r \in Pings : report'[r] = "ok" =>
            \E q \in Partitions : \E i \in 1 .. Len(topic'[q]) : topic'[q][i] = r
      BY <2>3, <3>1 DEF TopicFacts
    <3> QED BY <3>2, <3>3, <3>4, <3>5 DEF TopicFacts
  <2> QED BY <2>1, <2>5, <2>6
<1> QED BY <1>1, <1>2, StepOfRecords

-------------------------------------------------------------------------------
(* The handlers and their clients.                                         *)

LEMMA StepReplyFacts ==
  ASSUME TypeOK, QueueFacts, ReplyFacts, ClientFacts, [Next]_vars
  PROVE  ReplyFacts'
<1> USE DEF ReplyFacts, Active
<1>1. /\ handler \in [Pings -> Active \cup {"none", "ended", "killed"}]
      /\ reply \in [Pings -> {0, 202, 413, 422, 503}]
      /\ report \in [Pings -> {"none", "ok", "failed"}]
      /\ \A r \in Pings : (handler[r] = "ended") <=> (reply[r] # 0)
  BY DEF TypeOK
<1>2. ASSUME NEW r \in Pings, Post(r)
      PROVE  ReplyFacts'
  <2>1. handler[r] = "none"
    BY <1>2 DEF Post, ClientFacts
  <2>2. UNCHANGED <<reply, report>> /\ (handler' = handler \/ handler' = [handler EXCEPT ![r] = "decode"])
    BY <1>2 DEF Post, records
  <2> QED BY <1>1, <2>1, <2>2
<1>3. ASSUME NEW r \in Pings, Advances(r)
      PROVE  ReplyFacts'
  BY <1>1, <1>3 DEF Advances, records
<1>4. ASSUME NEW r \in Pings, Produce(r)
      PROVE  ReplyFacts'
  BY <1>1, <1>4 DEF Produce, Step
<1>5. ASSUME NEW r \in Pings, GiveUp(r)
      PROVE  ReplyFacts'
  BY <1>5 DEF GiveUp, records
<1>6. ASSUME NEW r \in Pings, EndsRequest(r)
      PROVE  ReplyFacts'
  <2>1. PICK from \in {"decode", "register", "produce", "wait"}, status \in {202, 413, 422, 503} :
          /\ WriteJSON(r, from, status) /\ UNCHANGED records
          /\ status = 202 => report[r] = "ok"
          /\ status \in {413, 422} => from = "decode"
    BY <1>6 DEF EndsRequest
  <2>2. /\ handler[r] = from /\ handler' = [handler EXCEPT ![r] = "ended"]
        /\ reply' = [reply EXCEPT ![r] = status] /\ UNCHANGED report
    BY <2>1 DEF WriteJSON, Step, records
  <2>3. from = "decode" => report[r] = "none"
    BY <1>1, <2>2
  <2>4. \A u \in Pings : u # r => handler'[u] = handler[u] /\ reply'[u] = reply[u]
    BY <1>1, <2>2
  <2>5. handler'[r] = "ended" /\ reply'[r] = status
    BY <1>1, <2>2
  <2> QED BY <2>1, <2>2, <2>3, <2>4, <2>5
<1>7. ASSUME NEW p \in Partitions, Reports(p)
      PROVE  ReplyFacts'
  <2>1. PICK h \in Pings, outcome \in {"ok", "failed"} :
          /\ h \in Queued /\ report' = [report EXCEPT ![h] = outcome]
          /\ UNCHANGED <<handler, reply, client>>
    BY <1>7, ReportIs
  <2>2. handler[h] = "wait" /\ reply[h] = 0
    BY <1>1, <2>1 DEF TypeOK
  <2> QED BY <1>1, <2>1, <2>2
<1>8. ASSUME NEW how \in {"exited", "died"}, Ends(how)
      PROVE  ReplyFacts'
  BY <1>1, <1>8 DEF Ends
<1>9. CASE Elsewhere
  BY <1>9 DEF Elsewhere, records
<1> QED BY <1>2, <1>3, <1>4, <1>5, <1>6, <1>7, <1>8, <1>9, StepIs

LEMMA StepClientFacts ==
  ASSUME TypeOK, ClientFacts, [Next]_vars
  PROVE  ClientFacts'
<1> USE DEF ClientFacts, Active
<1>1. /\ handler \in [Pings -> Active \cup {"none", "ended", "killed"}]
      /\ client \in [Pings -> {"before", "waiting", "answered", "reset", "gone"}]
  BY DEF TypeOK
<1>2. ASSUME NEW r \in Pings, Post(r)
      PROVE  ClientFacts'
  <2>1. client[r] = "before" /\ handler[r] = "none"
    BY <1>2 DEF Post
  <2>2. r[2] > 1 => client[<<r[1], r[2] - 1>>] \in {"answered", "reset", "gone"}
    BY <1>2 DEF Post
  <2>3. \/ /\ client' = [client EXCEPT ![r] = "waiting"]
           /\ handler' = [handler EXCEPT ![r] = "decode"]
        \/ /\ client' = [client EXCEPT ![r] = "reset"]
           /\ UNCHANGED handler
    BY <1>2 DEF Post
  <2>4. client'[r] \in {"waiting", "reset"} /\ \A u \in Pings : u # r => client'[u] = client[u]
    BY <1>1, <2>3
  <2>5. \A m \in 1 .. r[2] - 1 : client[<<r[1], m>>] \in {"answered", "reset", "gone"}
    <3> SUFFICES ASSUME NEW m \in 1 .. r[2] - 1
                 PROVE  client[<<r[1], m>>] \in {"answered", "reset", "gone"}
      OBVIOUS
    <3>1. r[2] \in Nat /\ r[2] - 1 \in 1 .. PingsOf[r[1]] /\ r[1] \in Drivers
      BY PingIs
    <3>2. CASE m = r[2] - 1
      BY <2>2, <3>1, <3>2
    <3>3. CASE m # r[2] - 1
      <4>1. m \in 1 .. (r[2] - 1) - 1 /\ r[2] > 1
        BY <3>1, <3>3
      <4> DEFINE v == <<r[1], r[2] - 1>>
      <4>2. v \in Pings /\ v[1] = r[1] /\ v[2] = r[2] - 1
        BY <3>1, PingMade
      <4>3. client[v] # "before"
        BY <2>2, <4>1
      <4> HIDE DEF v
      <4> QED BY <4>1, <4>2, <4>3
    <3> QED BY <3>2, <3>3
  <2>6. ASSUME NEW u \in Pings
        PROVE  /\ client'[u] = "before" => handler'[u] = "none"
               /\ client'[u] \in {"answered", "reset"} => handler'[u] \notin Active
    BY <1>1, <2>1, <2>3
  <2>7. ASSUME NEW u \in Pings, client'[u] # "before", NEW m \in 1 .. u[2] - 1
        PROVE  client'[<<u[1], m>>] \in {"answered", "reset", "gone"}
    <3>1. client[<<u[1], m>>] \in {"answered", "reset", "gone"}
      BY <2>4, <2>5, <2>7
    <3>2. <<u[1], m>> # r /\ <<u[1], m>> \in Pings
      BY <2>1, <3>1, Earlier
    <3> QED BY <2>4, <3>1, <3>2
  <2> QED BY <2>6, <2>7
<1>3. ASSUME UNCHANGED client,
             \A u \in Pings : handler'[u] = handler[u] \/ handler[u] \in Active
                              \/ (handler'[u] \notin Active /\ handler[u] # "none")
      PROVE  ClientFacts'
  <2>1. ASSUME NEW u \in Pings
        PROVE  /\ client'[u] = "before" => handler'[u] = "none"
               /\ client'[u] \in {"answered", "reset"} => handler'[u] \notin Active
    BY <1>1, <1>3, <2>1
  <2> QED BY <1>3, <2>1
<1>4. ASSUME NEW r \in Pings, Advances(r)
      PROVE  ClientFacts'
  <2>1. PICK to : handler' = [handler EXCEPT ![r] = to]
    BY <1>4 DEF Advances
  <2>2. UNCHANGED client /\ handler[r] \in Active
    BY <1>4 DEF Advances
  <2> QED BY <1>1, <1>3, <2>1, <2>2
<1>5. ASSUME NEW r \in Pings, Produce(r)
      PROVE  ClientFacts'
  <2>1. UNCHANGED client /\ handler[r] \in Active /\ handler' = [handler EXCEPT ![r] = "wait"]
    BY <1>5 DEF Produce, Step
  <2> QED BY <1>1, <1>3, <2>1
<1>6. ASSUME \A u \in Pings : \/ client'[u] = client[u]
                              \/ client[u] = "waiting" /\ client'[u] \in {"gone", "answered", "reset"},
             \A u \in Pings : handler'[u] = handler[u] \/ (handler[u] # "none" /\ handler'[u] \notin Active),
             \A u \in Pings : client'[u] \in {"answered", "reset"} => handler'[u] \notin Active,
             \A u \in Pings : client[u] = "before" => handler'[u] = handler[u]
      PROVE  ClientFacts'
  <2>1. ASSUME NEW u \in Pings, client'[u] # "before", NEW m \in 1 .. u[2] - 1
        PROVE  client'[<<u[1], m>>] \in {"answered", "reset", "gone"}
    <3>1. client[<<u[1], m>>] \in {"answered", "reset", "gone"}
      BY <1>6, <2>1
    <3>2. <<u[1], m>> \in Pings
      BY Earlier
    <3> QED BY <1>6, <3>1, <3>2
  <2> QED BY <1>6, <2>1
<1>7. ASSUME NEW r \in Pings, EndsRequest(r)
      PROVE  ClientFacts'
  <2>1. PICK from \in {"decode", "register", "produce", "wait"},
             status \in {202, 413, 422, 503} : WriteJSON(r, from, status)
    BY <1>7 DEF EndsRequest
  <2>2. /\ handler[r] = from /\ handler' = [handler EXCEPT ![r] = "ended"]
        /\ client' = [client EXCEPT ![r] =
             IF @ # "waiting" THEN @ ELSE IF r \in late THEN "reset" ELSE "answered"]
    BY <2>1 DEF WriteJSON, Step
  <2>3. \A u \in Pings : \/ client'[u] = client[u]
                         \/ u = r /\ client[u] = "waiting" /\ client'[u] \in {"answered", "reset"}
    BY <1>1, <2>2
  <2>4. handler'[r] = "ended" /\ \A u \in Pings : u # r => handler'[u] = handler[u]
    BY <1>1, <2>2
  <2>5. handler[r] # "none" /\ client[r] # "before"
    BY <2>2
  <2>6. \A u \in Pings : client'[u] \in {"answered", "reset"} => handler'[u] \notin Active
    BY <2>3, <2>4
  <2>7. \A u \in Pings : handler'[u] = handler[u] \/ (handler[u] # "none" /\ handler'[u] \notin Active)
    BY <2>4, <2>5
  <2>8. \A u \in Pings : client[u] = "before" => handler'[u] = handler[u]
    BY <2>4, <2>5
  <2>9. \A u \in Pings : \/ client'[u] = client[u]
                         \/ client[u] = "waiting" /\ client'[u] \in {"gone", "answered", "reset"}
    BY <2>3
  <2> HIDE DEF Active, ClientFacts
  <2> QED BY <1>6, <2>6, <2>7, <2>8, <2>9
<1>8. ASSUME NEW r \in Pings, GiveUp(r)
      PROVE  ClientFacts'
  <2>1. client[r] = "waiting" /\ client' = [client EXCEPT ![r] = "gone"] /\ handler' = handler
    BY <1>8 DEF GiveUp
  <2>2. client'[r] = "gone" /\ \A u \in Pings : u # r => client'[u] = client[u]
    BY <1>1, <2>1
  <2> QED BY <1>6, <2>1, <2>2
<1>9. ASSUME NEW p \in Partitions, Reports(p)
      PROVE  ClientFacts'
  BY <1>9 DEF Reports, Report
<1>10. ASSUME NEW how \in {"exited", "died"}, Ends(how)
       PROVE  ClientFacts'
  <2>1. /\ handler' = [u \in Pings |-> IF handler[u] \in Active THEN "killed" ELSE handler[u]]
        /\ client' = [u \in Pings |-> IF client[u] = "waiting" THEN "reset" ELSE client[u]]
    BY <1>10 DEF Ends
  <2>2. ASSUME NEW u \in Pings
        PROVE  /\ handler'[u] \notin Active
               /\ handler'[u] = handler[u] \/ handler[u] \in Active
               /\ client'[u] = client[u] \/ (client[u] = "waiting" /\ client'[u] = "reset")
    <3>1. handler'[u] = IF handler[u] \in Active THEN "killed" ELSE handler[u]
      BY <2>1
    <3>3. "killed" \notin Active
      OBVIOUS
    <3>4. handler'[u] \notin Active /\ (handler'[u] = handler[u] \/ handler[u] \in Active)
      BY <3>1, <3>3
    <3>2. client'[u] = IF client[u] = "waiting" THEN "reset" ELSE client[u]
      BY <2>1
    <3> QED BY <3>4, <3>2
  <2>3. \A u \in Pings : client[u] = "before" => handler'[u] = handler[u]
    BY <2>2
  <2> QED BY <1>6, <2>2, <2>3
<1>11. CASE Elsewhere
  BY <1>11 DEF Elsewhere
<1> QED BY <1>2, <1>4, <1>5, <1>7, <1>8, <1>9, <1>10, <1>11, StepIs

-------------------------------------------------------------------------------
(* The order of a driver's pings.                                          *)

\* The driver of a ping that is behind another one in the topic had an answer to
\* the other one, or gave it up, so only a ping that was given up can come late.
LEMMA StepOrder ==
  ASSUME TypeOK, QueueFacts, TopicFacts, ReplyFacts, ClientFacts, OrderUnlessGivenUp,
         [Next]_vars
  PROVE  OrderUnlessGivenUp'
<1>1. \A u \in Pings : client[u] = "gone" => client'[u] = "gone"
  <2>1. client \in [Pings -> {"before", "waiting", "answered", "reset", "gone"}]
    BY DEF TypeOK
  <2>2. ASSUME NEW r \in Pings, Post(r) \/ GiveUp(r) \/ EndsRequest(r)
        PROVE  \A u \in Pings : client[u] = "gone" => client'[u] = "gone"
    BY <2>1, <2>2 DEF Post, GiveUp, EndsRequest, WriteJSON
  <2>3. ASSUME NEW r \in Pings, Produce(r) \/ Advances(r)
        PROVE  client' = client
    BY <2>3 DEF Produce, Advances
  <2>4. ASSUME NEW p \in Partitions, Reports(p)
        PROVE  client' = client
    BY <2>4 DEF Reports, Report
  <2>5. ASSUME NEW how, Ends(how)
        PROVE  \A u \in Pings : client[u] = "gone" => client'[u] = "gone"
    BY <2>1, <2>5 DEF Ends
  <2> QED BY <2>2, <2>3, <2>4, <2>5, StepIs DEF Elsewhere
<1>2. CASE UNCHANGED topic
  <2> SUFFICES ASSUME NEW d \in Drivers, NEW m \in 1 .. PingsOf[d], NEW n \in 1 .. PingsOf[d],
                      NEW p \in Partitions, NEW q \in Partitions,
                      NEW i \in 1 .. Len(topic[p]), NEW j \in 1 .. Len(topic[q]),
                      m < n, topic[p][i] = <<d, m>>, topic[q][j] = <<d, n>>,
                      client'[<<d, m>>] # "gone"
               PROVE  p = q /\ i < j
    BY <1>2 DEF OrderUnlessGivenUp
  <2>1. client[<<d, m>>] # "gone"
    BY <1>1, PingMade
  <2> QED BY <2>1 DEF OrderUnlessGivenUp
<1>3. ASSUME NEW t \in Partitions, Reports(t)
      PROVE  OrderUnlessGivenUp'
  <2>1. PICK h \in Pings, outcome \in {"ok", "failed"} :
          /\ h \in Queued /\ PartitionOf[h[1]] = t
          /\ topic' = topic \/ topic' = [topic EXCEPT ![t] = Append(@, h)]
          /\ UNCHANGED <<handler, reply, client>>
    BY <1>3, ReportIs
  <2>2. topic \in [Partitions -> Seq(Pings)] /\ handler[h] = "wait" /\ report[h] = "none"
    BY <2>1 DEF TypeOK
  <2> SUFFICES ASSUME topic' = [topic EXCEPT ![t] = Append(@, h)]
               PROVE  OrderUnlessGivenUp'
    BY <1>2, <2>1
  <2>3. /\ \A q \in Partitions : \A i \in 1 .. Len(topic'[q]) :
             \/ i \in 1 .. Len(topic[q]) /\ topic'[q][i] = topic[q][i]
             \/ q = t /\ i = Len(topic[t]) + 1 /\ topic'[q][i] = h
        /\ Len(topic[t]) \in Nat
    BY <2>2, AppendIs
  <2> SUFFICES \A d \in Drivers : \A m, n \in 1 .. PingsOf[d] : \A p, q \in Partitions :
                 \A i \in 1 .. Len(topic'[p]), j \in 1 .. Len(topic'[q]) :
                   (/\ m < n /\ topic'[p][i] = <<d, m>> /\ topic'[q][j] = <<d, n>>
                    /\ client'[<<d, m>>] # "gone")
                     => p = q /\ i < j
    BY Zenon DEF OrderUnlessGivenUp
  <2> TAKE d \in Drivers
  <2> TAKE m, n \in 1 .. PingsOf[d]
  <2> TAKE p, q \in Partitions
  <2> TAKE i \in 1 .. Len(topic'[p]), j \in 1 .. Len(topic'[q])
  <2> HAVE /\ m < n /\ topic'[p][i] = <<d, m>> /\ topic'[q][j] = <<d, n>>
           /\ client'[<<d, m>>] # "gone"
  <2>4. client[<<d, m>>] # "gone"
    BY <2>1
  <2> DEFINE u == <<d, m>>
             v == <<d, n>>
  <2>5. u \in Pings /\ v \in Pings /\ u # v /\ v[1] = d /\ v[2] = n
    BY PingMade
  <2>6. m \in 1 .. n - 1
    BY IngestAssumption
  <2>7. CASE i \in 1 .. Len(topic[p]) /\ j \in 1 .. Len(topic[q])
    <3>1. topic[p][i] = <<d, m>> /\ topic[q][j] = <<d, n>>
      BY <2>2, <2>3, <2>7
    <3> QED BY <2>4, <2>7, <3>1 DEF OrderUnlessGivenUp
  <2>8. CASE i \in 1 .. Len(topic[p]) /\ j \notin 1 .. Len(topic[q])
    <3>1. q = t /\ j = Len(topic[t]) + 1 /\ h = v
      BY <2>3, <2>8
    <3>2. topic[p][i] = u
      BY <2>2, <2>3, <2>8 DEF TopicFacts
    <3>3. p = t
      BY <2>1, <2>5, <2>8, <3>1, <3>2, PingMade DEF TopicFacts, OnOwnPartition
    <3> QED BY <2>3, <2>8, <3>1, <3>3
  <2>9. CASE i \notin 1 .. Len(topic[p])
    <3>1. h = u
      BY <2>3, <2>9
    <3>2. j \in 1 .. Len(topic[q]) /\ topic[q][j] = v
      BY <2>3, <2>5, <3>1
    <3>3. report[v] # "none"
      BY <3>2 DEF TopicFacts
    <3>4. handler[v] # "none"
      BY <2>5, <3>3 DEF ReplyFacts
    <3>5. client[v] # "before"
      BY <2>5, <3>4 DEF ClientFacts
    <3>6. client[u] \in {"answered", "reset", "gone"}
      BY <2>5, <2>6, <3>5 DEF ClientFacts
    <3>7. handler[u] \in Active
      BY <2>2, <3>1 DEF Active
    <3>8. client[u] \notin {"answered", "reset"}
      BY <2>5, <3>7 DEF ClientFacts
    <3> QED BY <2>4, <3>6, <3>8
  <2> QED BY <2>7, <2>8, <2>9
<1> QED BY <1>2, <1>3, StepOfRecords

LEMMA StepIngestInv ==
  ASSUME IngestInv, [Next]_vars
  PROVE  IngestInv'
<1>1. TypeOK'
  BY StepTypeOK DEF IngestInv
<1>2. QueueFacts'
  BY StepRecords DEF IngestInv
<1>3. TopicFacts' /\ ReplyFacts' /\ ClientFacts' /\ OrderUnlessGivenUp'
  BY StepTopicFacts, StepReplyFacts, StepClientFacts, StepOrder DEF IngestInv
<1> QED BY <1>1, <1>2, <1>3 DEF IngestInv

LEMMA InitIngestInv ==
  ASSUME Init
  PROVE  IngestInv
<1> USE DEF Init
<1>1. Queued = {}
  <2> SUFFICES ASSUME NEW u \in Queued PROVE FALSE
    OBVIOUS
  <2>1. queue \in [Partitions -> Seq(Pings)] /\ \A p \in Partitions : Len(queue[p]) = 0
    OBVIOUS
  <2> QED BY <2>1, QueuedIs
<1>2. TypeOK
  <2>1. Cardinality(Queued) <= QueueMax
    BY <1>1, FS_EmptySet, IngestAssumption
  <2>2. faults \in 0 .. MaxFaults
    BY IngestAssumption
  <2>3. queue \in [Partitions -> Seq(Pings)] /\ topic \in [Partitions -> Seq(Pings)]
    OBVIOUS
  <2>4. \A r \in Pings : (handler[r] = "ended") <=> (reply[r] # 0)
    OBVIOUS
  <2> QED BY <1>1, <2>1, <2>2, <2>3, <2>4 DEF TypeOK, Active
<1>3. \A p \in Partitions : Len(queue[p]) = 0 /\ Len(topic[p]) = 0
  OBVIOUS
<1>4. QueueFacts
  BY <1>1, <1>3, FS_EmptySet DEF QueueFacts, EachOnce, OnOwnPartition
<1>5. TopicFacts
  BY <1>3 DEF TopicFacts, EachOnce, OnOwnPartition
<1>6. ReplyFacts /\ ClientFacts
  BY DEF ReplyFacts, ClientFacts, Active
<1>7. OrderUnlessGivenUp
  BY <1>3 DEF OrderUnlessGivenUp
<1> QED BY <1>2, <1>4, <1>5, <1>6, <1>7 DEF IngestInv

LEMMA IngestInvHolds == Spec => []IngestInv
<1>1. Init => IngestInv
  BY InitIngestInv
<1>2. IngestInv /\ [Next]_vars => IngestInv'
  BY StepIngestInv
<1> QED BY <1>1, <1>2, PTL DEF Spec

-------------------------------------------------------------------------------
(* What follows for the sender of a ping.                                  *)

LEMMA StoredIsCounted ==
  ASSUME TypeOK, TopicFacts, NEW r \in Pings
  PROVE  /\ TimesStored(r) \in {0, 1}
         /\ report[r] = "ok" => TimesStored(r) = 1
         /\ report[r] = "none" => TimesStored(r) = 0
<1>1. CASE \E p \in Partitions : \E i \in 1 .. Len(topic[p]) : topic[p][i] = r
  <2>5. PICK p \in Partitions : \E i \in 1 .. Len(topic[p]) : topic[p][i] = r
    BY <1>1
  <2>1. PICK i \in 1 .. Len(topic[p]) : topic[p][i] = r
    BY <2>5
  <2>2. ASSUME NEW q \in Partitions, NEW j \in 1 .. Len(topic[q]), topic[q][j] = r
        PROVE  q = p /\ j = i
    <3>1. q = p
      BY <2>1, <2>2 DEF TopicFacts, OnOwnPartition
    <3> QED BY <2>1, <2>2, <3>1 DEF TopicFacts, EachOnce
  <2>3. Places(r) = {<<p, i>>}
    <3>1. Places(r) \subseteq {<<p, i>>}
      BY <2>2 DEF Places
    <3>2. <<p, i>> \in {p} \X {j \in 1 .. Len(topic[p]) : topic[p][j] = r}
      BY <2>1
    <3>3. <<p, i>> \in Places(r)
      BY <3>2 DEF Places
    <3> QED BY <3>1, <3>3
  <2>4. TimesStored(r) = 1
    BY <2>3, FS_Singleton DEF TimesStored
  <2>6. report[r] # "none"
    BY <2>1 DEF TopicFacts
  <2> QED BY <2>4, <2>6
<1>2. CASE ~ \E p \in Partitions : \E i \in 1 .. Len(topic[p]) : topic[p][i] = r
  <2>1. Places(r) = {}
    BY <1>2 DEF Places
  <2>2. TimesStored(r) = 0
    BY <2>1, FS_EmptySet DEF TimesStored
  <2>3. report[r] # "ok"
    BY <1>2 DEF TopicFacts
  <2> QED BY <2>2, <2>3
<1> QED BY <1>1, <1>2

LEMMA InvTells ==
  ASSUME IngestInv
  PROVE  ReplyTellsTopic
BY StoredIsCounted DEF IngestInv, ReplyFacts, ReplyTellsTopic

\* A process that exits in good order leaves nothing behind.
LEMMA StepCleanExit ==
  ASSUME TypeOK, [Next]_vars, server # "exited", server' = "exited"
  PROVE  Queued = {} /\ \A r \in Pings : handler[r] \notin Active
<1>1. Exit
  BY DEF Next, Post, GiveUp, Handle, DecodeRefuses, Decode, ReadSchema, CreateSchema,
         CreateSchemaFails, Produce, ProduceFails, ReadReport, WriteJSON, WriteDeadline,
         Delivered, Rejected, Expires, Report, Serve, StartFails, Sigterm,
         ShutdownFails, Crash, Ends, Restart, Idle, vars
<1>2. \A r \in Pings : handler[r] \notin Active
  BY <1>1 DEF Exit
<1>3. \A u \in Queued : u \in Pings /\ handler[u] \in Active
  BY QueuedIs DEF TypeOK, Active
<1> QED BY <1>2, <1>3

-------------------------------------------------------------------------------
(* With the listener.                                                      *)

HandledIsReceived == listener = "ack" => NextOf(holding) \in received

FeedInv == IngestInv /\ FeedTypeOK /\ HandledIsReceived /\ CommittedIsReceived

\* What the listener does leaves the ingest service and the topic as they are.
Listens ==
  /\ UNCHANGED <<server, schema, handler, reply, late, records, client>>
  /\ faults' = faults \/ (faults < MaxFaults /\ faults' = faults + 1)

LEMMA FeedStepIs ==
  ASSUME [FeedNext]_feedVars
  PROVE  ([Next]_vars /\ UNCHANGED feed) \/ (Listens /\ (Listen \/ DispatchCrash))
<1>1. CASE Listen
  <2>1. Listens
    BY <1>1 DEF Listen, Poll, PollUndecodable, OnMessage, Ack, AckThrows, FeedFault, Listens, vars
  <2> QED BY <1>1, <2>1
<1>2. CASE DispatchCrash
  BY <1>2 DEF DispatchCrash, FeedFault, Listens
<1>3. CASE Next /\ UNCHANGED feed
  BY <1>3
<1>4. CASE UNCHANGED feedVars
  BY <1>4 DEF feedVars
<1> QED BY <1>1, <1>2, <1>3, <1>4 DEF FeedNext

LEMMA ListensKeeps ==
  ASSUME IngestInv, Listens
  PROVE  IngestInv'
<1>1. Queued' = Queued /\ UNCHANGED <<server, schema, handler, reply, late, queue, report, topic, client>>
  BY DEF Listens, records, Queued
<1>2. faults' \in 0 .. MaxFaults
  BY IngestAssumption DEF Listens, IngestInv, TypeOK
<1>3. TypeOK'
  BY <1>1, <1>2 DEF TypeOK, IngestInv
<1>4. QueueFacts' /\ TopicFacts' /\ ReplyFacts' /\ ClientFacts'
  BY <1>1 DEF IngestInv, QueueFacts, TopicFacts, ReplyFacts, ClientFacts, EachOnce, OnOwnPartition
<1>5. OrderUnlessGivenUp'
  <2>1. OrderUnlessGivenUp /\ UNCHANGED <<topic, client>>
    BY <1>1 DEF IngestInv
  <2> SUFFICES ASSUME NEW d \in Drivers, NEW m \in 1 .. PingsOf[d], NEW n \in 1 .. PingsOf[d],
                      NEW p \in Partitions, NEW q \in Partitions,
                      NEW i \in 1 .. Len(topic[p]), NEW j \in 1 .. Len(topic[q]),
                      m < n, topic[p][i] = <<d, m>>, topic[q][j] = <<d, n>>,
                      client[<<d, m>>] # "gone"
               PROVE  p = q /\ i < j
    BY <2>1 DEF OrderUnlessGivenUp
  <2> QED BY <2>1 DEF OrderUnlessGivenUp
<1> QED BY <1>3, <1>4, <1>5 DEF IngestInv

LEMMA NextOfIs ==
  ASSUME FeedTypeOK, NEW p \in Partitions
  PROVE  /\ offset[p] \in Nat /\ Len(topic[p]) \in Nat
         /\ Unread(p) => offset[p] + 1 \in 1 .. Len(topic[p]) /\ NextOf(p) \in Pings
<1>1. topic[p] \in Seq(Pings) /\ offset[p] \in Nat
  BY DEF FeedTypeOK, TypeOK
<1> QED BY <1>1 DEF Unread, NextOf

\* Steps of the ingest service: the topic may have grown.
LEMMA NextKeepsFeed ==
  ASSUME FeedInv, [Next]_vars, UNCHANGED feed
  PROVE  FeedInv'
<1>1. IngestInv'
  BY StepIngestInv DEF FeedInv
<1>2. \A q \in Partitions : \A i \in 1 .. Len(topic[q]) :
        i \in 1 .. Len(topic'[q]) /\ topic'[q][i] = topic[q][i]
  BY TopicKept DEF FeedInv, IngestInv
<1>3. /\ topic' \in [Partitions -> Seq(Pings)] /\ offset' = offset
      /\ UNCHANGED <<listener, holding, known, received, undecoded>>
  BY <1>1 DEF IngestInv, TypeOK, feed
<1>4. ASSUME NEW p \in Partitions
      PROVE  offset'[p] <= Len(topic'[p]) /\ Len(topic[p]) <= Len(topic'[p])
  <2>1. PICK m \in Nat : m = Len(topic[p])
    BY NextOfIs DEF FeedInv
  <2>2. PICK n \in Nat : n = Len(topic'[p])
    BY <1>3
  <2>3. m <= n
    <3>1. CASE m = 0
      BY <3>1
    <3>2. CASE m # 0
      <4>1. m \in 1 .. m
        BY <3>2
      <4> QED BY <1>2, <2>1, <2>2, <4>1
    <3> QED BY <3>1, <3>2
  <2>4. offset[p] <= m /\ offset[p] \in Nat
    BY <2>1, NextOfIs DEF FeedInv, FeedTypeOK
  <2> QED BY <1>3, <2>1, <2>2, <2>3, <2>4
<1>5. ASSUME NEW p \in Partitions, Unread(p)
      PROVE  Unread(p)' /\ NextOf(p)' = NextOf(p)
  <2>1. offset[p] + 1 \in 1 .. Len(topic[p]) /\ offset[p] \in Nat
    BY <1>5, NextOfIs DEF FeedInv
  <2>2. offset[p] + 1 \in 1 .. Len(topic'[p]) /\ topic'[p][offset[p] + 1] = topic[p][offset[p] + 1]
    BY <1>2, <2>1
  <2>3. Len(topic'[p]) \in Nat
    BY <1>3
  <2> QED BY <1>3, <2>1, <2>2, <2>3 DEF Unread, NextOf
<1>6. holding # NoPartition => Unread(holding)' /\ NextOf(holding)' = NextOf(holding)
  BY <1>3, <1>5 DEF FeedInv, FeedTypeOK, Unread, NextOf
<1>7. FeedTypeOK'
  BY <1>1, <1>3, <1>4, <1>6 DEF FeedInv, FeedTypeOK, IngestInv
<1>8. HandledIsReceived'
  BY <1>3, <1>6 DEF FeedInv, FeedTypeOK, HandledIsReceived
<1>9. CommittedIsReceived'
  <2> SUFFICES ASSUME NEW p \in Partitions, NEW i \in 1 .. offset[p]
               PROVE  topic'[p][i] \in received \cup undecoded
    BY <1>3 DEF CommittedIsReceived
  <2>1. i \in 1 .. Len(topic[p])
    BY NextOfIs DEF FeedInv, FeedTypeOK
  <2> QED BY <1>2, <2>1 DEF FeedInv, CommittedIsReceived
<1> QED BY <1>1, <1>7, <1>8, <1>9 DEF FeedInv

\* A commit moves one offset past a record that was received or skipped.
LEMMA CommitKeeps ==
  ASSUME FeedInv, UNCHANGED topic, NEW p \in Partitions, Unread(p), Commit(p),
         received \subseteq received', undecoded \subseteq undecoded',
         NextOf(p) \in received' \cup undecoded'
  PROVE  /\ CommittedIsReceived'
         /\ offset' \in [Partitions -> Nat]
         /\ \A q \in Partitions : offset'[q] <= Len(topic'[q])
<1>1. offset \in [Partitions -> Nat] /\ offset' = [offset EXCEPT ![p] = @ + 1]
  BY DEF FeedInv, FeedTypeOK, Commit
<1>2. offset'[p] = offset[p] + 1 /\ \A q \in Partitions : q # p => offset'[q] = offset[q]
  BY <1>1
<1>3. offset[p] \in Nat /\ Len(topic[p]) \in Nat /\ offset[p] < Len(topic[p])
  BY NextOfIs DEF FeedInv, Unread
<1>4. \A q \in Partitions : offset'[q] <= Len(topic'[q])
  BY <1>2, <1>3 DEF FeedInv, FeedTypeOK
<1>5. ASSUME NEW q \in Partitions, NEW i \in 1 .. offset'[q]
      PROVE  topic[q][i] \in received' \cup undecoded'
  <2>1. CASE i \in 1 .. offset[q]
    BY <2>1 DEF FeedInv, CommittedIsReceived
  <2>2. CASE i \notin 1 .. offset[q]
    <3>1. q = p /\ i = offset[p] + 1
      BY <1>2, <1>3, <2>2
    <3> QED BY <3>1 DEF NextOf
  <2> QED BY <2>1, <2>2
<1> QED BY <1>1, <1>2, <1>3, <1>4, <1>5 DEF CommittedIsReceived

LEMMA ListenKeepsFeed ==
  ASSUME FeedInv, Listens, Listen \/ DispatchCrash
  PROVE  FeedInv'
<1>1. IngestInv' /\ topic' = topic
  BY ListensKeeps DEF FeedInv, Listens, records
<1>2. TypeOK'
  BY <1>1 DEF IngestInv
<1>3. FeedTypeOK /\ HandledIsReceived /\ CommittedIsReceived
  BY DEF FeedInv
<1> USE DEF FeedTypeOK
<1>4. ASSUME NEW p \in Partitions, Poll(p)
      PROVE  FeedInv'
  BY <1>1, <1>2, <1>3, <1>4, FeedAssumption
     DEF Poll, FeedInv, HandledIsReceived, CommittedIsReceived, Unread
<1>5. ASSUME NEW p \in Partitions, PollUndecodable(p)
      PROVE  FeedInv'
  <2>1. /\ listener = "poll" /\ Unread(p) /\ Commit(p)
        /\ undecoded' = undecoded \cup {NextOf(p)}
        /\ UNCHANGED <<listener, holding, known, received>>
    BY <1>5 DEF PollUndecodable
  <2>2. NextOf(p) \in Pings
    BY <1>3, <2>1, NextOfIs
  <2>3. /\ CommittedIsReceived' /\ offset' \in [Partitions -> Nat]
        /\ \A q \in Partitions : offset'[q] <= Len(topic'[q])
    BY <1>1, <2>1, CommitKeeps
  <2> QED BY <1>1, <1>2, <1>3, <2>1, <2>2, <2>3 DEF FeedInv, HandledIsReceived
<1>6. CASE OnMessage
  <2>1. /\ listener = "handle" /\ listener' = "ack" /\ received' = received \cup {NextOf(holding)}
        /\ UNCHANGED <<holding, offset, known, undecoded>>
    BY <1>6 DEF OnMessage
  <2>2. holding \in Partitions /\ Unread(holding) /\ NextOf(holding) \in Pings
    BY <1>3, <2>1, NextOfIs
  <2>3. NextOf(holding)' = NextOf(holding) /\ Unread(holding)'
    BY <1>1, <2>1, <2>2 DEF NextOf, Unread
  <2>4. HandledIsReceived'
    BY <2>1, <2>3 DEF HandledIsReceived
  <2>5. CommittedIsReceived'
    BY <1>1, <1>3, <2>1 DEF CommittedIsReceived
  <2>6. FeedTypeOK'
    BY <1>1, <1>2, <1>3, <2>1, <2>2, <2>3
  <2> QED BY <1>1, <2>4, <2>5, <2>6 DEF FeedInv
<1>7. CASE Ack
  <2>1. /\ listener = "ack" /\ Commit(holding) /\ listener' = "poll" /\ holding' = NoPartition
        /\ UNCHANGED <<known, received, undecoded>>
    BY <1>7 DEF Ack, BackToPoll
  <2>2. holding \in Partitions /\ Unread(holding) /\ NextOf(holding) \in received
    BY <1>3, <2>1 DEF HandledIsReceived
  <2>3. /\ CommittedIsReceived' /\ offset' \in [Partitions -> Nat]
        /\ \A q \in Partitions : offset'[q] <= Len(topic'[q])
    BY <1>1, <2>1, <2>2, CommitKeeps
  <2> QED BY <1>1, <1>2, <1>3, <2>1, <2>3 DEF FeedInv, HandledIsReceived
<1>8. CASE AckThrows \/ DispatchCrash
  <2>1. /\ listener' = "poll" /\ holding' = NoPartition /\ known' \in BOOLEAN
        /\ UNCHANGED <<offset, received, undecoded>>
    BY <1>3, <1>8 DEF AckThrows, DispatchCrash, BackToPoll
  <2> QED BY <1>1, <1>2, <1>3, <2>1 DEF FeedInv, HandledIsReceived, CommittedIsReceived
<1> QED BY <1>4, <1>5, <1>6, <1>7, <1>8 DEF Listen

LEMMA FeedInvHolds == FeedSpec => []FeedInv
<1>1. FeedInit => FeedInv
  <2> SUFFICES ASSUME FeedInit PROVE FeedInv
    OBVIOUS
  <2>1. IngestInv
    BY InitIngestInv DEF FeedInit
  <2>2. \A p \in Partitions : Len(topic[p]) = 0 /\ offset[p] = 0
    BY DEF FeedInit, Init
  <2>3. /\ listener = "poll" /\ holding = NoPartition /\ known = FALSE
        /\ received = {} /\ undecoded = {} /\ offset \in [Partitions -> Nat]
    BY DEF FeedInit
  <2>4. FeedTypeOK
    <3>1. \A p \in Partitions : offset[p] <= Len(topic[p])
      BY <2>2
    <3>2. TypeOK
      BY <2>1 DEF IngestInv
    <3>3. (listener = "poll") <=> (holding = NoPartition)
      BY <2>3
    <3> QED BY <2>3, <3>1, <3>2, <3>3 DEF FeedTypeOK
  <2>5. HandledIsReceived /\ CommittedIsReceived
    BY <2>2, <2>3 DEF HandledIsReceived, CommittedIsReceived
  <2> QED BY <2>1, <2>4, <2>5 DEF FeedInv
<1>2. FeedInv /\ [FeedNext]_feedVars => FeedInv'
  BY FeedStepIs, NextKeepsFeed, ListenKeepsFeed
<1> QED BY <1>1, <1>2, PTL DEF FeedSpec

-------------------------------------------------------------------------------
(* The results.                                                            *)

\* The types of both services: every queued record has a live handler that waits
\* for it, and the listener holds a partition exactly while it has an
\* uncommitted record of it.
THEOREM FeedTypeOKHolds == FeedSpec => []FeedTypeOK
BY FeedInvHolds, PTL DEF FeedInv

\* A 202 is a ping stored exactly once and a refused ping is not stored, whatever
\* crashes, is rejected, expires or is shut down by force.
THEOREM ReplyTellsTopicHolds == FeedSpec => []ReplyTellsTopic
<1>1. FeedInv => ReplyTellsTopic
  BY InvTells DEF FeedInv
<1> QED BY <1>1, FeedInvHolds, PTL

\* A driver's pings are stored on one partition in the order they were posted,
\* but for the pings the driver gave up on.
THEOREM OrderUnlessGivenUpHolds == FeedSpec => []OrderUnlessGivenUp
BY FeedInvHolds, PTL DEF FeedInv, IngestInv

\* A process that exits after a shutdown in good order leaves no record in its
\* queue and no handler at work.
THEOREM CleanExitIsCompleteHolds == FeedSpec => CleanExitIsComplete
<1>1. FeedInv /\ [FeedNext]_feedVars =>
        [server # "exited" /\ server' = "exited"
           => Queued = {} /\ \A r \in Pings : handler[r] \notin Active]_vars
  <2> SUFFICES ASSUME FeedInv, [FeedNext]_feedVars, server # "exited", server' = "exited"
               PROVE  Queued = {} /\ \A r \in Pings : handler[r] \notin Active
    OBVIOUS
  <2>1. [Next]_vars
    BY FeedStepIs DEF Listens
  <2> QED BY <2>1, StepCleanExit DEF FeedInv, IngestInv
<1> QED BY <1>1, FeedInvHolds, PTL DEF FeedSpec, CleanExitIsComplete

\* The consumer group commits no ping that onMessage has not logged, unless it
\* could not be decoded, whatever commit fails and whichever service crashes.
THEOREM CommittedIsReceivedHolds == FeedSpec => []CommittedIsReceived
BY FeedInvHolds, PTL DEF FeedInv
===============================================================================
