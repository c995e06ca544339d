------------------------------ MODULE LocationFeed ------------------------------
(***************************************************************************)
(* A ping from the driver's post to the Dispatch service: gps-pings as the *)
(* ingest service writes it, and LocationPingConsumer as its reader, one   *)
(* listener thread of the Dispatch JVM with a consumer group of its own.   *)
(* The listener catches what onMessage throws, so only what happens        *)
(* outside onMessage can go wrong: decoding, the commit, the process.      *)
(***************************************************************************)
EXTENDS LocationIngest

CONSTANTS
  NoPartition,
  FeedFaultKinds   \* the listener's failures; they count as faults too

AllFeedFaultKinds ==
  { "schema",     \* the writer schema cannot be fetched while polling
    "offset",     \* commitSync throws after onMessage returned
    "dispatch" }  \* the Dispatch JVM dies; the container is started again

ASSUME FeedAssumption ==
  /\ NoPartition \notin Partitions
  /\ FeedFaultKinds \subseteq AllFeedFaultKinds

VARIABLES
  listener,   \* the listener thread: poll, handle, ack
  holding,    \* the partition whose next record it holds
  offset,     \* the group's committed offset, per partition
  known,      \* this JVM's deserializer has cached the writer schema
  received,   \* history: the pings logged by onMessage
  undecoded   \* history: the pings skipped as undecodable

feed     == <<listener, holding, offset, known, received, undecoded>>
feedVars == <<vars, feed>>

\* One failure of the listener happens in this step; nothing of ingest does.
FeedFault(k) ==
  /\ k \in FeedFaultKinds
  /\ faults < MaxFaults
  /\ faults' = faults + 1
  /\ UNCHANGED <<server, schema, handler, reply, late, records, client>>

FeedInit ==
  /\ Init
  /\ listener = "poll"
  /\ holding = NoPartition
  /\ offset = [p \in Partitions |-> 0]
  /\ known = FALSE
  /\ received = {}
  /\ undecoded = {}

-------------------------------------------------------------------------------
(* The listener container.                                                 *)

Unread(p) == offset[p] < Len(topic[p])
NextOf(p) == topic[p][offset[p] + 1]

\* Mutant of Commit: the offset of the batch, whose other records are not handled.
CommitBatch(p) == offset' = [offset EXCEPT ![p] = Len(topic[p])]

Commit(p) == offset' = [offset EXCEPT ![p] = @ + 1]

BackToPoll == listener' = "poll" /\ holding' = NoPartition

\* Mutant of Poll: enable.auto.commit, so polling commits.
PollCommits(p) ==
  /\ listener = "poll" /\ Unread(p)
  /\ listener' = "handle"
  /\ holding' = p
  /\ known' = TRUE
  /\ Commit(p)
  /\ UNCHANGED <<vars, received, undecoded>>

Poll(p) ==
  /\ listener = "poll" /\ Unread(p)
  /\ listener' = "handle"
  /\ holding' = p
  /\ known' = TRUE
  /\ UNCHANGED <<vars, offset, received, undecoded>>

\* ErrorHandlingDeserializer: logged, and the offset committed.
PollUndecodable(p) ==
  /\ listener = "poll" /\ Unread(p) /\ ~known
  /\ FeedFault("schema")
  /\ undecoded' = undecoded \cup {NextOf(p)}
  /\ Commit(p)
  /\ UNCHANGED <<listener, holding, known, received>>

\* One line at debug level; every exception is caught and logged.
OnMessage ==
  /\ listener = "handle"
  /\ received' = received \cup {NextOf(holding)}
  /\ listener' = "ack"
  /\ UNCHANGED <<vars, holding, offset, known, undecoded>>

\* AckMode.RECORD.
Ack ==
  /\ listener = "ack"
  /\ Commit(holding)
  /\ BackToPoll
  /\ UNCHANGED <<vars, known, received, undecoded>>

\* The error handler seeks back to the record.
AckThrows ==
  /\ listener = "ack"
  /\ FeedFault("offset")
  /\ BackToPoll
  /\ UNCHANGED <<offset, known, received, undecoded>>

DispatchCrash ==
  /\ FeedFault("dispatch")
  /\ BackToPoll
  /\ known' = FALSE
  /\ UNCHANGED <<offset, received, undecoded>>

Listen ==
  \/ \E p \in Partitions : Poll(p) \/ PollUndecodable(p)
  \/ OnMessage \/ Ack \/ AckThrows

FeedNext ==
  \/ Next /\ UNCHANGED feed
  \/ Listen
  \/ DispatchCrash

FeedSpec == FeedInit /\ [][FeedNext]_feedVars

\* The listener's thread runs, and its fetcher drains the partitions in turn.
FeedFairness ==
  /\ WF_feedVars(Listen)
  /\ \A p \in Partitions : SF_feedVars(Poll(p) \/ PollUndecodable(p))

FairFeedSpec == FeedSpec /\ Fairness /\ FeedFairness

-------------------------------------------------------------------------------
(* Correctness.                                                            *)

\* The type invariant of both services; the listener holds a partition exactly
\* while it has a record of it that is not committed.
FeedTypeOK ==
  /\ TypeOK
  /\ listener \in {"poll", "handle", "ack"}
  /\ holding \in Partitions \cup {NoPartition}
  /\ (listener = "poll") <=> (holding = NoPartition)
  /\ offset \in [Partitions -> Nat]
  /\ \A p \in Partitions : offset[p] <= Len(topic[p])
  /\ holding # NoPartition => Unread(holding)
  /\ known \in BOOLEAN
  /\ received \subseteq Pings /\ undecoded \subseteq Pings

\* The group gives up no ping it has not logged, unless it could not be decoded,
\* whatever crashes and whatever commit fails.
CommittedIsReceived ==
  \A p \in Partitions : \A i \in 1 .. offset[p] :
    topic[p][i] \in received \cup undecoded

\* A ping that was answered 202 reaches the Dispatch service in the end, whatever
\* either side fails at on the way, unless it could not be decoded there.
AcceptedIsReceived ==
  \A r \in Pings : <>[](reply[r] = 202 => r \in received \cup undecoded)
===============================================================================
