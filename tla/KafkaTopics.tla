------------------------------ MODULE KafkaTopics ------------------------------
(***************************************************************************)
(* The Kafka side of the pipeline: the records of raw-events and           *)
(* schema-drift, the offsets of the two consumer groups that read them,    *)
(* and what reached failed-events.  The operations are the calls that      *)
(* app/messaging/kafka_client.py makes on the broker.                      *)
(*                                                                         *)
(* A topic is a set of partitions and a partition an append-only sequence. *)
(* Consumers commit by hand (enable.auto.commit is False) and start from   *)
(* the earliest record (auto.offset.reset), so each partition carries the  *)
(* group's committed offset and the fetch position of the consumer that    *)
(* owns it; both count records, so offset i means "records 1..i".          *)
(***************************************************************************)
EXTENDS Deployment, Naturals, Sequences

CONSTANTS
    RawPartitions,    \* partitions of raw-events
    DriftPartitions,  \* partitions of schema-drift
    KeyPartition      \* partition of schema-drift the key (a case id) hashes to

Partitions == RawPartitions \cup DriftPartitions

ASSUME TopicsAssumption ==
    /\ KeyPartition \in [Cases -> DriftPartitions]
    /\ RawPartitions # {}
    /\ RawPartitions \cap DriftPartitions = {}
    /\ Null \notin Partitions

VARIABLES
    log,        \* the records of each partition
    committed,  \* the group's committed offset in each partition
    owner,      \* the consumer each partition is assigned to, or Null
    position,   \* the last record the owner has fetched
    failed      \* events with a record on failed-events

topicVars == <<log, committed, owner, position, failed>>

TopicsTypeOK ==
    /\ log \in [Partitions -> Seq(Events)]
    /\ committed \in [Partitions -> Nat]
    /\ owner \in [Partitions -> Workers \cup {Null}]
    /\ position \in [Partitions -> Nat]
    /\ failed \in SUBSET Events

TopicsInit ==
    /\ log = [p \in Partitions |-> <<>>]
    /\ committed = [p \in Partitions |-> 0]
    /\ owner = [p \in Partitions |-> Null]
    /\ position = [p \in Partitions |-> 0]
    /\ failed = {}

\* The partitions a consumer may be assigned: those of its group's topic.
GroupPartitions(w) == IF w \in RawWorkers THEN RawPartitions ELSE DriftPartitions

--------------------------------------------------------------------------------
(***************************************************************************)
(* publish_event.  produce then flush waits for the broker's answer; these *)
(* operators are the call in which the broker keeps the record.  A caller  *)
(* that gets an exception instead (with the record kept or not) is a       *)
(* failure action of the module that uses them.                            *)
(***************************************************************************)
\* Mutant: the answers of flush and of the delivery report are not looked at.
AppendUnchecked(p, e) ==
    /\ log' \in {log, [log EXCEPT ![p] = Append(@, e)]}
    /\ UNCHANGED failed

AppendRecord(p, e) ==
    /\ log' = [log EXCEPT ![p] = Append(@, e)]
    /\ UNCHANGED failed

\* No key is given for raw-events: any partition may take the record.
PublishRaw(e) == \E p \in RawPartitions : AppendRecord(p, e)

\* Mutant: the record gets no key.
PublishDriftUnkeyed(e) == \E p \in DriftPartitions : AppendRecord(p, e)

\* The key is the case id: all events of a case share a partition.
PublishDrift(e) == AppendRecord(KeyPartition[CaseOf[e]], e)

\* Mutant: the failed event is produced but its delivery not awaited.
PublishFailedUnchecked(e) ==
    /\ failed' \in {failed, failed \cup {e}}
    /\ UNCHANGED log

PublishFailed(e) ==
    /\ failed' = failed \cup {e}
    /\ UNCHANGED log

--------------------------------------------------------------------------------
\* consumer.poll: the owner of p fetches the record after its position.
HasRecord(w, p) == owner[p] = w /\ position[p] < Len(log[p])

Fetch(p) == position' = [position EXCEPT ![p] = @ + 1]

\* Mutant: the partition's position is committed, whoever fetched that far.
CommitPosition(p, i) == committed' = [committed EXCEPT ![p] = position[p]]

\* commit_message: the offset just after the message becomes the committed one.
CommitOffset(p, i) == committed' = [committed EXCEPT ![p] = i]

--------------------------------------------------------------------------------
(***************************************************************************)
(* The group coordinator (external).  A partition that changes hands is    *)
(* read again from the committed offset.                                   *)
(***************************************************************************)
\* Mutant: the new owner starts one record too early.
AssignOneBack(p, w) ==
    /\ owner' = [owner EXCEPT ![p] = w]
    /\ position' = [position EXCEPT ![p] = committed[p] - 1]

Assign(p, w) ==
    /\ owner' = [owner EXCEPT ![p] = w]
    /\ position' = [position EXCEPT ![p] = committed[p]]

\* A consumer closes, dies or misses its deadlines: it owns nothing any more.
Release(w) == owner' = [p \in Partitions |-> IF owner[p] = w THEN Null ELSE owner[p]]

================================================================================
