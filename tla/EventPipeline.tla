----------------------------- MODULE EventPipeline -----------------------------
(***************************************************************************)
(* The whole pipeline: the API publishes events, the raw-event consumers   *)
(* normalize them into the database, the schema-drift consumers obtain a   *)
(* mapping for the cases that have none.  Each process handles one record  *)
(* at a time; a step of the model is one call the handler makes on shared  *)
(* state (broker, mapping files, database), so processes interleave, and   *)
(* crash, between any two of them.                                         *)
(***************************************************************************)
EXTENDS KafkaTopics, MappingStore

CONSTANTS
    SupportedEvents,  \* events whose source is configured
    Result,           \* Result[e][m]: what applying mapping m to event e gives
    Oversized,        \* events whose FailedEvent is over the producer's size limit
    MaxCrashes,       \* bound on unforced process exits
    MaxEvictions,     \* bound on consumers that lose their partitions while busy
    MaxRepeats,       \* bound on records the broker takes twice
    MaxOutages        \* bound on power failures

(***************************************************************************)
(* apply_mapping is a pure function of the event and the mapping: it gives *)
(* a normalized event the repository stores ("ok") or one the repository   *)
(* or the database refuses ("unstorable"), raises the MappingEngineError   *)
(* the consumers handle ("invalid"), or raises an exception they do not    *)
(* ("raises", such as the OverflowError of _multiply).                     *)
(***************************************************************************)
Outcomes == {"ok", "unstorable", "invalid", "raises"}
Normalizes == {"ok", "unstorable"}

ASSUME PipelineAssumption ==
    /\ SupportedEvents \subseteq Events
    /\ Result \in [Events -> [Mappings -> Outcomes]]
    /\ Oversized \subseteq Events
    /\ {MaxCrashes, MaxEvictions, MaxRepeats, MaxOutages} \subseteq Nat

VARIABLES
    pc,         \* the call each process makes next
    part,       \* the partition of the record it handles, or Null
    offset,     \* the offset of that record
    held,       \* the mapping it is about to use or save
    db,         \* the mapping the event's row was normalized with, or Null
    reply,      \* the API's answer to each event
    done,       \* history: the last record of each partition with an outcome
    crashes, evictions, repeats, outages

workerVars == <<pc, part, offset, held>>
boundVars == <<crashes, evictions, repeats, outages>>
vars == <<topicVars, storeVars, workerVars, db, reply, done, boundVars>>

Busy == {"lookup", "to_drift", "to_failed", "store", "generate", "save",
         "to_raw", "commit"}

TypeOK ==
    /\ TopicsTypeOK
    /\ StoreTypeOK
    /\ pc \in [Workers -> Busy \cup {"down", "poll"}]
    /\ part \in [Workers -> Partitions \cup {Null}]
    /\ offset \in [Workers -> Nat]
    /\ held \in [Workers -> Mappings \cup {Null}]
    /\ db \in [Events -> Mappings \cup {Null}]
    /\ reply \in [Events -> {"none", "accepted", "unavailable", "unsupported"}]
    /\ done \in [Partitions -> Nat]
    /\ crashes \in 0..MaxCrashes
    /\ evictions \in 0..MaxEvictions
    /\ repeats \in 0..MaxRepeats
    /\ outages \in 0..MaxOutages

Init ==
    /\ TopicsInit
    /\ StoreInit
    /\ pc = [w \in Workers |-> "down"]
    /\ part = [w \in Workers |-> Null]
    /\ offset = [w \in Workers |-> 0]
    /\ held = [w \in Workers |-> Null]
    /\ db = [e \in Events |-> Null]
    /\ reply = [e \in Events |-> "none"]
    /\ done = [p \in Partitions |-> 0]
    /\ crashes = 0
    /\ evictions = 0
    /\ repeats = 0
    /\ outages = 0

\* The event of the record that w handles.
EventAt(w) == log[part[w]][offset[w]]

IsBusy(w) == pc[w] \in Busy

Goto(w, label) == pc' = [pc EXCEPT ![w] = label]

\* The record of w has its outcome: published onwards, stored, or rejected.
RecordDone(w) ==
    done' = [done EXCEPT ![part[w]] = IF offset[w] > @ THEN offset[w] ELSE @]

--------------------------------------------------------------------------------
(***************************************************************************)
(* The API, create_event.  Every request gets a new event_id.              *)
(***************************************************************************)
apiUnchanged ==
    UNCHANGED <<committed, owner, position, storeVars, workerVars, db, done, boundVars>>

\* Published and acknowledged: the client gets 202.
Accept(e) ==
    /\ reply[e] = "none"
    /\ e \in SupportedEvents
    /\ PublishRaw(e)
    /\ reply' = [reply EXCEPT ![e] = "accepted"]
    /\ apiUnchanged

\* publish_event raised although the broker has the record (the answer was
\* lost, or arrived after the delivery timeout): the client gets 503.
AcceptUnconfirmed(e) ==
    /\ reply[e] = "none"
    /\ e \in SupportedEvents
    /\ PublishRaw(e)
    /\ reply' = [reply EXCEPT ![e] = "unavailable"]
    /\ apiUnchanged

\* publish_event raised and the broker has nothing: 503.
Refuse(e) ==
    /\ reply[e] = "none"
    /\ e \in SupportedEvents
    /\ reply' = [reply EXCEPT ![e] = "unavailable"]
    /\ UNCHANGED <<log, failed>>
    /\ apiUnchanged

\* _resolve_identifiers: the source is not configured, 422.
Reject(e) ==
    /\ reply[e] = "none"
    /\ e \notin SupportedEvents
    /\ reply' = [reply EXCEPT ![e] = "unsupported"]
    /\ UNCHANGED <<log, failed>>
    /\ apiUnchanged

--------------------------------------------------------------------------------
(***************************************************************************)
(* The run loops of both consumers.                                        *)
(***************************************************************************)
\* The head of run: the mapping store is initialized, then the consumer
\* subscribes and polls.
Start(w) ==
    /\ pc[w] = "down"
    /\ Initialize(w)
    /\ Goto(w, "poll")
    /\ UNCHANGED <<topicVars, part, offset, held, db, reply, done, boundVars>>

\* poll returned a record.
Poll(w, p) ==
    /\ pc[w] = "poll"
    /\ HasRecord(w, p)
    /\ Fetch(p)
    /\ Goto(w, "lookup")
    /\ part' = [part EXCEPT ![w] = p]
    /\ offset' = [offset EXCEPT ![w] = position[p] + 1]
    /\ UNCHANGED <<log, committed, owner, failed, storeVars, held, db, reply, done, boundVars>>

\* poll returned None, or the error of a topic that does not exist yet.
PollNothing(w) ==
    /\ pc[w] = "poll"
    /\ \A p \in Partitions : ~ HasRecord(w, p)
    /\ UNCHANGED vars

\* The process leaves run: the consumer is closed and its memory is gone.
Leave(w) ==
    /\ Goto(w, "down")
    /\ Release(w)
    /\ Forget(w)
    /\ part' = [part EXCEPT ![w] = Null]
    /\ offset' = [offset EXCEPT ![w] = 0]
    /\ held' = [held EXCEPT ![w] = Null]
    /\ UNCHANGED <<log, committed, position, failed, db, reply, done>>

\* Killed, or ended by an exception no handler catches: of the broker, the
\* database, the AI service or the file system, before or after its effect.
Crash(w) ==
    /\ pc[w] # "down"
    /\ crashes < MaxCrashes
    /\ crashes' = crashes + 1
    /\ Leave(w)
    /\ UNCHANGED <<evictions, repeats, outages>>

\* commit_message succeeds.  The coordinator answers by member and generation,
\* not by owner: the offset of a consumer that lost the partition may be taken.
Commit(w) ==
    /\ pc[w] = "commit"
    /\ CommitOffset(part[w], offset[w])
    /\ Goto(w, "poll")
    /\ part' = [part EXCEPT ![w] = Null]
    /\ offset' = [offset EXCEPT ![w] = 0]
    /\ held' = [held EXCEPT ![w] = Null]
    /\ UNCHANGED <<log, owner, position, failed, storeVars, db, reply, done, boundVars>>

\* commit_message raises for a consumer that lost the partition: it exits.
CommitRefused(w) ==
    /\ pc[w] = "commit"
    /\ owner[part[w]] # w
    /\ Leave(w)
    /\ UNCHANGED boundVars

--------------------------------------------------------------------------------
(***************************************************************************)
(* process_raw_message.                                                    *)
(***************************************************************************)
\* get, then (when it finds a mapping) apply_mapping, which is pure.
LookupStep(w, mapping, label) ==
    /\ w \in RawWorkers
    /\ pc[w] = "lookup"
    /\ mapping = Lookup(w, CaseOf[EventAt(w)])
    /\ Get(w, CaseOf[EventAt(w)])
    /\ Goto(w, label)
    /\ UNCHANGED <<topicVars, part, offset, db, reply, done, boundVars>>

RawMiss(w) ==
    /\ LookupStep(w, Null, "to_drift")
    /\ UNCHANGED held

RawApply(w) == \E m \in Mappings :
    /\ LookupStep(w, m, "store")
    /\ Result[EventAt(w)][m] \in Normalizes
    /\ held' = [held EXCEPT ![w] = m]

RawInvalid(w) == \E m \in Mappings :
    /\ LookupStep(w, m, "to_failed")
    /\ Result[EventAt(w)][m] = "invalid"
    /\ UNCHANGED held

RawApplyRaises(w) == \E m \in Mappings :
    /\ w \in RawWorkers
    /\ pc[w] = "lookup"
    /\ m = Lookup(w, CaseOf[EventAt(w)])
    /\ Result[EventAt(w)][m] = "raises"
    /\ Leave(w)
    /\ UNCHANGED boundVars

\* What every publish of a consumer leaves alone.
publishUnchanged ==
    UNCHANGED <<committed, owner, position, storeVars, part, offset, held,
                db, reply, boundVars>>

ForwardToDrift(w) ==
    /\ pc[w] = "to_drift"
    /\ PublishDrift(EventAt(w))
    /\ RecordDone(w)
    /\ Goto(w, "commit")
    /\ publishUnchanged

\* Mutant: the handler returns without the commit.
ForwardToFailedUncommitted(w) ==
    /\ pc[w] = "to_failed"
    /\ EventAt(w) \notin Oversized
    /\ PublishFailed(EventAt(w))
    /\ RecordDone(w)
    /\ Goto(w, "poll")
    /\ publishUnchanged

\* Both consumers publish a FailedEvent: the event, wrapped, with a reason.
ForwardToFailed(w) ==
    /\ pc[w] = "to_failed"
    /\ EventAt(w) \notin Oversized
    /\ PublishFailed(EventAt(w))
    /\ RecordDone(w)
    /\ Goto(w, "commit")
    /\ publishUnchanged

\* produce refuses a message over message.max.bytes; the KafkaPublishError
\* leaves the handler, and run.
FailedTooLarge(w) ==
    /\ pc[w] = "to_failed"
    /\ EventAt(w) \in Oversized
    /\ Leave(w)
    /\ UNCHANGED boundVars

\* repository.save: insert, on conflict (event_id) do nothing.
StoreEvent(w) ==
    /\ pc[w] = "store"
    /\ Result[EventAt(w)][held[w]] = "ok"
    /\ db' = [db EXCEPT ![EventAt(w)] = IF @ = Null THEN held[w] ELSE @]
    /\ RecordDone(w)
    /\ Goto(w, "commit")
    /\ UNCHANGED <<topicVars, storeVars, part, offset, held, reply, boundVars>>

\* NormalizedEventStorageError leaves process_raw_message, and run.
StoreRaises(w) ==
    /\ pc[w] = "store"
    /\ Result[EventAt(w)][held[w]] = "unstorable"
    /\ Leave(w)
    /\ UNCHANGED boundVars

--------------------------------------------------------------------------------
(***************************************************************************)
(* process_drift_message.                                                  *)
(***************************************************************************)
\* Mutant: the record of a mapped case is committed but not published again.
DriftLookupDropsHit(w) ==
    /\ w \in DriftWorkers
    /\ pc[w] = "lookup"
    /\ Get(w, CaseOf[EventAt(w)])
    /\ Goto(w, IF Lookup(w, CaseOf[EventAt(w)]) # Null THEN "commit" ELSE "generate")
    /\ UNCHANGED <<topicVars, part, offset, held, db, reply, done, boundVars>>

\* Mutant: the mapping is generated without looking for it first.
DriftLookupSkipped(w) ==
    /\ w \in DriftWorkers
    /\ pc[w] = "lookup"
    /\ Goto(w, "generate")
    /\ UNCHANGED <<topicVars, storeVars, part, offset, held, db, reply, done, boundVars>>

DriftLookup(w) ==
    /\ w \in DriftWorkers
    /\ pc[w] = "lookup"
    /\ Get(w, CaseOf[EventAt(w)])
    /\ Goto(w, IF Lookup(w, CaseOf[EventAt(w)]) # Null THEN "to_raw" ELSE "generate")
    /\ UNCHANGED <<topicVars, part, offset, held, db, reply, done, boundVars>>

\* generate_mapping returned a proposal that applies to this event.
Generate(w) == \E m \in Mappings :
    /\ pc[w] = "generate"
    /\ Result[EventAt(w)][m] \in Normalizes
    /\ held' = [held EXCEPT ![w] = m]
    /\ Goto(w, "save")
    /\ UNCHANGED <<topicVars, storeVars, part, offset, db, reply, done, boundVars>>

\* No valid proposal within the attempts, or one that does not apply.
GenerateFails(w) ==
    /\ pc[w] = "generate"
    /\ Goto(w, "to_failed")
    /\ UNCHANGED <<topicVars, storeVars, part, offset, held, db, reply, done, boundVars>>

\* Applying the proposal raises what the handler does not catch.
GenerateRaises(w) == \E m \in Mappings :
    /\ pc[w] = "generate"
    /\ Result[EventAt(w)][m] = "raises"
    /\ Leave(w)
    /\ UNCHANGED boundVars

SaveMapping(w) ==
    /\ pc[w] = "save"
    /\ Save(w, CaseOf[EventAt(w)], held[w])
    /\ Goto(w, "to_raw")
    /\ UNCHANGED <<topicVars, part, offset, held, db, reply, done, boundVars>>

ForwardToRaw(w) ==
    /\ pc[w] = "to_raw"
    /\ PublishRaw(EventAt(w))
    /\ RecordDone(w)
    /\ Goto(w, "commit")
    /\ publishUnchanged

--------------------------------------------------------------------------------
(***************************************************************************)
(* The group coordinator (external).  The clients serve a rebalance inside *)
(* poll, so partitions move only while every member is polling; a member   *)
(* that stays away too long (max.poll.interval, session timeout) is        *)
(* evicted in the middle of its record.                                    *)
(***************************************************************************)
Group(w) == IF w \in RawWorkers THEN RawWorkers ELSE DriftWorkers

Holds(w, p) == IsBusy(w) /\ part[w] = p /\ owner[p] = w

\* Mutant: a rebalance does not wait for the members at work.
CanRebalanceAnyTime(w) == pc[w] = "poll"

CanRebalance(w) ==
    /\ pc[w] = "poll"
    /\ \A v \in Group(w), p \in Partitions : ~ Holds(v, p)

groupUnchanged ==
    UNCHANGED <<log, committed, failed, storeVars, workerVars, db, reply, done>>

\* A partition without an owner goes to a polling member.
AssignFree(p, w) ==
    /\ p \in GroupPartitions(w)
    /\ owner[p] = Null
    /\ CanRebalance(w)
    /\ Assign(p, w)
    /\ groupUnchanged
    /\ UNCHANGED boundVars

\* A member without a partition gets one of a member that has several.
Rebalance(p, w) ==
    /\ p \in GroupPartitions(w)
    /\ owner[p] \notin {Null, w}
    /\ \A q \in Partitions : owner[q] # w
    /\ \E q \in Partitions \ {p} : owner[q] = owner[p]
    /\ CanRebalance(w)
    /\ Assign(p, w)
    /\ groupUnchanged
    /\ UNCHANGED boundVars

Evict(w) ==
    /\ IsBusy(w)
    /\ owner[part[w]] = w
    /\ evictions < MaxEvictions
    /\ evictions' = evictions + 1
    /\ Release(w)
    /\ UNCHANGED position
    /\ groupUnchanged
    /\ UNCHANGED <<crashes, repeats, outages>>

--------------------------------------------------------------------------------
(***************************************************************************)
(* What the machines do (external).                                        *)
(***************************************************************************)
\* The producer did not see the acknowledgement and sent the batch again:
\* enable.idempotence is not set, so the broker keeps the record twice.
RepeatRecord(p) ==
    /\ repeats < MaxRepeats
    /\ repeats' = repeats + 1
    /\ \E i \in 1..Len(log[p]) : AppendRecord(p, log[p][i])
    /\ UNCHANGED <<committed, owner, position, storeVars, workerVars, db, reply, done,
                   crashes, evictions, outages>>

\* Every consumer stops at once.  save forces the file to disk but not the
\* directory, so the rename of any mapping may be undone; the broker and the
\* database keep what they acknowledged.
PowerFails ==
    /\ outages < MaxOutages
    /\ outages' = outages + 1
    /\ pc' = [w \in Workers |-> "down"]
    /\ part' = [w \in Workers |-> Null]
    /\ offset' = [w \in Workers |-> 0]
    /\ held' = [w \in Workers |-> Null]
    /\ cache' = [w \in Workers |-> [c \in Cases |-> Null]]
    /\ owner' = [p \in Partitions |-> Null]
    /\ \E lost \in SUBSET Cases :
           disk' = [c \in Cases |-> IF c \in lost THEN Null ELSE disk[c]]
    /\ UNCHANGED <<log, committed, position, failed, db, reply, done,
                   crashes, evictions, repeats>>

--------------------------------------------------------------------------------
Api(e) == Accept(e) \/ AcceptUnconfirmed(e) \/ Refuse(e) \/ Reject(e)

RawStep(w) ==
    \/ RawMiss(w) \/ RawApply(w) \/ RawInvalid(w) \/ RawApplyRaises(w)
    \/ ForwardToDrift(w) \/ StoreEvent(w) \/ StoreRaises(w)

DriftStep(w) ==
    \/ DriftLookup(w) \/ Generate(w) \/ GenerateFails(w) \/ GenerateRaises(w)
    \/ SaveMapping(w) \/ ForwardToRaw(w)

\* What a process does while nothing outside stops it.
Run(w) ==
    \/ Start(w)
    \/ \E p \in Partitions : Poll(w, p)
    \/ PollNothing(w)
    \/ RawStep(w)
    \/ DriftStep(w)
    \/ ForwardToFailed(w)
    \/ FailedTooLarge(w)
    \/ Commit(w)
    \/ CommitRefused(w)

Coordinator(p, w) == AssignFree(p, w) \/ Rebalance(p, w)

Next ==
    \/ \E e \in Events : Api(e)
    \/ \E w \in Workers : Run(w) \/ Crash(w) \/ Evict(w)
    \/ \E p \in Partitions, w \in Workers : Coordinator(p, w)
    \/ \E p \in Partitions : RepeatRecord(p)
    \/ PowerFails

Spec == Init /\ [][Next]_vars

(***************************************************************************)
(* A process that can take its next step takes it, a process that ended is *)
(* started again (by whoever operates it), and the coordinator assigns a   *)
(* free partition to some polling member.  Nothing forces a request, a     *)
(* crash, an eviction, a repeated record or a power failure.               *)
(***************************************************************************)
Fairness ==
    /\ \A w \in Workers : WF_vars(Run(w))
    /\ \A p \in Partitions : WF_vars(\E w \in Workers : AssignFree(p, w))

FairSpec == Spec /\ Fairness

--------------------------------------------------------------------------------
(***************************************************************************)
(* Delivery.                                                               *)
(***************************************************************************)
\* Some record of e beyond the given offsets.
RecordBeyond(e, mark) ==
    \E p \in Partitions : \E i \in 1..Len(log[p]) : i > mark[p] /\ log[p][i] = e

Waiting(e) == RecordBeyond(e, done)

Resolved(e) == db[e] # Null \/ e \in failed

\* An event the API answered 202 for is stored, or on failed-events, or still
\* has a record its consumer group has not committed: no crash, restart,
\* redelivery or rebalance between publishing, storing and committing
\* (process_raw_message, process_drift_message) can lose it.
NoEventLost ==
    \A e \in Events : reply[e] = "accepted" => Resolved(e) \/ RecordBeyond(e, committed)

\* The group's offset never passes a record whose outcome is not stored or
\* published: "commit only after its outcome is stored"
\* (raw_event_consumer.py:37, drift_consumer.py:36), also when the consumer
\* that commits has lost the partition to another.
CommitFollowsOutcome == \A p \in Partitions : committed[p] <= done[p]

\* The record of w is in the log, and no record before it lacks an outcome.
RecordInOrder(w) ==
    /\ part[w] \in GroupPartitions(w)
    /\ offset[w] \in 1..Len(log[part[w]])
    /\ offset[w] <= done[part[w]] + 1
    /\ owner[part[w]] = w => position[part[w]] = offset[w]
    /\ pc[w] = "commit" => offset[w] <= done[part[w]]

\* A process about to store or save has the mapping to do it with.
MappingHeld == \A w \in Workers : pc[w] \in {"store", "save"} => held[w] # Null

\* A partition belongs to a process of its group, that has fetched past the
\* records with an outcome only the one it is working on.
OwnerInOrder(p) ==
    owner[p] # Null =>
        /\ p \in GroupPartitions(owner[p])
        /\ Holds(owner[p], p) \/ position[p] <= done[p]

\* Every event with a record has its outcome or a record still to be handled.
EventsAccounted ==
    /\ \A p \in Partitions : \A i \in 1..Len(log[p]) :
           Resolved(log[p][i]) \/ Waiting(log[p][i])
    /\ \A e \in Events : reply[e] = "accepted" => Resolved(e) \/ Waiting(e)

\* The inductive invariant behind NoEventLost: every record up to done has its
\* outcome, and a process at work is at most one record past it, so whatever
\* offset it commits passes no record that is still to be handled.
DeliveryInv ==
    /\ TypeOK
    /\ MappingHeld
    /\ CommitFollowsOutcome
    /\ \A p \in Partitions : done[p] <= Len(log[p])
    /\ \A p \in Partitions : OwnerInOrder(p)
    /\ \A w \in Workers : IsBusy(w) => RecordInOrder(w)
    /\ EventsAccounted

\* The pipeline implements the ledger of EventLedger.
Ledger == INSTANCE EventLedger WITH
    Rows <- Mappings,
    NoRow <- Null,
    accepted <- {e \in Events : reply[e] = "accepted"},
    waiting <- {e \in Events : Waiting(e)},
    row <- db,
    rejected <- failed

\* Every behaviour of the pipeline is one the ledger allows: an event leaves
\* the topics only with an outcome, a row is written at most once per event_id
\* (on_conflict_do_nothing) and never changes, failed-events keeps its records.
LedgerSpec == Ledger!Spec

--------------------------------------------------------------------------------
(***************************************************************************)
(* Mappings.                                                               *)
(***************************************************************************)
\* A process that runs sees in its memory what is on disk, or nothing: the
\* caches of mapping_store.py are never told of a save of another process.
CachesAreCoherent ==
    \A w \in Workers, c \in Cases : cache[w][c] \in {Null, disk[c]}

\* A process that runs uses the predefined mapping of a case that has one,
\* whatever the generated directory held before (initialize, lines 53-58).
PredefinedHasPriority ==
    \A w \in Workers, c \in DOMAIN Predefined :
        pc[w] # "down" => cache[w][c] = Predefined[c]

\* From the lookup that finds no mapping until the save, nobody else has
\* saved one: a generated mapping never overwrites another
\* (drift_consumer.py:39-79 checks first and saves much later).
GenerateOnlyUnmapped ==
    \A w \in Workers :
        pc[w] \in {"generate", "save"} => disk[CaseOf[EventAt(w)]] = Null

\* No two processes ask the AI for a mapping of the same case (README.md:136).
OneGeneratorPerCase ==
    \A v, w \in Workers :
        /\ pc[v] \in {"generate", "save"} /\ pc[w] \in {"generate", "save"}
        /\ CaseOf[EventAt(v)] = CaseOf[EventAt(w)]
        => v = w

\* A generated mapping, once on disk, never changes.
MappingsAreWriteOnce ==
    [][\A c \in Cases \ DOMAIN Predefined : disk[c] # Null => disk'[c] = disk[c]]_vars

\* Every row was normalized with the mapping its case still has: two events of
\* one case are never stored under different mappings.
RowsFollowMapping ==
    \A e \in Events : db[e] # Null => db[e] = disk[CaseOf[e]]

\* A process at work still owns the partition of its record.
OwnersKeep == \A w \in Workers : IsBusy(w) => owner[part[w]] = w

\* schema-drift is partitioned by case.
DriftKeyed ==
    \A p \in DriftPartitions : \A i \in 1..Len(log[p]) : KeyPartition[CaseOf[log[p][i]]] = p

\* From the first start on, a predefined case has its predefined mapping.
PredefinedOnDisk ==
    \/ \A w \in Workers : pc[w] = "down"
    \/ \A c \in DOMAIN Predefined : disk[c] = Predefined[c]

\* The lookup of a predefined case always finds its mapping: none is generated.
PredefinedNotGenerated ==
    \A w \in Workers :
        pc[w] \in {"generate", "save"} => CaseOf[EventAt(w)] \notin DOMAIN Predefined

\* The inductive invariant behind PredefinedHasPriority.  It needs no owner and
\* no partition: it survives evictions, crashes and power failures.
PredefinedInv ==
    /\ PredefinedOnDisk
    /\ PredefinedHasPriority
    /\ PredefinedNotGenerated

\* Every row of a predefined case was normalized with the predefined mapping:
\* not with what an earlier release left in the generated directory, and not
\* with what a drift consumer, however late, proposes.  Rows of other cases can
\* promise that only until a power failure or an eviction (RowsFollowMapping).
PredefinedRows ==
    \A e \in Events :
        CaseOf[e] \in DOMAIN Predefined /\ db[e] # Null => db[e] = Predefined[CaseOf[e]]

\* A process about to store an event of a predefined case holds its mapping.
PredefinedHeld ==
    \A w \in Workers :
        pc[w] = "store" /\ CaseOf[EventAt(w)] \in DOMAIN Predefined
            => held[w] = Predefined[CaseOf[EventAt(w)]]

\* A mapping in use is the one on disk.
StoredMappingIsCurrent ==
    \A w \in Workers : pc[w] = "store" =>
        w \in RawWorkers /\ held[w] = disk[CaseOf[EventAt(w)]]

GeneratorsAreDrift ==
    \A w \in Workers : pc[w] \in {"generate", "save"} => w \in DriftWorkers

\* Rows exist only once predefined mappings are in place.
RowsAfterStart ==
    \A e \in Events : CaseOf[e] \in DOMAIN Predefined /\ db[e] # Null =>
        disk[CaseOf[e]] = Predefined[CaseOf[e]]

\* Rows agree with the files, as long as no power failure has undone a rename.
RowsInv == outages = 0 => RowsAfterStart /\ RowsFollowMapping

NothingCachedWhenDown ==
    \A w \in Workers, c \in Cases : pc[w] = "down" => cache[w][c] = Null

\* The inductive invariant behind the mapping properties, when no consumer is
\* evicted in the middle of a record: a case belongs to one partition, the
\* partition to one process, so the check of the mapping and its save, far
\* apart in process_drift_message, act as one step.
MappingsInv ==
    /\ OwnersKeep
    /\ DriftKeyed
    /\ PredefinedOnDisk
    /\ PredefinedHasPriority
    /\ NothingCachedWhenDown
    /\ CachesAreCoherent
    /\ GeneratorsAreDrift
    /\ GenerateOnlyUnmapped
    /\ StoredMappingIsCurrent
    /\ RowsInv

--------------------------------------------------------------------------------
(***************************************************************************)
(* Progress.                                                               *)
(***************************************************************************)
\* Every event answered 202 is eventually stored or published to failed-events.
EventuallyResolved ==
    \A e \in Events : (reply[e] = "accepted") ~> Resolved(e)

\* Every record is eventually committed: no partition is stuck.
PartitionsDrain ==
    \A p \in Partitions :
        []<>(committed[p] = Len(log[p]))

\* An event of a predefined case for which process_raw_message raises what
\* nothing handles: from apply_mapping, from save, or from the publishing of a
\* FailedEvent that is too large.
AlwaysRaises(e) ==
    /\ CaseOf[e] \in DOMAIN Predefined
    /\ LET outcome == Result[e][Predefined[CaseOf[e]]] IN
       outcome \in {"unstorable", "raises"} \/ (outcome = "invalid" /\ e \in Oversized)

\* No commit ever passes the record of such an event: a restart, another
\* consumer or an eviction does not help, and what lies behind it in its
\* partition waits for ever (run, raw_event_consumer.py:88-107).
RaisingRecordBlocks ==
    \A p \in RawPartitions : \A i \in 1..Len(log[p]) :
        AlwaysRaises(log[p][i]) => committed[p] < i

\* The inductive invariant behind it: such a record has no outcome, and whoever
\* works on it is on the way to one of the three exceptions.
RaisingInv ==
    /\ \A p \in RawPartitions : \A i \in 1..Len(log[p]) :
           AlwaysRaises(log[p][i]) => done[p] < i
    /\ \A w \in RawWorkers : IsBusy(w) /\ AlwaysRaises(EventAt(w)) =>
           \/ pc[w] \in {"lookup", "store"}
           \/ pc[w] = "to_failed" /\ EventAt(w) \in Oversized

\* README.md:220: what cannot produce a valid normalized event goes to
\* failed-events "rather than stored".
FailedNotStored == \A e \in Events : e \in failed => db[e] = Null

\* An event has at most one record without an outcome, in whatever topic.
OneRecordWaits ==
    \A p, q \in Partitions : \A i \in 1..Len(log[p]), j \in 1..Len(log[q]) :
        i > done[p] /\ j > done[q] /\ log[p][i] = log[q][j] => p = q /\ i = j

\* An event that was stored or rejected has none, and one without an answer has
\* neither a record nor an outcome.
ResolvedIsOver == \A e \in Events : Resolved(e) => ~ Waiting(e)
UnansweredIsUnseen ==
    \A e \in Events : reply[e] = "none" => ~ Waiting(e) /\ ~ Resolved(e)

\* A process at work is on the first record without an outcome, or commits the
\* last one with one.
WorksOnNext ==
    \A w \in Workers : IsBusy(w) =>
        IF pc[w] = "commit" THEN offset[w] = done[part[w]] ELSE offset[w] = done[part[w]] + 1

\* Only a process on its way to the commit separates outcomes from offsets.
CommitCatchesUp ==
    \A p \in Partitions :
        committed[p] = done[p] \/ \E w \in Workers : Holds(w, p) /\ pc[w] = "commit"

FetchesNoOutcome ==
    \A p \in Partitions : owner[p] # Null => Holds(owner[p], p) \/ position[p] >= done[p]

\* Nothing was killed, evicted, repeated or lost so far.
Undisturbed == crashes = 0 /\ evictions = 0 /\ repeats = 0 /\ outages = 0

HandledOnce ==
    /\ OneRecordWaits
    /\ ResolvedIsOver
    /\ UnansweredIsUnseen
    /\ FailedNotStored

OffsetsInStep ==
    /\ WorksOnNext
    /\ CommitCatchesUp
    /\ FetchesNoOutcome

\* Delivery is at least once, and exactly once until something goes wrong: as
\* long as no process is killed or evicted, no record repeated and no machine
\* lost, each event is in one place only, waiting in one topic, or stored, or
\* on failed-events.  The exits of run that no handler catches do not count as
\* disturbances: each leaves its record as it found it.
ExactlyOnceInv == Undisturbed => OwnersKeep /\ HandledOnce /\ OffsetsInStep

\* README.md:136: one consumer group "prevents multiple consumers from
\* processing the same partition concurrently".
PartitionsAreExclusive ==
    \A v, w \in Workers : IsBusy(v) /\ IsBusy(w) /\ part[v] = part[w] => v = w

================================================================================
