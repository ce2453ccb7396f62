# AI-UnifiedFlow in TLA+

AI-UnifiedFlow takes usage events of any JSON shape, normalizes each with a
mapping chosen by the shape of its payload, and stores the result. A shape seen
for the first time gets its mapping from an AI model. Four kinds of process
work together and share three things, and nothing else: the Kafka topics, a
directory of mapping files, a PostgreSQL table.

```
client -> API -> raw-events -> raw-event consumer -> PostgreSQL
                    ^              |        |
                    |        no mapping   mapping does not apply
                    |              v        v
         mapping saved        schema-drift  failed-events
                    |              |        ^
                    +-- schema-drift consumer (asks the AI)
```

## 1. Inventory

| Component | State | Operations | What must be right |
|---|---|---|---|
| Event API `app/api/routes.py` | one producer and one mapping store, shared by its threads | `create_event`, `resolve_mapping`, reads | 202 only for an event the broker has; to each request the answer of its own message |
| Kafka client `app/messaging/kafka_client.py` | the records and offsets of the broker | `publish_event`, `commit_message`, `decode_message` | no success without an acknowledgement; commit exactly the record handled |
| Raw-event consumer `app/messaging/raw_event_consumer.py` | the record it handles | `run`, `process_raw_message` | commit only after the outcome; every branch ends in a commit |
| Schema-drift consumer `app/messaging/drift_consumer.py` | the record, a proposed mapping | `run`, `process_drift_message` | one mapping per case; event back on `raw-events` |
| Consumer groups (Kafka, external) | owner and position of each partition | assignment, rebalance, eviction | what the code may and may not assume of it |
| Mapping store `app/normalization/mapping_store.py`, `predefined_loader.py` | one JSON file per case, a memory cache per process | `initialize`, `get`, `save` | caches agree with the files; predefined before generated |
| Repository `app/db/` | one row per `event_id` | `save`, `get_all` | a row is written once, whatever is delivered twice |
| Mapping engine and casting `app/normalization/mapping_engine.py`, `casting.py` | none (pure) | `apply_mapping`, `cast_value` | a valid normalized event, or an error the caller handles |
| AI client and checks `app/ai/` | the conversation of one call | `generate_mapping` | bounded attempts; only a checked and reviewed proposal is returned; nothing is sent for a blocked payload, no blocked proposal reviewed |
| Fingerprint `app/normalization/fingerprint.py` | none (pure) | signature, fingerprint, case id | same shape, same case; a mapping of a case fits all its events |
| Schemas `app/schemas/` | none | validation | what the models rely on: signatures, copy paths, distinct targets |
| Start-up, configuration, health `app/main.py`, `config.py` | none | wiring | predefined mappings win at a start |

Interactions: the API and both consumers call `publish_event`; the raw
consumer feeds `schema-drift` and the drift consumer feeds `raw-events` (a
cycle); both consumers read the mapping directory and the drift consumer writes
it; only the raw consumer writes rows. All of it runs at least once: offsets
are committed by hand, after the outcome.

What is hard here, and what the properties are for (all of it in
`PROJECT.json`, "hazards", each at its line):

* a crash between any two calls of a handler, and the redelivery after it;
* several processes with a check (is there a mapping?) minutes before the act
  that depends on it (save the mapping), with nothing but Kafka's partitioning
  between them;
* a consumer that is evicted from its group while it works, and does not know;
* caches that are never invalidated;
* exceptions no handler catches, which turn into a loop of redeliveries;
* progress around the cycle of two topics;
* time: several slow requests between two polls;
* threads that wait for each other's messages in one producer;
* machines: a record the broker keeps twice, a rename a power failure undoes;
* releases that change the predefined mappings under running processes;
* limits of numbers, texts and message sizes.

## 2. Modules

| Module | Models | Kind |
|---|---|---|
| `Deployment` | events, cases, processes: what everything shares | constants and their assumption |
| `KafkaTopics` | the broker calls of `kafka_client.py`, the group's bookkeeping | state and operators |
| `MappingStore` | `mapping_store.py`, `predefined_loader.py` | state and operators |
| `EventPipeline` | API, both consumers, coordinator, crashes; extends the two above | the specification |
| `EventLedger` | what the pipeline promises of an event, without topics or processes | abstract specification |
| `MappingFiles` | `mapping_store.py` call by call on the file system: temporary file, fsync, rename, listing, kills, power failures | specification, implements `MappingStore` |
| `AIClient` | `ai/client.py`, `ai/security.py`: attempts, conversation, checks, review | state and operators |
| `DriftAttempts` | `process_drift_message` with `AIClient` inside, and the time it takes; extends it | specification, implements `DriftContract` |
| `DriftContract` | what the handling of a drift record promises | abstract specification |
| `SharedProducer` | `create_event` on many threads with one producer, call by call | specification, implements `PublishContract` |
| `PublishContract` | what `create_event` promises of each request | abstract specification |
| `Rollout` | the mapping stores of all processes while releases change the predefined mappings; extends `MappingStore` | specification |
| `Fingerprint` | `fingerprint.py`, and the readers of its paths | operators |
| `CaseMappings` | mappings written for one payload, applied to all of its case; extends it | specification |
| `MappingValues` | `casting.py`, `_multiply` on abstract values | operators |
| `ApplyMapping` | `apply_mapping` and `repository.save` for one event, and the function of payload and mapping they compute; extends it | specification |
| `MC...` | instances for TLC of the specification in their name | model checking |
| `EventPipelineProofs` | types, the delivery invariant, no event is lost, the refinement of `EventLedger` | proofs |
| `MappingProofs` | caches, generators, rows and mapping files agree; events are handled exactly once until something goes wrong; records that always raise block their partition; extends `EventPipelineProofs` | proofs |
| `FilesProofs` | no torn file, predefined mappings in place, the refinement of `MappingStore` | proofs |
| `DriftAttemptsProofs` | time, review, keywords, the conversation, unknown sources, the refinement of `DriftContract` | proofs |
| `SharedProducerProofs` | answers, the refinement of `PublishContract` | proofs |
| `RolloutProofs` | releases, files and caches | proofs |
| `ApplyMappingProofs` | casts, operations, what a stored row is, the function computed | proofs |
| `CaseMappingsProofs` | signatures, fingerprints and paths; a mapping fits its case | proofs |

How they fit: `EventPipeline` is the composition of all processes. Three of its
steps stand for code that has a model of its own, which shows what the step
assumes: `Generate` to `Commit` of the drift consumer for `DriftAttempts`
(`DriftContract`), `Accept`/`AcceptUnconfirmed`/`Refuse` for `SharedProducer`
(`PublishContract`), `Save`/`Get`/`Initialize` for `MappingFiles` (`StoreSpec`).
Two of its constants stand for pure functions: `Result` for `ApplyMapping`,
whose ends `stored`, `invalid`, `raises`, `refused` are the four outcomes (that
they are a function of event and mapping is `OutcomeIsFunction`), and `CaseOf` for
`Fingerprint` (that a case is a structure is `CaseIsStructure`).

### State and code

| Variable | In the program |
|---|---|
| `log`, `failed` | the records of `raw-events` and `schema-drift` by partition; `failed-events` as a set, nobody reads it |
| `committed` | the group's committed offset (`commit_message`) |
| `owner`, `position` | assignment, and the last record fetched, of each partition |
| `disk` | `config/mappings/generated/{case_id}.json` |
| `cache` | `_mappings_by_case_id` of each process |
| `pc`, `part`, `offset`, `held` | the call a process makes next, its record, the mapping in its local variable |
| `db` | the rows: which mapping an event was normalized with |
| `reply` | what the client was told |
| `done` | history only: the last record of a partition with an outcome; no guard reads it |
| `crashes`, `evictions`, `repeats`, `outages` | the bounds below; they only limit how often those actions fire |

### Steps and code

`process_raw_message` is `RawMiss`, `RawApply`, `RawInvalid` or
`RawApplyRaises` (`get` and the pure `apply_mapping`), then `ForwardToDrift`,
`ForwardToFailed`, `StoreEvent` or `StoreRaises`, then `Commit`.
`process_drift_message` is `DriftLookup`, then `Generate`, `GenerateFails` or
`GenerateRaises`, `SaveMapping`, `ForwardToRaw` or `ForwardToFailed`, and
`Commit`. A step is one call on something shared; between two steps any other
process may run, and `Crash` may end this one. `Start`, `Poll` and `PollNothing`
are the loop in `run`, `Leave` its `finally`.

`Crash` stands for a signal, a kill, and for every exception that leaves
`run` because something outside failed: broker, database, AI service, file
system. "Failed after its effect" is the step followed by `Crash`; "failed
without effect" is `Crash` before the step. An exception the data causes
(`OverflowError` in `_multiply`, `NormalizedEventStorageError`) is not bounded
by `MaxCrashes`: it is `RawApplyRaises`, `GenerateRaises`, `StoreRaises`, and
`FailedTooLarge` for a `FailedEvent` over the producer's `message.max.bytes`.

`Result[e][m]` abstracts `apply_mapping`, which is a pure function: `"ok"`,
`"invalid"` (a `MappingEngineError`), `"raises"` (another exception), or
`"unstorable"` (a normalized event that `repository.save` refuses: a number
wider than the column, a date-time the converters do not accept).

What the model takes from Kafka, external to the code:

* A rebalance is served inside `poll`, so partitions move while no member is in
  the middle of a record of theirs (`CanRebalance`), except by eviction
  (`Evict`): session timeout, or more than `max.poll.interval.ms` between polls.
* The coordinator checks a commit by member and generation. A member evicted
  and not yet aware may have its commit accepted (`Commit`) or refused
  (`CommitRefused`, which raises and ends the process).
* A partition that changes hands is read from the committed offset.
* An acknowledged record is not lost, and partitions are not added.
* The producer may send a batch again after its acknowledgement was lost, and
  without `enable.idempotence` the broker keeps it again (`RepeatRecord`). The
  model lets any record be repeated at any time, which is more than a resend does.

A power failure (`PowerFails`) ends all consumers and may undo the rename of any
set of mapping files. That is more than the file system does, which writes the
directory back sooner or later, and it is what `MappingFiles` allows. Broker and
database keep what they acknowledged.

`EventPipeline` uses the mapping directory through the operators of
`MappingStore`, where `Save` and `Get` are one step each. `MappingFiles` has
them call by call (`WriteTemporary`, `SyncTemporary`, `Replace`, `Remember`;
`OpenListed` or `OpenMissing`, `Load`; `Begin`, `SavePredefined`, `ListFiles`,
`Started` for `initialize`), and shows that they take effect in one step: a save
with its rename, a load when its file is opened (`StoreSpec`, the mapping
`remembered`). Its `durable` is what a name may hold after a power failure: the
rename is not forced to disk, so the old entry may be back.

Two places where a step of the pipeline is larger than the calls it stands for.
`Initialize` is atomic; in the code it is a sequence of the saves and loads
above. A mapping another process saves meanwhile may or may not be loaded; if it
is not, the first `get` finds the file, so no `Lookup` tells the two apart.
That holds while the predefined mappings are the same for all; where they are
not, `Rollout` has `initialize` in three steps.
`AcceptUnconfirmed` answers 503 and appends in one step; in `SharedProducer` the
record arrives when it likes.

**The attempts.** `AIClient` has `generate_mapping` as actions on its local
state: `Ask`, `Answer`, the checks, the review, `GiveUp`. An answer of the model
is one value; constants say whether it parses, what it sets and copies, and
whether it holds a blocked keyword. A message of the conversation is its role and
the answer it repeats, or, for a correction, the one it speaks of: `last_error`
is about the last answer, so `Ask` takes `content`. `DriftAttempts` puts it between `Poll` and
`Commit` for one record and one consumer, with `elapsed` for the time since the
poll: each request, publish and commit adds anything up to its limit, all else
takes no time. `RequestFails` and `Crash` end the process, which starts again
with the same record.

**The shared producer.** FastAPI runs `create_event` on a thread per request;
all use the one producer of the application. `message` is what the library
holds of a request's message, `report` the closure of `on_delivery`, which any
thread in `flush` may call (`Serve`). `flush` returns when nothing of any
thread is left. The network keeps, delays and loses what it likes.

**Releases.** `ReadPredefined`, `SavePredefined`, `LoadFiles` are the three parts
of `initialize`; a process keeps in `loaded` which release it read. The API is a
raw worker here: it only looks mappings up (`resolve_mapping`). `QuietReleases`
says how an operator installs a release: with the drift consumers stopped and no
process in the middle of its start, or at any time.

**Signatures.** A field name is the sequence of its dot-separated parts, so that
the join of paths (`Join`) and the split of `_resolve_path` (`Resolve`) do what
they do to the strings. A payload is the JSON type found at each position, the
sequence of names that leads there, and what is inside a field is inside an
object: the recursion of `add_paths` into objects is quantification over
positions. `PathOf` is the path the recursion arrives at a position with, each
level joining the path of the one above; `PositionOf` is where `_resolve_path`
looks a path up. `FingerprintOf` has for each path the types listed under it, in
the order of the traversal, which the stable sort keeps; more than one type means
a name with a dot. The hash is taken as free of collisions. A predefined
signature gets its fingerprint from the same operator.

**Values.** Integers are unbounded; floats are counted in halves up to
`FloatMax`, with infinities and NaN beyond; a text is one of the kinds the casts,
the schema and the database distinguish. `edge` is a date-time that the schema's
format accepts and `fromisoformat` does not; `nul` a text PostgreSQL refuses.
`Kind` gives each target of the schema its kind: an amount (number, minimum 0,
`Numeric` column), text, label, required text, time. The `category` enumeration
is a required text whose value comes from the static fields.

## 3. Properties and runs

| Run | Instance | Properties | States |
|---|---|---|---|
| `delivery` | 3 events (one of an unsupported source, one with a `FailedEvent` too large), 1 case, 1 raw and 2 drift consumers, a crash or an eviction, every outcome of `apply_mapping` | `NoEventLost`, `DeliveryInv`, `ExactlyOnceInv`, `LedgerSpec` | 237 000 |
| `mappings` | 2 events of 2 cases on 2 schema-drift partitions, 2 drift consumers, a case that is predefined over an old generated file, 1 crash, 1 repeated record | `CachesAreCoherent`, `PredefinedRows`, `GenerateOnlyUnmapped`, `OneGeneratorPerCase`, `RowsFollowMapping`, `MappingsInv`, `MappingsAreWriteOnce` | 1 214 000 |
| `progress` | 2 events, 1 case, 1 drift consumer, 1 power failure, fairness | `EventuallyResolved`, `PartitionsDrain` | 234 000 |
| `files` | 2 processes, a predefined case and another, 2 kills, 1 power failure | `FilesAreWhole`, `PredefinedLoaded`, `FilesInv`, `StoreSpec` | 62 000 |
| `attempts` | 8 answers (one for each way to fail, two good), 3 attempts, 2 faults, fairness | `PollsInTime`, `SavedWasReviewed`, `RequestsAreScreened`, `EveryRejectionIsTold`, `AttemptsInv`, `ContractSpec`, `RecordCommitted` | 1 003 000 |
| `shared_producer` | 3 requests, room for 2 messages, 4 sends, 1 end of the process, fairness | `RefusedForOwnFailure`, `ProducerInv`, `ContractSpec`, `EveryRequestAnswered` | 163 000 |
| `rollout` | 3 releases, API, raw consumer, 2 drift consumers, 2 cases, quiet releases | `StartupPriority`, `RolloutConverges`, `RolloutInv`, `ResolveIsStable` | 13 000 |
| `case_mappings` | payloads of depth 2 over 2 names, 2 leaf types and objects, signatures over 4 paths, 1 mapping | `MappingFitsItsCase`, `PredefinedIsReachable`, `CaseInv` | 1 214 000 |
| `apply_mapping` | 36 payloads, fields of up to 2 operations of 7 | `TypesFollowStructure`, `TextRoundTrip`, `RowsAreClean`, `ApplyInv`, `OutcomeIsFunction` | 88 000 |
| `failed_not_stored` | 1 event, 1 crash | `FailedNotStored`: violated | |
| `unstorable` | 1 event, fairness, no mapping gives a storable event | `EventuallyResolved`: violated | |
| `exclusive` | 1 event, 2 drift consumers, 1 eviction | `PartitionsAreExclusive`: violated | |

* `NoEventLost`: an event answered 202 is stored, on `failed-events`, or has a
  record its group has not committed.
* `LedgerSpec`: the pipeline implements `EventLedger`. Events wait, and stop
  waiting only with an outcome; a row is written once and never changes;
  `failed-events` only grows. Delivery is at least once: an event with an
  outcome may wait again.
* `ExactlyOnceInv`: what it takes for that. As long as no process is killed or
  evicted, no record repeated and no machine lost, each event is in one place
  only: one record that waits, or a row, or `failed-events`. Rebalances, orderly
  exits, and the exits of `run` on exceptions no handler catches do not end it.
* `CachesAreCoherent`, `GenerateOnlyUnmapped`, `OneGeneratorPerCase`,
  `MappingsAreWriteOnce`, `RowsFollowMapping`: although the caches are never
  invalidated and the drift consumer checks long before it writes, a case has one
  mapping and every row of the case was made with it.
* `PredefinedRows`: a row of a case with a predefined mapping was made with that
  mapping, not with what an earlier release left in the directory, and not with
  what a drift consumer proposes. It holds with every fault of the model; that
  each running process has the mapping (`PredefinedHasPriority`) is part of
  `MappingsInv`.
* `FilesAreWhole`, `PredefinedLoaded`, `StoreSpec`: whatever is killed, and when
  the power fails, no file is torn; whoever has started works with the
  predefined mappings; the calls on the file system implement `MappingStore`.
* `PollsInTime`: with 3 attempts of 2 requests the drift consumer polls before
  it would be evicted. `SavedWasReviewed`: what is saved is the answer the review
  let pass, not one of an earlier attempt. `RequestsAreScreened`: no model is asked
  about a payload with a blocked keyword, and no proposal with one reaches the
  review. It does not say that nothing blocked is sent: an answer joins the
  conversation before it is checked (`client.py:144-147`), and the next attempt
  sends the whole conversation, so the mapping model gets its own blocked answers
  back, each followed by the message that rejects it. `EveryRejectionIsTold` says
  the same of every rejected answer, and counts the rejections. `ContractSpec`:
  whatever the AI answers, the handler saves one acceptable mapping or none, and
  commits only after the event went where it belongs. `RecordCommitted`: it
  does commit, if the AI does not go on proposing mappings that make
  `apply_mapping` raise; but a record of a source that is not configured, unless
  it is blocked, is never published or committed: each delivery ends the process.
* `RefusedForOwnFailure`, `EveryRequestAnswered`, `ContractSpec`: threads that
  share a producer, wait for each other's messages and run each other's
  callbacks still get their own answers.
* `StartupPriority`, `RolloutConverges`, `ResolveIsStable`: predefined mappings
  win at a start; processes restarted on a release agree; a running process
  does not change its mind.
* `MappingFitsItsCase`: a mapping checked against one event, or against a
  signature only, finds its field, of the same type, in all events of the case.
  `PredefinedIsReachable`: a signature that passes validation belongs to some
  payload. `TypesFollowStructure`: the types of a result depend on the types of
  the payload only, so this extends to what is computed from the field.
  `CaseInv`: what a mapping reads is in the fingerprint of its case, with its type.
* `OutcomeIsFunction`: working field by field and operation by operation, the
  engine ends as a function of payload and mapping says, with the row it says. So an
  event delivered again with the same mapping ends as before, and `Result` may be
  a constant of the pipeline. Only the order of failing fields matters: the first
  one decides between `MappingEngineError` and `OverflowError`.
* `TextRoundTrip`, `RowsAreClean`: casts through text lose nothing; whatever
  passes schema and converters is finite, in range and complete.
* `EventuallyResolved`, `PartitionsDrain`: the round trip through
  `schema-drift` ends, and every handler reaches its commit.

**Bounds.** In `attempts` three attempts are those of the configuration; times
are in units of a request, a publish or commit takes at most one (10 s against
30 s) and `MaxPollInterval = 8` is the least that `TimeAssumption` allows (the
configuration has 30 units); two faults give a failure in the redelivery too.
In `shared_producer` three requests and two places make one wait, one be served
by another and one meet the full queue; four sends let a message be resent. The
queue that fills is there for the branch `except BufferError` of the code: with the
library's default of 100 000 messages some forty threads do not fill it. In
`rollout` the second release makes a case predefined, the third drops one and
changes the other, the three things a release can do to a case. Depth two in
`case_mappings` is the least with a path to join; deeper ones join the same way.
In `apply_mapping` `FloatMax = 4` and `ColumnMax = 2` put values on both sides of
each limit and let a product pass both; two operations are the least in which one
meets the result of another.

In `files` two drift consumers are the smallest number of processes
that can save the same case at once (a raw consumer does what a drift consumer
does, except save); a second kill lets one be killed again after its restart.
In the other runs, one case and one partition put all events in one queue, where a
commit of one record can pass another; two events are enough for an offset to
be one too far, the third is there for the 422 answer. Two drift consumers are the
smallest group in which a partition changes hands; two cases and two partitions the smallest
in which both members work at once. One crash or one eviction gives each
interruption point, its redelivery, and the duplicate that follows; the
theorems cover any number of them. `OneFault` takes either in a behaviour of
`delivery`, not both, for the size of the state space. In `mappings` the repeated
record comes at any time, also after its event was resolved. In `progress` the
power fails at any call; it ends every process, so a crash of all of them is
among its outcomes. Two mappings are the smallest number with two
different answers of the AI. In `delivery` the first event applies with one
mapping and raises with the other; the second raises with one and is
unstorable with the other; in the other runs the first mapping fits the first
event only, so a mapping generated for one event meets an event it does not fit.
`delivery` and `mappings` take drift consumers for symmetric, as nothing names one
and no property there is a liveness property; events and mappings are not, because
`Result` tells them apart. The API accepts each event at most once: a new request is a
new `event_id`.

**Fairness.** `Run(w)`: a process that can take its next step takes it. The
loops in `run` never wait for anything but `poll(1.0)` and calls with
timeouts. It includes `Start`: a process that ended is started again.
`docker-compose.yml` runs only PostgreSQL and Kafka, so this is an assumption
on whoever operates the consumers, and a weak one: without it nothing can be
promised. `AssignFree`: the coordinator gives a free partition to some polling
member; the run has one consumer in each group, which is not busy while its
partition is free, so weak fairness is enough. Nothing forces requests, crashes,
power failures, evictions, rebalances, or a good answer of the AI:
`GenerateFails` is always possible and an event may end on `failed-events`.
Liveness needs storable events (`unstorable`) and a `FailedEvent` that can be
sent (section 4). In `attempts`, `WF(Work)`: the process goes on, and is started
again. In `shared_producer`, `WF(Thread(r))`: a thread in `flush` serves reports and returns
when it may; `WF(Expire(r))`: `delivery.timeout.ms` is set, so each message is
settled. The network owes nothing. Requests are finite: with an endless stream of
them `flush` might never find the queue empty.

**Deadlock** is checked in all runs but `shared_producer`, where everything ends
when all requests have their answers. A polling process can always poll again, so
the system never stops.

## 4. Findings

1. `failed_not_stored`. README.md:220 has failed events go to `failed-events`
   "rather than stored". The drift consumer publishes the failure, dies before
   the commit, gets the record again, and this time the AI's proposal is valid.
   Without such a disturbance it cannot happen: `FailedNotStoredUndisturbed`.
2. `unstorable`. What the schema accepts and the database does not (a number
   beyond `Numeric(30, 10)`, `models.py:49-53`) raises an exception that
   `process_raw_message` does not handle. The process restarts on the same
   record for ever, and everything behind it waits. For a case with a predefined
   mapping this is proved of every behaviour (`RaisingRecordsBlock`): no commit
   ever passes such a record, whatever is restarted, rebalanced or evicted, and
   the same holds of the exceptions of the first and third of the four places
   below.
3. `exclusive`. README.md:136 has the consumer group prevent two consumers from
   processing one partition concurrently. It does between polls; a consumer
   evicted during its AI calls is not fenced, and may save a mapping beside the
   new owner. No event is lost (`delivery`), and predefined mappings keep their
   priority (`PredefinedWins`), but the other mapping properties hold only up to
   the first eviction. An eviction is all it takes, and nothing less does:
   `ExclusiveWithoutEvictions`.

Four more places where the models reach a state the documentation does not
expect. No run shows them; the properties are stated for the rest.

* A `FailedEvent` is larger than the event it wraps. Over the producer's size
  limit it cannot be published (`FailedTooLarge`), and no handler expects that:
  the loop of finding 2 again (`RaisingRecordsBlock`). `progress` has `Oversized = {}`.
* A field named `a.b` and a field `b` inside `a` have one signature
  (`fingerprint.py:41`): the event of the one shape gets the mapping of the other,
  whose path does not exist in it, and fails instead of going to `schema-drift`.
  `case_mappings` has names without dots; with the name `<<"a", "b">>` in
  `KeyOrder` `MappingFitsItsCase` is false. The theorems about cases assume
  `PlainNames`, no dot and no empty name, which the code does not check; the one
  about predefined signatures does not need it.
* An integer beyond the floats times a float raises `OverflowError`
  (`mapping_engine.py:205`), which is no `MappingEngineError` and ends the
  consumers: the end `raises` of `ApplyMapping`, and `RaisingRecordsBlock` again.
* A drift consumer of the release before may save its generated mapping between
  the save of the predefined ones and the load of the files by a process of the
  new release, which then works with the generated one: `Rollout` with
  `QuietReleases = FALSE`, where `StartupPriority` is false. With the drift
  consumers stopped at a release it cannot happen (`rollout`, and its theorem).

## 5. Proofs

Everything below holds for any sets of events, cases, processes, partitions
and mappings, any `Result`, any bounds. Assumed are the named `ASSUME`s only:
`DeploymentAssumption` (a process is of one group), `TopicsAssumption` (a topic
has its own partitions, `raw-events` at least one, the key decides the
partition), `StoreAssumption`, `PipelineAssumption`, `FilesAssumption` (the
types of the constants, `Null` and `Torn` are not mappings), `ClientAssumption`,
`AttemptsAssumption`, `ProducerAssumption`, `ReleasesAssumption` (types),
`ApplyAssumption` (payloads of values, mappings over the targets of the schema),
`FloatAssumption` (there are floats), `FingerprintAssumption` (field names are
listed once), `SignaturesAssumption` (a declared signature is made of entries), and
`TimeAssumption`: two requests an attempt, a publish and a commit fit into
`max.poll.interval.ms`. TLC evaluates them in every run. What `TimeAssumption`
leaves to the reader: `timeout_seconds` bounds each read of a response and not
the whole request, so `RequestTime` is an assumption on the AI service.

| Theorem | Statement |
|---|---|
| `DeliveryIsInvariant`, `TypeCorrect` | `Spec => []DeliveryInv`, `Spec => []TypeOK` |
| `NoEventIsLost` | `Spec => []NoEventLost`, with crashes, evictions, repeated records and power failures |
| `ImplementsLedger` | `Spec => LedgerSpec`, with the same |
| `HandledExactlyOnce` | `Spec => []ExactlyOnceInv`: each event in one place until a crash, eviction, repeated record or power failure |
| `FailedNotStoredUndisturbed` | `Spec => []FailedNotStored`, if none of those may happen |
| `PredefinedWins`, `PredefinedRowsAreRight` | `PredefinedHasPriority`, `PredefinedRows`, with crashes, evictions, repeated records and power failures |
| `RaisingRecordsBlock` | `Spec => []RaisingRecordBlocks`: no commit passes a record whose predefined mapping ends in an exception nothing handles, with the same |
| `MappingsUntilEviction`, `MappingsAreInvariant` | `Spec => [](evictions = 0 => MappingsInv)`, hence `[]MappingsInv` if `MaxEvictions = 0` |
| `ExclusiveWithoutEvictions` | `Spec => []PartitionsAreExclusive`, if `MaxEvictions = 0` |
| `FilesAreInvariant`, `FilesStayWhole`, `PredefinedStayLoaded` | `FilesInv`, `FilesAreWhole`, `PredefinedLoaded`, with any number of kills and power failures |
| `ImplementsStore` | `Spec => StoreSpec` in `MappingFiles` |
| `CachesStayCoherent`, `GeneratorsFindNoMapping`, `GeneratorsDoNotRace` | `CachesAreCoherent`, `GenerateOnlyUnmapped`, `OneGeneratorPerCase`, if `MaxEvictions = 0` |
| `RowsFollowTheirMapping`, `MappingsNeverChange` | `RowsFollowMapping`, `MappingsAreWriteOnce`, if `MaxEvictions = 0` and `MaxOutages = 0` |
| `AttemptsAreInvariant`, `PollInTime`, `OnlyReviewedIsSaved`, `RequestsScreened` | `AttemptsInv`, `PollsInTime`, `SavedWasReviewed`, `RequestsAreScreened` |
| `AttemptsTypes`, `RejectionsAreTold` | `TypeOK`, `EveryRejectionIsTold`, for any number of attempts |
| `UnknownSourcesStay` | `Spec => []UnknownSourceStays`, the first part of `RecordCommitted` |
| `KeepsContract` | `Spec => ContractSpec` in `DriftAttempts` |
| `ProducerIsInvariant`, `RefusedAlone` | `ProducerInv`, `RefusedForOwnFailure` |
| `KeepsPublishContract` | `Spec => ContractSpec` in `SharedProducer` |
| `RolloutIsInvariant`, `PredefinedHavePriority`, `RolloutsConverge` | `RolloutInv`, `StartupPriority`, `RolloutConverges`, if `QuietReleases` |
| `ResolvesAreStable` | `Spec => ResolveIsStable`, for any releases |
| `ApplyIsInvariant`, `EngineTypes` | `Spec => []ApplyInv`, `Spec => []TypeOK` in `ApplyMapping`, for any payloads and mappings, with any number of fields and operations |
| `StructureGivesTypes`, `TextLosesNothing` | `TypesFollowStructure`, `TextRoundTrip` |
| `StoredRowsAreClean`, `StoredRowsAreComplete` | `RowsAreClean`; a stored row has exactly the static fields and the targets of its mapping |
| `OutcomesAreFunctions` | `Spec => []OutcomeIsFunction`, for any number of fields and operations |
| `CaseIsStructure` | payloads with one fingerprint are the same function from positions to types, of any depth, if `PlainNames` |
| `CasesAreInvariant`, `MappingsFitTheirCases` | `CaseInv`, `MappingFitsItsCase`, if `PlainNames` |
| `PredefinedAreReachable` | `Spec => []PredefinedIsReachable`, for any names |

**Delivery.** `NoEventLost` is not inductive: it does not say why a commit may
pass what it passes. `DeliveryInv` adds `done`, the last record of a partition
with an outcome, and three facts: the committed offset is at most `done`;
whoever works on a record, owner or not, is at most one past `done`, and not
past it once it commits; the owner has fetched no further than `done`, plus the
record it works on. Then any commit, also one of a consumer that lost the
partition, is safe, and an event with no outcome has a record beyond `done`,
hence beyond every committed offset. Type correctness is part of the invariant:
that the record handled exists (`RecordInOrder`) is what makes reading it type
correct. Steps are grouped by what they change (publish, store, leave, request,
loop, mapping), a lemma each.

**Ledger.** An event waits in the ledger when it has a record beyond `done`.
An outcome moves `done` by one and removes at most the event handled, which had
its outcome in the same step; a lookup, a crash, a commit or a rebalance is a
stutter.

**Exactly once.** That a failed event is not stored is not inductive either: why
would the drift consumer not handle an event that failed before? Because the
event has no record left. `HandledOnce` says that an event has at most one
record without an outcome (`OneRecordWaits`), none once it is resolved, and
neither record nor outcome before its answer. A publish keeps this only if the
record handled is the first without an outcome of its partition, so that moving
`done` past it takes the old record away as the new one comes: `WorksOnNext`.
This in turn needs the offsets in step: who commits commits `done`, and
`committed` lags behind `done` only while a process is on its way to the commit,
so whoever a partition is assigned to starts at the first record without an
outcome. The exits on exceptions no handler catches leave before the outcome,
with nothing done. A crash between outcome and commit breaks `CommitCatchesUp`, an
eviction `OwnersKeep`, a repeated record `OneRecordWaits`; the counters of these
actions are the hypothesis, so the theorem speaks of each behaviour up to its first
disturbance.

**Predefined.** `PredefinedInv` needs no owner, no partition and no order of
events, and so survives everything: the predefined mapping is on disk once any
process has started, each running process has it in memory, hence no process
that looked a mapping up goes on to generate one for such a case
(`PredefinedNotGenerated`), and `save` writes no other case. A rename that a power
failure undoes is made again at the start that follows. A row is written some steps
after the lookup, when the process may have lost its partition and others may
have restarted: `PredefinedHeld` carries the mapping from the one to the other in
the local variable, and `PredefinedRows` follows with it.

**Records that raise.** `RaisingRecordBlocks` is about the committed offset, which
moves long after the record was handled. `RaisingInv` adds that the record has
no outcome (`done` is before it), and that a consumer working on it is at its
lookup or on the way to one of the three exceptions: it cannot miss, since its
process has the predefined mapping, so it cannot send the event to
`schema-drift`. With `DeliveryInv`, no commit is past `done`.

**Mappings.** `MappingsInv` adds to the stated properties that a process at
work owns its partition (`OwnersKeep`, which an eviction breaks) and that a
record of `schema-drift` is on the partition of its case (`DriftKeyed`). Two
generators of one case would then own one partition, so the long check-then-act
of `process_drift_message` acts as one step: nobody can have saved, or cached,
a mapping of the case meanwhile. Until the first eviction all of it holds, in
instances with evictions too. Rows follow because a generated file is never
replaced and a predefined one is in place before any row.

**Files.** `FilesInv` says that nothing torn has a name (a rename comes after
the fsync of what it names), that only the predefined mapping of a case is ever
saved for it, and, for each process in `initialize`, that every predefined case
is either still to be saved, being saved, or in place in file and memory; no
later save of another process can undo that. For `StoreSpec` it adds that what
is loaded was not in memory, or is there as in its file. The save is the rename
and the load the opening of the file; all other steps are stutters.

**Attempts.** `PollsInTime` is not inductive: it does not say how much time is
left. `WithinBudget` counts the requests answered since the poll from `attempt`
and `step`, bounds `elapsed` by their limits in each branch of the handler, and
`TimeAssumption` does the rest. `ChecksHold` carries what a check found to the
step that relies on it: `content` is not replaced between the check, the review
and the save. With `BranchFollowsDisk` (a branch was chosen by the mapping on
disk, which only this handler writes) each step is one of `DriftContract` or a
stutter.

`ConversationInv` has, after each answer in the conversation but the last, the
correction that speaks of it (`Corrected`), and the last one's as soon as the next
attempt asks: an answer at the end of the conversation is the one at hand
(`LastIsContent`), which is what the correction of a rejection speaks of.
`EveryRejectionIsTold` then holds by counting, whatever the number of attempts, and
`RequestsAreScreened` with it: the review's answer ends the conversation, and has
passed the keyword check (`ChecksHold`).

**Values.** `Cast` and `Multiply` are proved kind by kind (`StringCast`,
`IntegerCast`, ..., `MultiplyGives`): what each gives for a value of each type,
and that it stays a value. The text of a value determines the value
(`CastOfText`), which is `TextRoundTrip`.

**Apply.** `RowsAreClean` is not inductive: `ApplyInv` adds which field and
operation are at work, that the protected names are neither targets nor static
fields, and that what passed the schema, then the converters, is what is saved.
`TypesFollowStructure` states the type of a result by a trace of types, one for
each operation, that exists for the field; the trace grows by one element in each
step, so no induction over the list of operations is needed. `OutcomeInv` compares
the steps with a function instead: `Results` is the recursive function of the values
of a field, and the fields done and the operations done of the field at work have
the values it gives (`ComputedSoFar`). When a field fails, all before it did not, so
it is the first that fails (`FailingFieldDecides`); when none does, the row is
`RowOf`, which takes the targets in no order, since they are distinct.

**Cases.** A path must lead back to the position it was made from. `PathOf` is a
recursive function, and what it gives for a position of any length is proved by
induction. The library's induction rules take an operator, which these provers
cannot use; `LeastNumber` (any set of numbers has a least one, from the
well-foundedness of `<`) does the same with sets: the set of lengths at which
the claim fails has no least element. That the recursive equation of `PathOf`,
and of `Results`, has a solution at all is proved in the same way. For plain
names, then, the paths of a payload are distinct and each has one type, so a
fingerprint determines the payload (`CaseIsStructure`), and `CaseInv`, which says
what the fingerprint of its case says of a mapping's path, is what `Resolve` finds in
any payload of the case. For `PredefinedIsReachable` the payload is built: the
listed entries at the positions of their paths, which is a payload because parents
are listed and are objects.

**Producer.** `ProducerInv` says that a request's message is in the producer from
`produce` until its report is served (`MessageTracked`), so `flush`, which
returns with nothing pending, returns with the request's own report in its
closure; and that a report "delivered" is said only of a record the broker has.
`Produce` to `Serve` stutter, `Arrive` is `Keep`, `Flush` is the answer.

**Rollout.** With the drift consumers down at a release, whoever writes files is
of the current release (`WritersAreCurrent`), so what a current process has saved
is on disk (`DiskIsCurrent`) and what it has in memory is what is on disk
(`CurrentIsCoherent`). A save by a drift consumer of an older release breaks this
otherwise.
`ResolvesAreStable` needs types only: the cache of a running process is written by
`get` and by the save after a miss.

Only model-checked: the liveness properties `EventuallyResolved`,
`PartitionsDrain`, `RecordCommitted`, `EveryRequestAnswered`, as fairness and
`ENABLED` are out of the prover's reach. Every invariant and action property of
the passing runs, and every refinement, is stated by a theorem.

## 6. Not modelled

* `get_test_events`, `health`: they read and change nothing.
* The bytes of a message: every record was written by the same code, so
  decoding succeeds. A format left by an older version would end the consumer at
  each delivery.
* What an operator does to the files: a generated mapping deleted under running
  processes. No code deletes one.
* Loss of acknowledged records or of the database.
* The parsing of an AI answer, the words of the blacklist, the wording of
  prompts and errors, logging.
* A mapping that copies `source`; numbers as texts of more than 4300 digits,
  which Python refuses to convert; floats as bits (products are exact here).
* Validation of requests by pydantic, secrets, paths, the creation of the table.

## 7. Plan

Done: the pipeline and its ledger, the mapping files, the AI client in the drift
consumer, the shared producer, releases, signatures, values, machine faults, and
the proofs of section 5. What could follow, most useful first:

1. Progress with evictions and with two drift consumers (strong fairness of the
   coordinator), on an instance small enough for it.
2. `Result` of the pipeline instantiated with `Outcome` of `ApplyMapping`, and
   `CaseOf` with `FingerprintOf`, in one instance.
3. Two sources with one structure, and a source removed from the configuration
   while its events wait, with the records behind them in the partition
   (`RecordCommitted` has one record).
