----------------------------- MODULE MappingProofs -----------------------------
(***************************************************************************)
(* The mapping properties of EventPipeline, which all but the priority of  *)
(* the predefined mappings need owners that keep their partitions; that    *)
(* records which always raise block their partition; and that until        *)
(* something goes wrong each event is in one place only.                   *)
(***************************************************************************)
EXTENDS EventPipelineProofs

--------------------------------------------------------------------------------
(***************************************************************************)
(* One process per partition, one partition per case.                      *)
(***************************************************************************)
\* Steps of one process that keep it on its record.
LEMMA StayKeepsOwners ==
    ASSUME TypeOK, OwnersKeep, NEW w \in Workers, NEW label \in Busy, IsBusy(w),
           Goto(w, label), UNCHANGED <<owner, part>>
    PROVE  OwnersKeep'
<1>1. \A v \in Workers : IsBusy(v)' => IsBusy(v)
  BY DEF Goto, TypeOK, IsBusy
<1>2. QED
  BY <1>1 DEF OwnersKeep

\* A process that leaves gives up its own partitions only.
LEMMA LeaveKeepsOwners ==
    ASSUME TypeOK, OwnersKeep, \A v \in Workers : IsBusy(v) => part[v] \in Partitions,
           NEW w \in Workers, Leave(w)
    PROVE  OwnersKeep'
<1>1. /\ pc'[w] = "down"
      /\ \A v \in Workers \ {w} : pc'[v] = pc[v] /\ part'[v] = part[v]
      /\ \A p \in Partitions : owner'[p] = IF owner[p] = w THEN Null ELSE owner[p]
  BY DEF Leave, Goto, Release, TypeOK
<1>2. QED
  BY <1>1 DEF OwnersKeep, IsBusy, Busy

\* No step but an eviction takes a partition from a process at work on it.
LEMMA OwnersStep ==
    ASSUME DeliveryInv, OwnersKeep, \A w \in Workers : ~ Evict(w), Next
    PROVE  OwnersKeep'
<1>1. TypeOK
  BY DEF DeliveryInv
<1>2. \A v \in Workers :
          IsBusy(v) => part[v] \in Partitions /\ part[v] \in GroupPartitions(v)
  BY <1>1, EventAtFacts DEF DeliveryInv, RecordInOrder
<1>3. ASSUME NEW e \in Events, Api(e)
      PROVE  OwnersKeep'
  BY <1>3 DEF Api, Accept, AcceptUnconfirmed, Refuse, Reject, apiUnchanged, workerVars,
              OwnersKeep, IsBusy
<1>4. ASSUME NEW w \in Workers, Run(w) \/ Crash(w) \/ Evict(w)
      PROVE  OwnersKeep'
  <2>1. CASE RawMiss(w) \/ RawApply(w) \/ RawInvalid(w) \/ StoreEvent(w)
             \/ DriftLookup(w) \/ Generate(w) \/ GenerateFails(w) \/ SaveMapping(w)
             \/ ForwardToDrift(w) \/ ForwardToRaw(w) \/ ForwardToFailed(w)
    <3>1. PICK label \in Busy : Goto(w, label)
      BY <2>1 DEF RawMiss, RawApply, RawInvalid, LookupStep, StoreEvent, DriftLookup, Generate,
         GenerateFails, SaveMapping, ForwardToDrift, ForwardToRaw, ForwardToFailed, Busy, Goto
    <3>2. IsBusy(w) /\ UNCHANGED <<owner, part>>
      BY <2>1 DEF RawMiss, RawApply, RawInvalid, LookupStep, StoreEvent, DriftLookup, Generate,
         GenerateFails, SaveMapping, ForwardToDrift, ForwardToRaw, ForwardToFailed,
         publishUnchanged, topicVars, IsBusy, Busy
    <3>3. QED
      BY <1>1, <3>1, <3>2, StayKeepsOwners
  <2>2. CASE Crash(w) \/ CommitRefused(w) \/ RawApplyRaises(w) \/ StoreRaises(w)
             \/ GenerateRaises(w) \/ FailedTooLarge(w)
    BY <1>1, <1>2, <2>2, LeaveKeepsOwners
    DEF Crash, CommitRefused, RawApplyRaises, StoreRaises, GenerateRaises, FailedTooLarge
  <2>3. CASE Evict(w)
    BY <2>3
  <2>4. CASE Start(w) \/ PollNothing(w)
    <3>1. \A v \in Workers : pc'[v] = pc[v] \/ pc'[v] = "poll"
      BY <1>1, <2>4 DEF Start, PollNothing, Goto, vars, workerVars, TypeOK
    <3>2. UNCHANGED <<owner, part>>
      BY <2>4 DEF Start, PollNothing, topicVars, vars, workerVars
    <3>3. QED
      BY <3>1, <3>2 DEF OwnersKeep, IsBusy, Busy
  <2>5. CASE Commit(w)
    <3>1. /\ pc'[w] = "poll" /\ owner' = owner
          /\ \A v \in Workers \ {w} : pc'[v] = pc[v] /\ part'[v] = part[v]
      BY <1>1, <2>5 DEF Commit, Goto, TypeOK
    <3>2. QED
      BY <3>1 DEF OwnersKeep, IsBusy, Busy
  <2>6. ASSUME NEW p \in Partitions, Poll(w, p)
        PROVE  OwnersKeep'
    <3>1. /\ part'[w] = p /\ owner[p] = w /\ owner' = owner
          /\ \A v \in Workers \ {w} : pc'[v] = pc[v] /\ part'[v] = part[v]
      BY <1>1, <2>6 DEF Poll, HasRecord, Goto, TypeOK
    <3>2. QED
      BY <3>1 DEF OwnersKeep, IsBusy
  <2>7. QED
    BY <1>4, <2>1, <2>2, <2>3, <2>4, <2>5, <2>6 DEF Run, RawStep, DriftStep
<1>5. ASSUME NEW p \in Partitions, NEW w \in Workers, Coordinator(p, w)
      PROVE  OwnersKeep'
  <2>1. /\ owner' = [owner EXCEPT ![p] = w]
        /\ p \in GroupPartitions(w)
        /\ CanRebalance(w)
        /\ UNCHANGED <<pc, part>>
    BY <1>5 DEF Coordinator, AssignFree, Rebalance, Assign, groupUnchanged, workerVars
  <2>2. ASSUME NEW v \in Workers, IsBusy(v)
        PROVE  part[v] # p
    <3> SUFFICES ASSUME part[v] = p
                 PROVE  FALSE
      OBVIOUS
    <3>1. Holds(v, p)
      BY <2>2 DEF OwnersKeep, Holds
    <3>2. v \in Group(w)
      BY <1>2, <2>1, <2>2, TopicsAssumption DEF GroupPartitions, Group, Workers
    <3>3. QED
      BY <2>1, <3>1, <3>2 DEF CanRebalance
  <2>3. QED
    BY <1>1, <1>2, <2>1, <2>2 DEF OwnersKeep, IsBusy, TypeOK, TopicsTypeOK
<1>6. ASSUME NEW p \in Partitions, RepeatRecord(p)
      PROVE  OwnersKeep'
  BY <1>6 DEF RepeatRecord, workerVars, OwnersKeep, IsBusy
<1>7. CASE PowerFails
  BY <1>7 DEF PowerFails, OwnersKeep, IsBusy, Busy
<1>8. QED
  BY <1>3, <1>4, <1>5, <1>6, <1>7 DEF Next

\* Only the key decides where in schema-drift a record goes.
LEMMA KeyedStep ==
    ASSUME DeliveryInv, DeliveryInv', DriftKeyed, Next
    PROVE  DriftKeyed'
<1>1. TypeOK /\ TypeOK'
  BY DEF DeliveryInv
<1>2. ASSUME NEW q \in Partitions, NEW e \in Events, AppendRecord(q, e),
             q \in DriftPartitions => q = KeyPartition[CaseOf[e]]
      PROVE  DriftKeyed'
  <2>1. log \in [Partitions -> Seq(Events)] /\ log' = [log EXCEPT ![q] = Append(@, e)]
    BY <1>1, <1>2 DEF AppendRecord, TypeOK, TopicsTypeOK
  <2>2. \A p \in Partitions : p # q => log'[p] = log[p]
    BY <2>1
  <2>3. /\ \A i \in 1..Len(log[q]) : log'[q][i] = log[q][i]
        /\ \A i \in 1..Len(log'[q]) : i \in 1..Len(log[q]) \/ log'[q][i] = e
    BY <2>1, AppendFacts
  <2>4. ASSUME NEW p \in DriftPartitions, NEW i \in 1..Len(log'[p])
        PROVE  KeyPartition[CaseOf[log'[p][i]]] = p
    <3>1. CASE p = q
      BY <1>2, <2>3, <3>1 DEF DriftKeyed
    <3>2. CASE p # q
      BY <2>2, <3>2 DEF DriftKeyed, Partitions
    <3>3. QED
      BY <3>1, <3>2
  <2>5. QED
    BY <2>4 DEF DriftKeyed
<1>3. ASSUME NEW e \in Events, PublishRaw(e)
      PROVE  DriftKeyed'
  BY <1>2, <1>3, TopicsAssumption DEF PublishRaw, Partitions
<1>4. CASE log' = log
  BY <1>4 DEF DriftKeyed
<1>5. ASSUME NEW e \in Events, Api(e)
      PROVE  DriftKeyed'
  BY <1>3, <1>4, <1>5 DEF Api, Accept, AcceptUnconfirmed, Refuse, Reject
<1>6. ASSUME NEW w \in Workers, ForwardToDrift(w) \/ ForwardToRaw(w)
      PROVE  DriftKeyed'
  <2>1. EventAt(w) \in Events
    BY <1>1, <1>6, EventAtFacts
    DEF ForwardToDrift, ForwardToRaw, DeliveryInv, IsBusy, Busy
  <2>2. KeyPartition[CaseOf[EventAt(w)]] \in Partitions
    BY <2>1, DeploymentAssumption, TopicsAssumption DEF Partitions
  <2>3. QED
    BY <1>2, <1>3, <1>6, <2>1, <2>2 DEF ForwardToDrift, ForwardToRaw, PublishDrift
<1>7. ASSUME NEW w \in Workers, Run(w) \/ Crash(w) \/ Evict(w),
             ~ (ForwardToDrift(w) \/ ForwardToRaw(w))
      PROVE  log' = log
  BY <1>7
  DEF Run, RawStep, DriftStep, Start, Poll, PollNothing, Commit, CommitRefused, RawMiss,
      RawApply, RawInvalid, LookupStep, RawApplyRaises, StoreEvent, StoreRaises,
      DriftLookup, Generate, GenerateFails, GenerateRaises, SaveMapping, ForwardToFailed,
      PublishFailed, FailedTooLarge, Crash, Evict, Leave, groupUnchanged, topicVars, vars
<1>8. ASSUME NEW p \in Partitions, NEW w \in Workers, Coordinator(p, w)
      PROVE  log' = log
  BY <1>8 DEF Coordinator, AssignFree, Rebalance, groupUnchanged
<1>9. ASSUME NEW p \in Partitions, RepeatRecord(p)
      PROVE  DriftKeyed'
  <2>1. PICK i \in 1..Len(log[p]) : AppendRecord(p, log[p][i])
    BY <1>9 DEF RepeatRecord
  <2>2. log[p][i] \in Events
    BY <1>1, RecordIsEvent
  <2>3. p \in DriftPartitions => p = KeyPartition[CaseOf[log[p][i]]]
    BY DEF DriftKeyed
  <2>4. QED
    BY <1>2, <2>1, <2>2, <2>3
<1>10. QED
  BY <1>4, <1>5, <1>6, <1>7, <1>8, <1>9 DEF Next, PowerFails

--------------------------------------------------------------------------------
(***************************************************************************)
(* Caches and files.  Most steps leave the files alone and take at most    *)
(* one process further; what they must respect is Moved.                   *)
(***************************************************************************)
Unmoved(v) ==
    /\ pc'[v] = pc[v] /\ held'[v] = held[v] /\ cache'[v] = cache[v]
    /\ IsBusy(v) => EventAt(v)' = EventAt(v)

Moved(v) ==
    /\ pc'[v] = "down" => \A c \in Cases : cache'[v][c] = Null
    /\ pc'[v] # "down" =>
           pc[v] # "down" /\ \A c \in Cases : cache'[v][c] \in {cache[v][c], disk[c]}
    /\ pc'[v] \in {"generate", "save"} =>
           v \in DriftWorkers /\ disk[CaseOf[EventAt(v)']] = Null
    /\ pc'[v] = "store" => v \in RawWorkers /\ held'[v] = disk[CaseOf[EventAt(v)']]

\* A step that writes no file and no row keeps MappingsInv if each process stays
\* on its record, or moves on with what the directory holds.
LEMMA FrameKeepsMappings ==
    ASSUME MappingsInv, OwnersKeep', DriftKeyed', UNCHANGED <<disk, db, outages>>,
           \A v \in Workers : Unmoved(v) \/ Moved(v)
    PROVE  MappingsInv'
<1>1. \A v \in Workers : pc'[v] # "down" => pc[v] # "down"
  BY DEF Unmoved, Moved
<1>2. PredefinedOnDisk'
  BY <1>1 DEF MappingsInv, PredefinedOnDisk
<1>3. PredefinedHasPriority'
  <2> SUFFICES ASSUME NEW v \in Workers, NEW c \in DOMAIN Predefined, pc'[v] # "down"
               PROVE  cache'[v][c] = Predefined[c]
    BY DEF PredefinedHasPriority
  <2>1. pc[v] # "down" /\ cache[v][c] = Predefined[c] /\ disk[c] = Predefined[c]
    BY <1>1 DEF MappingsInv, PredefinedHasPriority, PredefinedOnDisk
  <2>2. c \in Cases
    BY StoreAssumption
  <2>3. QED
    BY <2>1, <2>2 DEF Unmoved, Moved
<1>4. NothingCachedWhenDown'
  BY DEF MappingsInv, NothingCachedWhenDown, Unmoved, Moved
<1>5. CachesAreCoherent'
  BY DEF MappingsInv, CachesAreCoherent, Unmoved, Moved
<1>6. GeneratorsAreDrift'
  BY DEF MappingsInv, GeneratorsAreDrift, Unmoved, Moved
<1>7. GenerateOnlyUnmapped'
  <2> SUFFICES ASSUME NEW v \in Workers, pc'[v] \in {"generate", "save"}
               PROVE  disk[CaseOf[EventAt(v)']] = Null
    BY DEF GenerateOnlyUnmapped, EventAt
  <2>1. CASE Unmoved(v)
    BY <2>1 DEF Unmoved, MappingsInv, GenerateOnlyUnmapped, IsBusy, Busy
  <2>2. CASE Moved(v)
    BY <2>2 DEF Moved
  <2>3. QED
    BY <2>1, <2>2
<1>8. StoredMappingIsCurrent'
  <2> SUFFICES ASSUME NEW v \in Workers, pc'[v] = "store"
               PROVE  v \in RawWorkers /\ held'[v] = disk[CaseOf[EventAt(v)']]
    BY DEF StoredMappingIsCurrent, EventAt
  <2>1. CASE Unmoved(v)
    BY <2>1 DEF Unmoved, MappingsInv, StoredMappingIsCurrent, IsBusy, Busy
  <2>2. CASE Moved(v)
    BY <2>2 DEF Moved
  <2>3. QED
    BY <2>1, <2>2
<1>9. RowsInv'
  BY DEF MappingsInv, RowsInv, RowsAfterStart, RowsFollowMapping
<1>10. QED
  BY <1>2, <1>3, <1>4, <1>5, <1>6, <1>7, <1>8, <1>9 DEF MappingsInv

\* A record stays where it is while topics grow.
LEMMA EventAtStays ==
    ASSUME DeliveryInv, NEW v \in Workers, IsBusy(v),
           part'[v] = part[v], offset'[v] = offset[v],
           \A p \in Partitions : \A i \in 1..Len(log[p]) : log'[p][i] = log[p][i]
    PROVE  EventAt(v)' = EventAt(v)
<1>1. RecordInOrder(v) /\ part[v] \in Partitions
  BY EventAtFacts DEF DeliveryInv
<1>2. QED
  BY <1>1 DEF RecordInOrder, EventAt

\* No step moves a record.
LEMMA LogsOnlyGrow ==
    ASSUME DeliveryInv, Next
    PROVE  \A p \in Partitions : \A i \in 1..Len(log[p]) : log'[p][i] = log[p][i]
<1> DEFINE Grown == \A p \in Partitions : \A i \in 1..Len(log[p]) : log'[p][i] = log[p][i]
<1>1. ASSUME NEW q \in Partitions, NEW e \in Events, AppendRecord(q, e)
      PROVE  Grown
  <2>1. log \in [Partitions -> Seq(Events)] /\ log' = [log EXCEPT ![q] = Append(@, e)]
    BY <1>1 DEF AppendRecord, DeliveryInv, TypeOK, TopicsTypeOK
  <2>2. QED
    BY <2>1, AppendFacts
<1>2. ASSUME NEW e \in Events, PublishRaw(e)
      PROVE  Grown
  BY <1>1, <1>2 DEF PublishRaw, Partitions
<1>3. ASSUME NEW e \in Events, Api(e)
      PROVE  Grown
  BY <1>2, <1>3 DEF Api, Accept, AcceptUnconfirmed, Refuse, Reject
<1>4. ASSUME NEW w \in Workers, ForwardToDrift(w) \/ ForwardToRaw(w)
      PROVE  Grown
  <2>1. EventAt(w) \in Events
    BY <1>4, EventAtFacts DEF ForwardToDrift, ForwardToRaw, DeliveryInv, IsBusy, Busy
  <2>2. KeyPartition[CaseOf[EventAt(w)]] \in Partitions
    BY <2>1, DeploymentAssumption, TopicsAssumption DEF Partitions
  <2>3. QED
    BY <1>1, <1>2, <1>4, <2>1, <2>2 DEF ForwardToDrift, ForwardToRaw, PublishDrift
<1>5. ASSUME NEW w \in Workers, Run(w) \/ Crash(w) \/ Evict(w),
             ~ (ForwardToDrift(w) \/ ForwardToRaw(w))
      PROVE  log' = log
  BY <1>5
  DEF Run, RawStep, DriftStep, Start, Poll, PollNothing, Commit, CommitRefused, RawMiss,
      RawApply, RawInvalid, LookupStep, RawApplyRaises, StoreEvent, StoreRaises,
      DriftLookup, Generate, GenerateFails, GenerateRaises, SaveMapping, ForwardToFailed,
      PublishFailed, FailedTooLarge, Crash, Evict, Leave, groupUnchanged, topicVars, vars
<1>6. ASSUME NEW p \in Partitions, NEW w \in Workers, Coordinator(p, w)
      PROVE  log' = log
  BY <1>6 DEF Coordinator, AssignFree, Rebalance, groupUnchanged
<1>7. ASSUME NEW p \in Partitions, RepeatRecord(p)
      PROVE  Grown
  <2>1. PICK i \in 1..Len(log[p]) : AppendRecord(p, log[p][i])
    BY <1>7 DEF RepeatRecord
  <2>2. log[p][i] \in Events
    BY RecordIsEvent DEF DeliveryInv
  <2>3. QED
    BY <1>1, <2>1, <2>2
<1>8. QED
  BY <1>3, <1>4, <1>5, <1>6, <1>7 DEF Next, PowerFails

\* Only a power failure counts as one.
LEMMA OutagesStay ==
    ASSUME Next, ~ PowerFails
    PROVE  outages' = outages
<1>1. ASSUME NEW e \in Events, Api(e)
      PROVE  outages' = outages
  BY <1>1 DEF Api, Accept, AcceptUnconfirmed, Refuse, Reject, apiUnchanged, boundVars
<1>2. ASSUME NEW w \in Workers, Run(w) \/ Crash(w) \/ Evict(w)
      PROVE  outages' = outages
  BY <1>2
  DEF Run, RawStep, DriftStep, Start, Poll, PollNothing, Commit, CommitRefused, RawMiss,
      RawApply, RawInvalid, LookupStep, RawApplyRaises, StoreEvent, StoreRaises,
      DriftLookup, Generate, GenerateFails, GenerateRaises, SaveMapping, ForwardToDrift,
      ForwardToRaw, ForwardToFailed, publishUnchanged, FailedTooLarge, Crash, Evict,
      boundVars, vars
<1>3. ASSUME NEW p \in Partitions, NEW w \in Workers, Coordinator(p, w)
      PROVE  outages' = outages
  BY <1>3 DEF Coordinator, AssignFree, Rebalance, boundVars
<1>4. ASSUME NEW p \in Partitions, RepeatRecord(p)
      PROVE  outages' = outages
  BY <1>4 DEF RepeatRecord
<1>5. QED
  BY <1>1, <1>2, <1>3, <1>4 DEF Next

\* get returns the mapping on disk, from memory or not.
LEMMA LookupIsCurrent ==
    ASSUME CachesAreCoherent, NEW w \in Workers, NEW c \in Cases
    PROVE  Lookup(w, c) = disk[c]
  BY DEF CachesAreCoherent, Lookup

\* The steps of a process that leave files and rows alone.
LEMMA FramedStep ==
    ASSUME DeliveryInv, MappingsInv, Next, NEW w \in Workers,
           Run(w) \/ Crash(w),
           ~ (Start(w) \/ PollNothing(w) \/ SaveMapping(w) \/ StoreEvent(w))
    PROVE  /\ UNCHANGED <<disk, db>>
           /\ \A v \in Workers : Unmoved(v) \/ Moved(v)
<1>1. TypeOK
  BY DEF DeliveryInv
<1>2. ASSUME NEW v \in Workers, IsBusy(v), part'[v] = part[v], offset'[v] = offset[v]
      PROVE  EventAt(v)' = EventAt(v)
  BY <1>2, LogsOnlyGrow, EventAtStays
<1>3. ASSUME IsBusy(w)
      PROVE  EventAt(w) \in Events /\ CaseOf[EventAt(w)] \in Cases
  BY <1>1, <1>3, EventAtFacts, DeploymentAssumption DEF DeliveryInv
<1>4. ASSUME UNCHANGED <<disk, db>>,
             \A v \in Workers \ {w} :
                 /\ pc'[v] = pc[v] /\ held'[v] = held[v] /\ cache'[v] = cache[v]
                 /\ part'[v] = part[v] /\ offset'[v] = offset[v],
             Moved(w)
      PROVE  /\ UNCHANGED <<disk, db>>
             /\ \A v \in Workers : Unmoved(v) \/ Moved(v)
  BY <1>2, <1>4 DEF Unmoved
<1>5. CASE (\E p \in Partitions : Poll(w, p)) \/ Commit(w)
  <2>1. /\ pc'[w] \in {"lookup", "poll"} /\ pc[w] # "down" /\ cache' = cache
        /\ UNCHANGED <<disk, db>>
        /\ \A v \in Workers \ {w} :
               /\ pc'[v] = pc[v] /\ held'[v] = held[v] /\ cache'[v] = cache[v]
               /\ part'[v] = part[v] /\ offset'[v] = offset[v]
    BY <1>1, <1>5 DEF Poll, Commit, Goto, storeVars, TypeOK
  <2>2. Moved(w)
    BY <2>1 DEF Moved
  <2>3. QED
    BY <1>4, <2>1, <2>2
<1>6. CASE ForwardToDrift(w) \/ ForwardToRaw(w) \/ ForwardToFailed(w) \/ GenerateFails(w)
  <2>1. /\ pc'[w] \in {"commit", "to_failed"} /\ pc[w] # "down" /\ cache' = cache
        /\ UNCHANGED <<disk, db, part, offset, held>>
        /\ \A v \in Workers \ {w} : pc'[v] = pc[v]
    BY <1>1, <1>6 DEF ForwardToDrift, ForwardToRaw, ForwardToFailed, GenerateFails, Goto,
       publishUnchanged, storeVars, TypeOK
  <2>2. Moved(w)
    BY <2>1 DEF Moved
  <2>3. QED
    BY <1>4, <2>1, <2>2
<1>7. CASE Crash(w) \/ CommitRefused(w) \/ RawApplyRaises(w) \/ StoreRaises(w)
           \/ GenerateRaises(w) \/ FailedTooLarge(w)
  <2>1. Leave(w)
    BY <1>7 DEF Crash, CommitRefused, RawApplyRaises, StoreRaises, GenerateRaises,
       FailedTooLarge
  <2>2. /\ pc'[w] = "down" /\ cache'[w] = [c \in Cases |-> Null]
        /\ UNCHANGED <<disk, db>>
        /\ \A v \in Workers \ {w} :
               /\ pc'[v] = pc[v] /\ held'[v] = held[v] /\ cache'[v] = cache[v]
               /\ part'[v] = part[v] /\ offset'[v] = offset[v]
    BY <1>1, <2>1 DEF Leave, Forget, Goto, TypeOK, StoreTypeOK
  <2>3. Moved(w)
    BY <2>2 DEF Moved
  <2>4. QED
    BY <1>4, <2>2, <2>3
<1>8. CASE RawMiss(w) \/ RawApply(w) \/ RawInvalid(w) \/ DriftLookup(w)
  <2>1. IsBusy(w) /\ pc[w] = "lookup"
    BY <1>8 DEF RawMiss, RawApply, RawInvalid, LookupStep, DriftLookup, IsBusy, Busy
  <2>2. /\ Get(w, CaseOf[EventAt(w)])
        /\ UNCHANGED <<part, offset, db>>
        /\ \A v \in Workers \ {w} : pc'[v] = pc[v] /\ held'[v] = held[v]
    BY <1>1, <1>8
    DEF RawMiss, RawApply, RawInvalid, LookupStep, DriftLookup, Goto, TypeOK
  <2>3. /\ disk' = disk
        /\ \A v \in Workers \ {w} : cache'[v] = cache[v]
        /\ \A c \in Cases : cache'[w][c] \in {cache[w][c], disk[c]}
    BY <1>1, <1>3, <2>1, <2>2 DEF Get, Lookup, TypeOK, StoreTypeOK
  <2>4. Lookup(w, CaseOf[EventAt(w)]) = disk[CaseOf[EventAt(w)]]
    BY <1>3, <2>1, LookupIsCurrent DEF MappingsInv
  <2>5. EventAt(w)' = EventAt(w)
    BY <1>2, <2>1, <2>2
  <2>6. \/ pc'[w] \in {"to_drift", "to_failed", "to_raw"}
        \/ /\ pc'[w] = "store" /\ w \in RawWorkers
           /\ held'[w] = disk[CaseOf[EventAt(w)]]
        \/ /\ pc'[w] = "generate" /\ w \in DriftWorkers
           /\ disk[CaseOf[EventAt(w)]] = Null
    <3>1. CASE RawMiss(w) \/ RawInvalid(w)
      BY <1>1, <3>1 DEF RawMiss, RawInvalid, LookupStep, Goto, TypeOK
    <3>2. CASE RawApply(w)
      BY <1>1, <2>4, <3>2 DEF RawApply, LookupStep, Goto, TypeOK
    <3>3. CASE DriftLookup(w)
      BY <1>1, <2>4, <3>3 DEF DriftLookup, Goto, TypeOK
    <3>4. QED
      BY <1>8, <3>1, <3>2, <3>3
  <2>7. Moved(w)
    BY <2>1, <2>3, <2>5, <2>6 DEF Moved
  <2>8. QED
    BY <1>4, <2>2, <2>3, <2>7
<1>9. CASE Generate(w)
  <2>1. IsBusy(w) /\ pc[w] = "generate"
    BY <1>9 DEF Generate, IsBusy, Busy
  <2>2. /\ pc'[w] = "save" /\ cache' = cache
        /\ UNCHANGED <<disk, db, part, offset>>
        /\ \A v \in Workers \ {w} : pc'[v] = pc[v] /\ held'[v] = held[v]
    BY <1>1, <1>9 DEF Generate, Goto, storeVars, TypeOK
  <2>3. EventAt(w)' = EventAt(w)
    BY <1>2, <2>1, <2>2
  <2>4. w \in DriftWorkers /\ disk[CaseOf[EventAt(w)]] = Null
    BY <2>1 DEF MappingsInv, GeneratorsAreDrift, GenerateOnlyUnmapped
  <2>5. Moved(w)
    BY <2>1, <2>2, <2>3, <2>4 DEF Moved
  <2>6. QED
    BY <1>4, <2>2, <2>5
<1>10. QED
  BY <1>5, <1>6, <1>7, <1>8, <1>9 DEF Run, RawStep, DriftStep

\* A process that starts puts the predefined mappings in place; if another runs
\* already, they were.
LEMMA StartKeepsMappings ==
    ASSUME DeliveryInv, MappingsInv, OwnersKeep', DriftKeyed', outages' = outages,
           NEW w \in Workers, Start(w)
    PROVE  MappingsInv'
<1>1. TypeOK
  BY DEF DeliveryInv
<1>2. /\ pc[w] = "down" /\ pc'[w] = "poll"
      /\ disk' = WithPredefined(disk) /\ cache'[w] = disk'
      /\ UNCHANGED <<db, held, part, offset, log>>
      /\ \A v \in Workers \ {w} : pc'[v] = pc[v] /\ cache'[v] = cache[v]
  BY <1>1 DEF Start, Initialize, Goto, topicVars, TypeOK, StoreTypeOK
<1>3. /\ \A c \in DOMAIN Predefined : c \in Cases /\ disk'[c] = Predefined[c]
      /\ \A c \in Cases \ DOMAIN Predefined : disk'[c] = disk[c]
  BY <1>2, StoreAssumption DEF WithPredefined
<1>4. (\A v \in Workers : pc[v] = "down") \/ (\A c \in Cases : disk'[c] = disk[c])
  BY <1>3 DEF MappingsInv, PredefinedOnDisk
<1>5. PredefinedOnDisk'
  BY <1>3 DEF PredefinedOnDisk
<1>6. PredefinedHasPriority'
  BY <1>2, <1>3 DEF MappingsInv, PredefinedHasPriority
<1>7. NothingCachedWhenDown'
  BY <1>2 DEF MappingsInv, NothingCachedWhenDown
<1>8. CachesAreCoherent'
  <2> SUFFICES ASSUME NEW v \in Workers, NEW c \in Cases
               PROVE  cache'[v][c] \in {Null, disk'[c]}
    BY DEF CachesAreCoherent
  <2>1. CASE v = w
    BY <1>2, <2>1
  <2>2. CASE v # w /\ pc[v] = "down"
    BY <1>2, <2>2 DEF MappingsInv, NothingCachedWhenDown
  <2>3. CASE v # w /\ pc[v] # "down"
    BY <1>2, <1>4, <2>3 DEF MappingsInv, CachesAreCoherent
  <2>4. QED
    BY <2>1, <2>2, <2>3
<1>9. ASSUME NEW v \in Workers, pc'[v] \in {"generate", "save", "store"}
      PROVE  /\ v # w /\ pc'[v] = pc[v] /\ held'[v] = held[v]
             /\ EventAt(v)' = EventAt(v)
             /\ disk'[CaseOf[EventAt(v)]] = disk[CaseOf[EventAt(v)]]
  <2>1. v # w /\ pc'[v] = pc[v] /\ held'[v] = held[v] /\ EventAt(v)' = EventAt(v)
    BY <1>2, <1>9 DEF EventAt
  <2>2. IsBusy(v)
    BY <1>9, <2>1 DEF IsBusy, Busy
  <2>3. CaseOf[EventAt(v)] \in Cases
    BY <1>1, <2>2, EventAtFacts, DeploymentAssumption DEF DeliveryInv
  <2>4. pc[v] # "down"
    BY <1>9, <2>1
  <2>5. QED
    BY <1>4, <2>1, <2>3, <2>4
<1>10. GeneratorsAreDrift'
  BY <1>9 DEF MappingsInv, GeneratorsAreDrift
<1>11. GenerateOnlyUnmapped'
  <2> SUFFICES ASSUME NEW v \in Workers, pc'[v] \in {"generate", "save"}
               PROVE  disk'[CaseOf[EventAt(v)']] = Null
    BY DEF GenerateOnlyUnmapped, EventAt
  <2>1. QED
    BY <1>9 DEF MappingsInv, GenerateOnlyUnmapped
<1>12. StoredMappingIsCurrent'
  <2> SUFFICES ASSUME NEW v \in Workers, pc'[v] = "store"
               PROVE  v \in RawWorkers /\ held'[v] = disk'[CaseOf[EventAt(v)']]
    BY DEF StoredMappingIsCurrent, EventAt
  <2>1. QED
    BY <1>9 DEF MappingsInv, StoredMappingIsCurrent
<1>13. RowsInv'
  <2> SUFFICES ASSUME outages = 0
               PROVE  RowsAfterStart' /\ RowsFollowMapping'
    BY DEF RowsInv
  <2>1. RowsAfterStart'
    BY <1>3 DEF RowsAfterStart
  <2>2. ASSUME NEW e \in Events, db[e] # Null
        PROVE  db[e] = disk'[CaseOf[e]]
    <3>1. CaseOf[e] \in Cases /\ db[e] = disk[CaseOf[e]]
      BY <2>2, DeploymentAssumption DEF MappingsInv, RowsInv, RowsFollowMapping
    <3>2. QED
      BY <1>3, <2>2, <3>1 DEF MappingsInv, RowsInv, RowsAfterStart
  <2>3. QED
    BY <1>2, <2>1, <2>2 DEF RowsFollowMapping
<1>14. QED
  BY <1>5, <1>6, <1>7, <1>8, <1>10, <1>11, <1>12, <1>13 DEF MappingsInv

\* Two generators of one case would work on one partition.
LEMMA GeneratorIsAlone ==
    ASSUME DeliveryInv, MappingsInv, NEW v \in Workers, NEW w \in Workers,
           pc[v] \in {"generate", "save"}, pc[w] \in {"generate", "save"},
           CaseOf[EventAt(v)] = CaseOf[EventAt(w)]
    PROVE  v = w
<1>1. ASSUME NEW u \in Workers, pc[u] \in {"generate", "save"}
      PROVE  owner[KeyPartition[CaseOf[EventAt(u)]]] = u
  <2>1. IsBusy(u) /\ u \in DriftWorkers
    BY <1>1 DEF IsBusy, Busy, MappingsInv, GeneratorsAreDrift
  <2>2. RecordInOrder(u) /\ owner[part[u]] = u
    BY <2>1 DEF DeliveryInv, MappingsInv, OwnersKeep
  <2>3. part[u] \in DriftPartitions
    BY <2>1, <2>2, DeploymentAssumption DEF RecordInOrder, GroupPartitions
  <2>4. KeyPartition[CaseOf[EventAt(u)]] = part[u]
    BY <2>2, <2>3 DEF RecordInOrder, MappingsInv, DriftKeyed, EventAt
  <2>5. QED
    BY <2>2, <2>4
<1>2. QED
  BY <1>1

\* A generator saves where nothing is, and nobody has looked past that.
LEMMA SaveKeepsMappings ==
    ASSUME DeliveryInv, MappingsInv, OwnersKeep', DriftKeyed', outages' = outages,
           NEW w \in Workers, SaveMapping(w)
    PROVE  MappingsInv'
<1> DEFINE case == CaseOf[EventAt(w)]
<1>1. TypeOK /\ pc[w] = "save" /\ IsBusy(w)
  BY DEF DeliveryInv, SaveMapping, IsBusy, Busy
<1>2. case \in Cases
  BY <1>1, EventAtFacts, DeploymentAssumption DEF DeliveryInv
<1>3. disk[case] = Null
  BY <1>1 DEF MappingsInv, GenerateOnlyUnmapped
<1>4. \A c \in DOMAIN Predefined : disk[c] = Predefined[c]
  BY <1>1 DEF MappingsInv, PredefinedOnDisk
<1>5. case \notin DOMAIN Predefined
  BY <1>3, <1>4, StoreAssumption
<1>6. /\ pc'[w] = "to_raw"
      /\ disk'[case] = held[w]
      /\ \A c \in Cases \ {case} : disk'[c] = disk[c] /\ cache'[w][c] = cache[w][c]
      /\ cache'[w][case] = held[w]
      /\ UNCHANGED <<db, held, part, offset, log>>
      /\ \A v \in Workers \ {w} : pc'[v] = pc[v] /\ cache'[v] = cache[v]
  <2>1. disk' = [disk EXCEPT ![case] = held[w]]
    BY DEF SaveMapping, Save
  <2>2. cache' = [cache EXCEPT ![w][case] = held[w]]
    BY DEF SaveMapping, Save
  <2>3. pc' = [pc EXCEPT ![w] = "to_raw"] /\ UNCHANGED <<db, held, part, offset, log>>
    BY DEF SaveMapping, Goto, topicVars
  <2>4. /\ disk \in [Cases -> Mappings \cup {Null}]
        /\ cache \in [Workers -> [Cases -> Mappings \cup {Null}]]
        /\ pc \in [Workers -> Busy \cup {"down", "poll"}]
    BY <1>1 DEF TypeOK, StoreTypeOK
  <2> HIDE DEF case
  <2>5. QED
    BY <1>2, <2>1, <2>2, <2>3, <2>4
<1>7. \A v \in Workers : EventAt(v)' = EventAt(v)
  BY <1>6 DEF EventAt
<1>8. PredefinedOnDisk'
  BY <1>4, <1>5, <1>6, StoreAssumption DEF PredefinedOnDisk
<1>9. PredefinedHasPriority'
  <2> SUFFICES ASSUME NEW v \in Workers, NEW c \in DOMAIN Predefined, pc'[v] # "down"
               PROVE  cache'[v][c] = Predefined[c]
    BY DEF PredefinedHasPriority
  <2>1. c \in Cases \ {case}
    BY <1>5, StoreAssumption
  <2>2. pc[v] # "down"
    BY <1>1, <1>6
  <2>3. cache'[v][c] = cache[v][c]
    BY <1>6, <2>1
  <2>4. QED
    BY <2>2, <2>3 DEF MappingsInv, PredefinedHasPriority
<1>10. NothingCachedWhenDown'
  BY <1>6 DEF MappingsInv, NothingCachedWhenDown
<1>11. CachesAreCoherent'
  <2> SUFFICES ASSUME NEW v \in Workers, NEW c \in Cases
               PROVE  cache'[v][c] \in {Null, disk'[c]}
    BY DEF CachesAreCoherent
  <2>1. cache[v][c] \in {Null, disk[c]}
    BY DEF MappingsInv, CachesAreCoherent
  <2>2. CASE c # case
    BY <1>6, <2>1, <2>2
  <2>3. CASE c = case
    BY <1>3, <1>6, <2>1, <2>3
  <2>4. QED
    BY <2>2, <2>3
<1>12. GeneratorsAreDrift'
  BY <1>6 DEF MappingsInv, GeneratorsAreDrift
<1>13. GenerateOnlyUnmapped'
  <2> SUFFICES ASSUME NEW v \in Workers, pc'[v] \in {"generate", "save"}
               PROVE  disk'[CaseOf[EventAt(v)]] = Null
    BY <1>7 DEF GenerateOnlyUnmapped, EventAt
  <2>1. v # w /\ pc[v] \in {"generate", "save"}
    BY <1>6
  <2>2. CaseOf[EventAt(v)] # case
    BY <1>1, <2>1, GeneratorIsAlone
  <2>3. CaseOf[EventAt(v)] \in Cases
    BY <1>1, <2>1, EventAtFacts, DeploymentAssumption DEF DeliveryInv, IsBusy, Busy
  <2>4. QED
    BY <1>6, <2>1, <2>2, <2>3 DEF MappingsInv, GenerateOnlyUnmapped
<1>14. StoredMappingIsCurrent'
  <2> SUFFICES ASSUME NEW v \in Workers, pc'[v] = "store"
               PROVE  v \in RawWorkers /\ held[v] = disk'[CaseOf[EventAt(v)]]
    BY <1>6, <1>7 DEF StoredMappingIsCurrent, EventAt
  <2>1. v # w /\ pc[v] = "store"
    BY <1>6
  <2>2. /\ v \in RawWorkers /\ held[v] = disk[CaseOf[EventAt(v)]]
        /\ held[v] # Null
    BY <2>1 DEF MappingsInv, StoredMappingIsCurrent, DeliveryInv, MappingHeld
  <2>3. CaseOf[EventAt(v)] \in Cases
    BY <1>1, <2>1, EventAtFacts, DeploymentAssumption DEF DeliveryInv, IsBusy, Busy
  <2>4. QED
    BY <1>3, <1>6, <2>2, <2>3
<1>15. RowsInv'
  <2> SUFFICES ASSUME outages = 0
               PROVE  RowsAfterStart' /\ RowsFollowMapping'
    BY DEF RowsInv
  <2>1. ASSUME NEW e \in Events, db[e] # Null
        PROVE  disk'[CaseOf[e]] = disk[CaseOf[e]]
    <3>1. CaseOf[e] \in Cases /\ db[e] = disk[CaseOf[e]]
      BY <2>1, DeploymentAssumption DEF MappingsInv, RowsInv, RowsFollowMapping
    <3>2. QED
      BY <1>3, <1>6, <2>1, <3>1
  <2>2. QED
    BY <1>6, <2>1 DEF MappingsInv, RowsInv, RowsAfterStart, RowsFollowMapping
<1>16. QED
  BY <1>8, <1>9, <1>10, <1>11, <1>12, <1>13, <1>14, <1>15 DEF MappingsInv

\* The row is written with the mapping the case still has.
LEMMA StoreKeepsMappings ==
    ASSUME DeliveryInv, MappingsInv, OwnersKeep', DriftKeyed', outages' = outages,
           NEW w \in Workers, StoreEvent(w)
    PROVE  MappingsInv'
<1>1. TypeOK /\ pc[w] = "store" /\ IsBusy(w)
  BY DEF DeliveryInv, StoreEvent, IsBusy, Busy
<1>2. PICK e \in Events : e = EventAt(w)
  BY <1>1, EventAtFacts DEF DeliveryInv
<1>3. held[w] = disk[CaseOf[e]]
  BY <1>1, <1>2 DEF MappingsInv, StoredMappingIsCurrent
<1>4. /\ pc'[w] = "commit"
      /\ \A v \in Workers \ {w} : pc'[v] = pc[v]
      /\ db' = [db EXCEPT ![e] = IF @ = Null THEN held[w] ELSE @]
      /\ UNCHANGED <<disk, cache, held, part, offset, log>>
  BY <1>1, <1>2 DEF StoreEvent, Goto, topicVars, storeVars, TypeOK
<1>5. \A v \in Workers : EventAt(v)' = EventAt(v)
  BY <1>4 DEF EventAt
<1>6. \A c \in DOMAIN Predefined : disk[c] = Predefined[c]
  BY <1>1 DEF MappingsInv, PredefinedOnDisk
<1>7. PredefinedOnDisk'
  BY <1>4, <1>6 DEF PredefinedOnDisk
<1>8. RowsInv'
  <2>1. RowsAfterStart'
    BY <1>4, <1>6 DEF RowsAfterStart
  <2>2. RowsFollowMapping => RowsFollowMapping'
    BY <1>1, <1>3, <1>4 DEF RowsFollowMapping, TypeOK
  <2>3. QED
    BY <2>1, <2>2 DEF MappingsInv, RowsInv
<1>9. PredefinedHasPriority' /\ NothingCachedWhenDown' /\ CachesAreCoherent'
  BY <1>1, <1>4
  DEF MappingsInv, PredefinedHasPriority, NothingCachedWhenDown, CachesAreCoherent
<1>10. GeneratorsAreDrift'
  BY <1>4 DEF MappingsInv, GeneratorsAreDrift
<1>11. GenerateOnlyUnmapped'
  <2> SUFFICES ASSUME NEW v \in Workers, pc'[v] \in {"generate", "save"}
               PROVE  disk[CaseOf[EventAt(v)]] = Null
    BY <1>4, <1>5 DEF GenerateOnlyUnmapped, EventAt
  <2>1. QED
    BY <1>4 DEF MappingsInv, GenerateOnlyUnmapped
<1>12. StoredMappingIsCurrent'
  <2> SUFFICES ASSUME NEW v \in Workers, pc'[v] = "store"
               PROVE  v \in RawWorkers /\ held[v] = disk[CaseOf[EventAt(v)]]
    BY <1>4, <1>5 DEF StoredMappingIsCurrent, EventAt
  <2>1. QED
    BY <1>4 DEF MappingsInv, StoredMappingIsCurrent
<1>13. QED
  BY <1>7, <1>8, <1>9, <1>10, <1>11, <1>12 DEF MappingsInv

--------------------------------------------------------------------------------
\* The invariant holds before anything runs: no process has started yet.
LEMMA MappingsInit == Init => MappingsInv
<1> SUFFICES ASSUME Init
             PROVE  MappingsInv
  OBVIOUS
<1>1. /\ \A w \in Workers : pc[w] = "down" /\ ~ IsBusy(w)
      /\ \A w \in Workers, c \in Cases : cache[w][c] = Null
      /\ \A e \in Events : db[e] = Null
      /\ \A p \in Partitions : Len(log[p]) = 0
  BY DEF Init, TopicsInit, StoreInit, IsBusy, Busy
<1>2. DriftKeyed
  BY <1>1 DEF DriftKeyed, Partitions
<1>3. QED
  BY <1>1, <1>2
  DEF MappingsInv, OwnersKeep, PredefinedOnDisk, PredefinedHasPriority,
      NothingCachedWhenDown, CachesAreCoherent, GeneratorsAreDrift, GenerateOnlyUnmapped,
      StoredMappingIsCurrent, RowsInv, RowsAfterStart, RowsFollowMapping

\* A power failure stops every process and empties every memory.
LEMMA OutageKeepsMappings ==
    ASSUME TypeOK, MappingsInv, OwnersKeep', DriftKeyed', PowerFails
    PROVE  MappingsInv'
<1>1. \A w \in Workers : pc'[w] = "down"
  BY DEF PowerFails
<1>2. \A w \in Workers, c \in Cases : cache'[w][c] = Null
  BY DEF PowerFails
<1>3. outages' # 0
  BY DEF PowerFails, TypeOK
<1>4. QED
  BY <1>1, <1>2, <1>3
  DEF MappingsInv, PredefinedOnDisk, PredefinedHasPriority, NothingCachedWhenDown,
      CachesAreCoherent, GeneratorsAreDrift, GenerateOnlyUnmapped, StoredMappingIsCurrent,
      RowsInv

\* Every step preserves it, given that topics and owners are in step.
LEMMA MappingsStep ==
    ASSUME DeliveryInv, DeliveryInv', MappingsInv, [Next]_vars, \A w \in Workers : ~ Evict(w)
    PROVE  MappingsInv'
<1>1. CASE UNCHANGED vars
  <2>1. UNCHANGED <<log, owner, disk, cache, pc, part, offset, held, db, outages>>
    BY <1>1 DEF vars, topicVars, storeVars, workerVars, boundVars
  <2>2. QED
    BY <2>1
    DEF MappingsInv, OwnersKeep, DriftKeyed, PredefinedOnDisk, PredefinedHasPriority,
        NothingCachedWhenDown, CachesAreCoherent, GeneratorsAreDrift, GenerateOnlyUnmapped,
        StoredMappingIsCurrent, RowsInv, RowsAfterStart, RowsFollowMapping, IsBusy, EventAt
<1>2. CASE Next /\ PowerFails
  <2>1. OwnersKeep' /\ DriftKeyed'
    BY <1>2, OwnersStep, KeyedStep DEF MappingsInv
  <2>2. QED
    BY <1>2, <2>1, OutageKeepsMappings DEF DeliveryInv
<1>3. CASE Next /\ ~ PowerFails
  <2> outages' = outages
    BY <1>3, OutagesStay
  <2>1. OwnersKeep' /\ DriftKeyed'
    BY <1>3, OwnersStep, KeyedStep DEF MappingsInv
  <2>2. ASSUME UNCHANGED <<disk, cache, db, pc, held, part, offset>>
        PROVE  MappingsInv'
    <3>1. \A v \in Workers : IsBusy(v) => EventAt(v)' = EventAt(v)
      BY <1>3, <2>2, LogsOnlyGrow, EventAtStays
    <3>2. \A v \in Workers : Unmoved(v)
      BY <2>2, <3>1 DEF Unmoved
    <3>3. QED
      BY <2>1, <2>2, <3>2, FrameKeepsMappings
  <2>3. ASSUME NEW e \in Events, Api(e)
        PROVE  MappingsInv'
    BY <2>2, <2>3 DEF Api, Accept, AcceptUnconfirmed, Refuse, Reject, apiUnchanged,
       storeVars, workerVars
  <2>4. ASSUME NEW w \in Workers, Run(w) \/ Crash(w) \/ Evict(w)
        PROVE  MappingsInv'
    <3>1. CASE Start(w)
      BY <2>1, <3>1, StartKeepsMappings
    <3>2. CASE SaveMapping(w)
      BY <2>1, <3>2, SaveKeepsMappings
    <3>3. CASE StoreEvent(w)
      BY <2>1, <3>3, StoreKeepsMappings
    <3>4. CASE PollNothing(w) \/ Evict(w)
      BY <2>2, <3>4 DEF PollNothing, Evict, groupUnchanged, vars, storeVars, workerVars
    <3>5. CASE /\ Run(w) \/ Crash(w)
               /\ ~ (Start(w) \/ PollNothing(w) \/ SaveMapping(w) \/ StoreEvent(w))
      BY <1>3, <2>1, <3>5, FramedStep, FrameKeepsMappings
    <3>6. QED
      BY <2>4, <3>1, <3>2, <3>3, <3>4, <3>5
  <2>5. ASSUME NEW p \in Partitions, NEW w \in Workers, Coordinator(p, w)
        PROVE  MappingsInv'
    BY <2>2, <2>5 DEF Coordinator, AssignFree, Rebalance, groupUnchanged,
       storeVars, workerVars
  <2>6. ASSUME NEW p \in Partitions, RepeatRecord(p)
        PROVE  MappingsInv'
    BY <2>2, <2>6 DEF RepeatRecord, storeVars, workerVars
  <2>7. QED
    BY <1>3, <2>3, <2>4, <2>5, <2>6 DEF Next
<1>4. QED
  BY <1>1, <1>2, <1>3

--------------------------------------------------------------------------------
(***************************************************************************)
(* Predefined mappings.  Whoever owns the partitions, and whatever a power *)
(* failure undid, a process that runs has read them after saving them.     *)
(***************************************************************************)
\* A step that leaves the predefined files alone, starts no process and sends
\* none to the AI for a predefined case.
LEMMA FrameKeepsPredefined ==
    ASSUME PredefinedInv,
           \A c \in DOMAIN Predefined : disk'[c] = disk[c],
           \A v \in Workers : pc'[v] # "down" =>
               /\ pc[v] # "down"
               /\ \A c \in DOMAIN Predefined : cache'[v][c] \in {cache[v][c], disk[c]},
           \A v \in Workers : pc'[v] \in {"generate", "save"} =>
               \/ pc[v] \in {"generate", "save"} /\ EventAt(v)' = EventAt(v)
               \/ CaseOf[EventAt(v)'] \notin DOMAIN Predefined
    PROVE  PredefinedInv'
<1>1. PredefinedOnDisk'
  BY DEF PredefinedInv, PredefinedOnDisk
<1>2. PredefinedHasPriority'
  <2> SUFFICES ASSUME NEW v \in Workers, NEW c \in DOMAIN Predefined, pc'[v] # "down"
               PROVE  cache'[v][c] = Predefined[c]
    BY DEF PredefinedHasPriority
  <2>1. pc[v] # "down" /\ cache[v][c] = Predefined[c] /\ disk[c] = Predefined[c]
    BY DEF PredefinedInv, PredefinedHasPriority, PredefinedOnDisk
  <2>2. QED
    BY <2>1
<1>3. PredefinedNotGenerated'
  <2> SUFFICES ASSUME NEW v \in Workers, pc'[v] \in {"generate", "save"}
               PROVE  CaseOf[EventAt(v)'] \notin DOMAIN Predefined
    BY DEF PredefinedNotGenerated, EventAt
  <2>1. QED
    BY DEF PredefinedInv, PredefinedNotGenerated
<1>4. QED
  BY <1>1, <1>2, <1>3 DEF PredefinedInv

\* initialize saves the predefined mappings before it loads any file.
LEMMA StartKeepsPredefined ==
    ASSUME TypeOK, PredefinedInv, NEW w \in Workers, Start(w)
    PROVE  PredefinedInv'
<1>1. /\ pc'[w] = "poll" /\ disk' = WithPredefined(disk) /\ cache'[w] = disk'
      /\ UNCHANGED <<part, offset, log>>
      /\ \A v \in Workers \ {w} : pc'[v] = pc[v] /\ cache'[v] = cache[v]
  BY DEF Start, Initialize, Goto, topicVars, TypeOK, StoreTypeOK
<1>2. \A c \in DOMAIN Predefined : disk'[c] = Predefined[c]
  BY <1>1, StoreAssumption DEF WithPredefined
<1>3. PredefinedOnDisk'
  BY <1>2 DEF PredefinedOnDisk
<1>4. PredefinedHasPriority'
  BY <1>1, <1>2 DEF PredefinedInv, PredefinedHasPriority
<1>5. PredefinedNotGenerated'
  BY <1>1 DEF PredefinedInv, PredefinedNotGenerated, EventAt
<1>6. QED
  BY <1>3, <1>4, <1>5 DEF PredefinedInv

\* get of a predefined case finds its mapping in memory and changes nothing.
LEMMA LookupKeepsPredefined ==
    ASSUME DeliveryInv, PredefinedInv, NEW w \in Workers,
           RawMiss(w) \/ RawApply(w) \/ RawInvalid(w) \/ DriftLookup(w)
    PROVE  PredefinedInv'
<1> DEFINE case == CaseOf[EventAt(w)]
<1>1. TypeOK /\ IsBusy(w) /\ pc[w] = "lookup"
  BY DEF RawMiss, RawApply, RawInvalid, LookupStep, DriftLookup, IsBusy, Busy, DeliveryInv
<1>2. case \in Cases
  BY <1>1, EventAtFacts, DeploymentAssumption DEF DeliveryInv
<1>3. ASSUME case \in DOMAIN Predefined
      PROVE  Lookup(w, case) # Null
  <2>1. cache[w][case] = Predefined[case] /\ Predefined[case] # Null
    BY <1>1, <1>3, StoreAssumption DEF PredefinedInv, PredefinedHasPriority
  <2>2. QED
    BY <2>1 DEF Lookup
<1>4. /\ Get(w, case)
      /\ UNCHANGED <<log, part, offset>>
      /\ \A v \in Workers \ {w} : pc'[v] = pc[v]
      /\ pc'[w] = "generate" => Lookup(w, case) = Null
      /\ pc'[w] # "save"
  BY <1>1 DEF RawMiss, RawApply, RawInvalid, LookupStep, DriftLookup, Goto, topicVars, TypeOK
<1>5. /\ disk' = disk
      /\ \A v \in Workers \ {w} : cache'[v] = cache[v]
      /\ \A c \in Cases : cache'[w][c] \in {cache[w][c], disk[c]}
  BY <1>1, <1>2, <1>4 DEF Get, Lookup, TypeOK, StoreTypeOK
<1>6. \A v \in Workers : EventAt(v)' = EventAt(v)
  BY <1>4 DEF EventAt
<1> HIDE DEF case
<1>7. /\ \A c \in DOMAIN Predefined : disk'[c] = disk[c]
      /\ \A v \in Workers : pc'[v] # "down" =>
             /\ pc[v] # "down"
             /\ \A c \in DOMAIN Predefined : cache'[v][c] \in {cache[v][c], disk[c]}
  BY <1>1, <1>4, <1>5, StoreAssumption
<1>8. \A v \in Workers : pc'[v] \in {"generate", "save"} =>
          \/ pc[v] \in {"generate", "save"} /\ EventAt(v)' = EventAt(v)
          \/ CaseOf[EventAt(v)'] \notin DOMAIN Predefined
  BY <1>3, <1>4, <1>6 DEF case
<1>9. QED
  BY <1>7, <1>8, FrameKeepsPredefined

\* A mapping is only ever saved for a case without a predefined one.
LEMMA SaveKeepsPredefined ==
    ASSUME DeliveryInv, PredefinedInv, NEW w \in Workers, SaveMapping(w)
    PROVE  PredefinedInv'
<1> DEFINE case == CaseOf[EventAt(w)]
<1>1. TypeOK /\ pc[w] = "save" /\ IsBusy(w)
  BY DEF DeliveryInv, SaveMapping, IsBusy, Busy
<1>2. case \in Cases \ DOMAIN Predefined
  BY <1>1, EventAtFacts, DeploymentAssumption
  DEF DeliveryInv, PredefinedInv, PredefinedNotGenerated
<1>3. /\ disk' = [disk EXCEPT ![case] = held[w]]
      /\ cache' = [cache EXCEPT ![w][case] = held[w]]
      /\ pc' = [pc EXCEPT ![w] = "to_raw"]
      /\ UNCHANGED <<part, offset, log>>
  BY DEF SaveMapping, Save, Goto, topicVars
<1>4. /\ disk \in [Cases -> Mappings \cup {Null}]
      /\ cache \in [Workers -> [Cases -> Mappings \cup {Null}]]
      /\ pc \in [Workers -> Busy \cup {"down", "poll"}]
  BY <1>1 DEF TypeOK, StoreTypeOK
<1> HIDE DEF case
<1>5. /\ \A c \in DOMAIN Predefined : disk'[c] = disk[c]
      /\ \A v \in Workers, c \in DOMAIN Predefined : cache'[v][c] = cache[v][c]
  BY <1>2, <1>3, <1>4, StoreAssumption
<1>6. pc'[w] = "to_raw" /\ \A v \in Workers \ {w} : pc'[v] = pc[v]
  BY <1>3, <1>4
<1>7. \A v \in Workers : EventAt(v)' = EventAt(v)
  BY <1>3 DEF EventAt
<1>8. QED
  BY <1>1, <1>5, <1>6, <1>7, FrameKeepsPredefined

\* Every step keeps the predefined mappings in place, evictions and power
\* failures included.
LEMMA PredefinedStep ==
    ASSUME DeliveryInv, PredefinedInv, [Next]_vars
    PROVE  PredefinedInv'
<1>1. TypeOK
  BY DEF DeliveryInv
<1>2. CASE UNCHANGED vars
  BY <1>2 DEF vars, topicVars, storeVars, workerVars, PredefinedInv, PredefinedOnDisk,
     PredefinedHasPriority, PredefinedNotGenerated, EventAt
<1>3. CASE PowerFails
  BY <1>3 DEF PowerFails, PredefinedInv, PredefinedOnDisk, PredefinedHasPriority,
     PredefinedNotGenerated
<1>4. CASE Next /\ ~ PowerFails
  <2>1. ASSUME NEW v \in Workers, IsBusy(v), part'[v] = part[v], offset'[v] = offset[v]
        PROVE  EventAt(v)' = EventAt(v)
    BY <1>4, <2>1, LogsOnlyGrow, EventAtStays
  <2>2. ASSUME disk' = disk,
               \A v \in Workers : pc'[v] # "down" => pc[v] # "down" /\ cache'[v] = cache[v],
               \A v \in Workers : pc'[v] \in {"generate", "save"} =>
                   /\ pc[v] \in {"generate", "save"}
                   /\ part'[v] = part[v] /\ offset'[v] = offset[v]
        PROVE  PredefinedInv'
    <3>1. \A v \in Workers : pc'[v] \in {"generate", "save"} =>
              pc[v] \in {"generate", "save"} /\ EventAt(v)' = EventAt(v)
      BY <2>1, <2>2 DEF IsBusy, Busy
    <3>2. QED
      BY <2>2, <3>1, FrameKeepsPredefined
  <2>3. ASSUME UNCHANGED <<disk, cache, pc, part, offset>>
        PROVE  PredefinedInv'
    BY <2>2, <2>3
  <2>4. ASSUME NEW e \in Events, Api(e)
        PROVE  PredefinedInv'
    BY <2>3, <2>4 DEF Api, Accept, AcceptUnconfirmed, Refuse, Reject, apiUnchanged,
       storeVars, workerVars
  <2>5. ASSUME NEW w \in Workers, Run(w) \/ Crash(w) \/ Evict(w)
        PROVE  PredefinedInv'
    <3>1. CASE Start(w)
      BY <1>1, <3>1, StartKeepsPredefined
    <3>2. CASE SaveMapping(w)
      BY <3>2, SaveKeepsPredefined
    <3>3. CASE RawMiss(w) \/ RawApply(w) \/ RawInvalid(w) \/ DriftLookup(w)
      BY <3>3, LookupKeepsPredefined
    <3>4. CASE PollNothing(w) \/ Evict(w)
      BY <2>3, <3>4 DEF PollNothing, Evict, groupUnchanged, vars, storeVars, workerVars
    <3>5. CASE (\E p \in Partitions : Poll(w, p)) \/ Commit(w)
      <4>1. /\ pc[w] \in {"poll", "commit"} /\ pc'[w] \in {"lookup", "poll"}
            /\ UNCHANGED <<disk, cache>>
            /\ \A v \in Workers \ {w} :
                   pc'[v] = pc[v] /\ part'[v] = part[v] /\ offset'[v] = offset[v]
        BY <1>1, <3>5 DEF Poll, Commit, Goto, storeVars, TypeOK
      <4>2. QED
        BY <2>2, <4>1
    <3>6. CASE ForwardToDrift(w) \/ ForwardToRaw(w) \/ ForwardToFailed(w)
               \/ GenerateFails(w) \/ StoreEvent(w) \/ Generate(w)
      <4>1. /\ pc'[w] \in {"commit", "to_failed", "save"} /\ pc[w] # "down"
            /\ pc'[w] = "save" => pc[w] = "generate"
            /\ UNCHANGED <<disk, cache, part, offset>>
            /\ \A v \in Workers \ {w} : pc'[v] = pc[v]
        BY <1>1, <3>6 DEF ForwardToDrift, ForwardToRaw, ForwardToFailed, GenerateFails,
           StoreEvent, Generate, Goto, publishUnchanged, storeVars, TypeOK
      <4>2. QED
        BY <2>2, <4>1
    <3>7. CASE Crash(w) \/ CommitRefused(w) \/ RawApplyRaises(w) \/ StoreRaises(w)
               \/ GenerateRaises(w) \/ FailedTooLarge(w)
      <4>1. Leave(w)
        BY <3>7 DEF Crash, CommitRefused, RawApplyRaises, StoreRaises, GenerateRaises,
           FailedTooLarge
      <4>2. /\ pc'[w] = "down" /\ disk' = disk
            /\ \A v \in Workers \ {w} :
                   /\ pc'[v] = pc[v] /\ cache'[v] = cache[v]
                   /\ part'[v] = part[v] /\ offset'[v] = offset[v]
        BY <1>1, <4>1 DEF Leave, Forget, Goto, TypeOK, StoreTypeOK
      <4>3. QED
        BY <2>2, <4>2
    <3>8. QED
      BY <2>5, <3>1, <3>2, <3>3, <3>4, <3>5, <3>6, <3>7 DEF Run, RawStep, DriftStep
  <2>6. ASSUME NEW p \in Partitions, NEW w \in Workers, Coordinator(p, w)
        PROVE  PredefinedInv'
    BY <2>3, <2>6 DEF Coordinator, AssignFree, Rebalance, groupUnchanged,
       storeVars, workerVars
  <2>7. ASSUME NEW p \in Partitions, RepeatRecord(p)
        PROVE  PredefinedInv'
    BY <2>3, <2>7 DEF RepeatRecord, storeVars, workerVars
  <2>8. QED
    BY <1>4, <2>4, <2>5, <2>6, <2>7 DEF Next
<1>5. QED
  BY <1>2, <1>3, <1>4

\* The predefined mappings are in place, and nobody generates one for their
\* cases, whatever was evicted, killed or undone by a power failure.
LEMMA PredefinedIsInvariant == Spec => []PredefinedInv
<1>1. Init => PredefinedInv
  BY DEF Init, PredefinedInv, PredefinedOnDisk, PredefinedHasPriority,
     PredefinedNotGenerated
<1>2. DeliveryInv /\ PredefinedInv /\ [Next]_vars => PredefinedInv'
  BY PredefinedStep
<1>3. QED
  BY <1>1, <1>2, DeliveryIsInvariant, PTL DEF Spec

\* Whatever the generated directory held before, a process that runs uses the
\* predefined mapping of a case that has one; evictions, crashes and power
\* failures do not change that.
THEOREM PredefinedWins == Spec => []PredefinedHasPriority
<1>1. PredefinedInv => PredefinedHasPriority
  BY DEF PredefinedInv
<1>2. QED
  BY <1>1, PredefinedIsInvariant, PTL

\* A step that stores nothing, and after which a process is about to store only
\* what it held before, or what is right for its event.
LEMMA FrameKeepsPredefinedUse ==
    ASSUME PredefinedHeld, PredefinedRows, db' = db,
           \A v \in Workers : pc'[v] = "store" =>
               \/ pc[v] = "store" /\ held'[v] = held[v] /\ EventAt(v)' = EventAt(v)
               \/ CaseOf[EventAt(v)'] \in DOMAIN Predefined =>
                      held'[v] = Predefined[CaseOf[EventAt(v)']]
    PROVE  PredefinedHeld' /\ PredefinedRows'
<1>1. ASSUME NEW v \in Workers, pc'[v] = "store",
             CaseOf[EventAt(v)'] \in DOMAIN Predefined
      PROVE  held'[v] = Predefined[CaseOf[EventAt(v)']]
  <2>1. CASE pc[v] = "store" /\ held'[v] = held[v] /\ EventAt(v)' = EventAt(v)
    <3>1. CaseOf[EventAt(v)] \in DOMAIN Predefined
      BY <1>1, <2>1
    <3>2. held[v] = Predefined[CaseOf[EventAt(v)]]
      BY <2>1, <3>1 DEF PredefinedHeld
    <3>3. QED
      BY <2>1, <3>2
  <2>2. QED
    BY <1>1, <2>1
<1>2. PredefinedHeld'
  BY <1>1 DEF PredefinedHeld, EventAt
<1>3. QED
  BY <1>2 DEF PredefinedRows

\* Applying the mapping of a predefined case applies the predefined one.
LEMMA RawApplyHoldsPredefined ==
    ASSUME DeliveryInv, PredefinedInv, PredefinedHeld, PredefinedRows,
           NEW w \in Workers, RawApply(w)
    PROVE  PredefinedHeld' /\ PredefinedRows'
<1> DEFINE case == CaseOf[EventAt(w)]
<1>1. TypeOK /\ IsBusy(w) /\ pc[w] = "lookup"
  BY DEF RawApply, LookupStep, IsBusy, Busy, DeliveryInv
<1>2. /\ held'[w] = Lookup(w, case)
      /\ UNCHANGED <<db, log, part, offset>>
      /\ \A v \in Workers \ {w} : pc'[v] = pc[v] /\ held'[v] = held[v]
  BY <1>1 DEF RawApply, LookupStep, Goto, topicVars, TypeOK
<1>3. \A v \in Workers : EventAt(v)' = EventAt(v)
  BY <1>2 DEF EventAt
<1>4. ASSUME case \in DOMAIN Predefined
      PROVE  Lookup(w, case) = Predefined[case]
  <2>1. cache[w][case] = Predefined[case] /\ Predefined[case] # Null
    BY <1>1, <1>4, StoreAssumption DEF PredefinedInv, PredefinedHasPriority
  <2>2. QED
    BY <2>1 DEF Lookup
<1>5. CaseOf[EventAt(w)'] \in DOMAIN Predefined =>
          held'[w] = Predefined[CaseOf[EventAt(w)']]
  BY <1>2, <1>3, <1>4
<1>6. \A v \in Workers : pc'[v] = "store" =>
          \/ pc[v] = "store" /\ held'[v] = held[v] /\ EventAt(v)' = EventAt(v)
          \/ CaseOf[EventAt(v)'] \in DOMAIN Predefined =>
                 held'[v] = Predefined[CaseOf[EventAt(v)']]
  BY <1>2, <1>3, <1>5
<1>7. QED
  BY <1>2, <1>6, FrameKeepsPredefinedUse

\* The row of an event of a predefined case comes from the mapping held.
LEMMA StoreKeepsPredefinedRows ==
    ASSUME DeliveryInv, PredefinedHeld, PredefinedRows, NEW w \in Workers, StoreEvent(w)
    PROVE  PredefinedHeld' /\ PredefinedRows'
<1>1. TypeOK /\ IsBusy(w) /\ pc[w] = "store"
  BY DEF StoreEvent, IsBusy, Busy, DeliveryInv
<1>2. EventAt(w) \in Events
  BY <1>1, EventAtFacts DEF DeliveryInv
<1>3. /\ UNCHANGED <<log, part, offset, held>>
      /\ pc'[w] = "commit"
      /\ \A v \in Workers \ {w} : pc'[v] = pc[v]
      /\ \A e \in Events :
             db'[e] = IF e = EventAt(w) /\ db[e] = Null THEN held[w] ELSE db[e]
  BY <1>1, <1>2 DEF StoreEvent, Goto, topicVars, TypeOK
<1>4. \A v \in Workers : EventAt(v)' = EventAt(v)
  BY <1>3 DEF EventAt
<1>5. PredefinedHeld'
  BY <1>3 DEF PredefinedHeld, EventAt
<1>6. CaseOf[EventAt(w)] \in DOMAIN Predefined => held[w] = Predefined[CaseOf[EventAt(w)]]
  BY <1>1 DEF PredefinedHeld
<1>7. PredefinedRows'
  BY <1>3, <1>6 DEF PredefinedRows
<1>8. QED
  BY <1>5, <1>7

\* Every step keeps the rows of the predefined cases right.
LEMMA PredefinedUseStep ==
    ASSUME DeliveryInv, PredefinedInv, PredefinedHeld, PredefinedRows, [Next]_vars
    PROVE  PredefinedHeld' /\ PredefinedRows'
<1>1. TypeOK
  BY DEF DeliveryInv
<1>2. CASE UNCHANGED vars
  BY <1>2 DEF vars, topicVars, workerVars, PredefinedHeld, PredefinedRows, EventAt
<1>3. CASE PowerFails
  BY <1>3 DEF PowerFails, PredefinedHeld, PredefinedRows
<1>4. CASE Next /\ ~ PowerFails
  <2>1. ASSUME UNCHANGED <<pc, held, part, offset, db>>
        PROVE  PredefinedHeld' /\ PredefinedRows'
    <3>1. \A v \in Workers : pc[v] = "store" => EventAt(v)' = EventAt(v)
      BY <1>4, <2>1, LogsOnlyGrow, EventAtStays DEF IsBusy, Busy
    <3>2. QED
      BY <2>1, <3>1, FrameKeepsPredefinedUse
  <2>2. ASSUME NEW w \in Workers, pc'[w] # "store", db' = db,
               \A v \in Workers \ {w} :
                   /\ pc'[v] = pc[v] /\ held'[v] = held[v]
                   /\ part'[v] = part[v] /\ offset'[v] = offset[v]
        PROVE  PredefinedHeld' /\ PredefinedRows'
    <3>1. \A v \in Workers : pc'[v] = "store" =>
              pc[v] = "store" /\ held'[v] = held[v] /\ EventAt(v)' = EventAt(v)
      BY <1>4, <2>2, LogsOnlyGrow, EventAtStays DEF IsBusy, Busy
    <3>2. QED
      BY <2>2, <3>1, FrameKeepsPredefinedUse
  <2>3. ASSUME NEW e \in Events, Api(e)
        PROVE  PredefinedHeld' /\ PredefinedRows'
    BY <2>1, <2>3 DEF Api, Accept, AcceptUnconfirmed, Refuse, Reject, apiUnchanged,
       workerVars
  <2>4. ASSUME NEW w \in Workers, Run(w) \/ Crash(w) \/ Evict(w)
        PROVE  PredefinedHeld' /\ PredefinedRows'
    <3>1. CASE RawApply(w)
      BY <3>1, RawApplyHoldsPredefined
    <3>2. CASE StoreEvent(w)
      BY <3>2, StoreKeepsPredefinedRows
    <3>3. CASE PollNothing(w) \/ Evict(w)
      BY <2>1, <3>3 DEF PollNothing, Evict, groupUnchanged, vars, workerVars
    <3>4. CASE Start(w) \/ (\E p \in Partitions : Poll(w, p)) \/ Commit(w)
      <4>1. /\ pc'[w] \in {"poll", "lookup"} /\ db' = db
            /\ \A v \in Workers \ {w} :
                   /\ pc'[v] = pc[v] /\ held'[v] = held[v]
                   /\ part'[v] = part[v] /\ offset'[v] = offset[v]
        BY <1>1, <3>4 DEF Start, Poll, Commit, Goto, TypeOK
      <4>2. QED
        BY <2>2, <4>1
    <3>5. CASE RawMiss(w) \/ RawInvalid(w) \/ DriftLookup(w) \/ Generate(w)
               \/ GenerateFails(w) \/ SaveMapping(w) \/ ForwardToDrift(w)
               \/ ForwardToRaw(w) \/ ForwardToFailed(w)
      <4>1. /\ pc'[w] \in Busy \ {"store"}
            /\ UNCHANGED <<db, part, offset>>
            /\ \A v \in Workers \ {w} : pc'[v] = pc[v] /\ held'[v] = held[v]
        BY <1>1, <3>5 DEF RawMiss, RawInvalid, LookupStep, DriftLookup, Generate,
           GenerateFails, SaveMapping, ForwardToDrift, ForwardToRaw, ForwardToFailed,
           publishUnchanged, Goto, Busy, TypeOK
      <4>2. QED
        BY <2>2, <4>1
    <3>6. CASE Crash(w) \/ CommitRefused(w) \/ RawApplyRaises(w) \/ StoreRaises(w)
               \/ GenerateRaises(w) \/ FailedTooLarge(w)
      <4>1. Leave(w)
        BY <3>6 DEF Crash, CommitRefused, RawApplyRaises, StoreRaises, GenerateRaises,
           FailedTooLarge
      <4>2. /\ pc'[w] = "down" /\ db' = db
            /\ \A v \in Workers \ {w} :
                   /\ pc'[v] = pc[v] /\ held'[v] = held[v]
                   /\ part'[v] = part[v] /\ offset'[v] = offset[v]
        BY <1>1, <4>1 DEF Leave, Goto, TypeOK
      <4>3. QED
        BY <2>2, <4>2
    <3>7. QED
      BY <2>4, <3>1, <3>2, <3>3, <3>4, <3>5, <3>6 DEF Run, RawStep, DriftStep
  <2>5. ASSUME NEW p \in Partitions, NEW w \in Workers, Coordinator(p, w)
        PROVE  PredefinedHeld' /\ PredefinedRows'
    BY <2>1, <2>5 DEF Coordinator, AssignFree, Rebalance, groupUnchanged, workerVars
  <2>6. ASSUME NEW p \in Partitions, RepeatRecord(p)
        PROVE  PredefinedHeld' /\ PredefinedRows'
    BY <2>1, <2>6 DEF RepeatRecord, workerVars
  <2>7. QED
    BY <1>4, <2>3, <2>4, <2>5, <2>6 DEF Next
<1>5. QED
  BY <1>2, <1>3, <1>4

\* A process stores events of predefined cases as their mapping has them, and so
\* it is with the rows.
LEMMA PredefinedIsUsed == Spec => [](PredefinedHeld /\ PredefinedRows)
<1>1. Init => PredefinedHeld /\ PredefinedRows
  BY DEF Init, PredefinedHeld, PredefinedRows
<1>2. /\ DeliveryInv /\ PredefinedInv /\ PredefinedHeld /\ PredefinedRows
      /\ [Next]_vars
      => PredefinedHeld' /\ PredefinedRows'
  BY PredefinedUseStep
<1>3. QED
  BY <1>1, <1>2, DeliveryIsInvariant, PredefinedIsInvariant, PTL DEF Spec

\* Whatever is killed, evicted, delivered twice or lost with the power, and in
\* whatever order, an event of a predefined case is stored as its predefined
\* mapping has it, or not at all.
THEOREM PredefinedRowsAreRight == Spec => []PredefinedRows
BY PredefinedIsUsed, PTL

--------------------------------------------------------------------------------
(***************************************************************************)
(* What a record costs that process_raw_message cannot get past.           *)
(***************************************************************************)
\* The history of a partition moves by the outcome of a record there, which is
\* published or stored.
LEMMA DoneMoves ==
    ASSUME DeliveryInv, Next, NEW p \in Partitions, done'[p] # done[p]
    PROVE  \E w \in Workers :
               /\ IsBusy(w) /\ part[w] = p /\ done'[p] = offset[w]
               /\ \/ pc[w] \in {"to_drift", "to_raw"}
                  \/ pc[w] = "to_failed" /\ EventAt(w) \notin Oversized
                  \/ pc[w] = "store" /\ Result[EventAt(w)][held[w]] = "ok"
<1>1. TypeOK
  BY DEF DeliveryInv
<1>2. ASSUME NEW w \in Workers, IsBusy(w), RecordDone(w)
      PROVE  part[w] = p /\ done'[p] = offset[w]
  BY <1>1, <1>2, RecordDoneFacts, EventAtFacts DEF DeliveryInv
<1>3. ASSUME NEW w \in Workers,
             ForwardToDrift(w) \/ ForwardToRaw(w) \/ ForwardToFailed(w) \/ StoreEvent(w)
      PROVE  /\ IsBusy(w) /\ RecordDone(w)
             /\ \/ pc[w] \in {"to_drift", "to_raw"}
                \/ pc[w] = "to_failed" /\ EventAt(w) \notin Oversized
                \/ pc[w] = "store" /\ Result[EventAt(w)][held[w]] = "ok"
  BY <1>3 DEF ForwardToDrift, ForwardToRaw, ForwardToFailed, StoreEvent, IsBusy, Busy
<1>4. ASSUME NEW e \in Events, Api(e)
      PROVE  FALSE
  BY <1>4 DEF Api, Accept, AcceptUnconfirmed, Refuse, Reject, apiUnchanged
<1>5. ASSUME NEW w \in Workers, Run(w) \/ Crash(w) \/ Evict(w)
      PROVE  ForwardToDrift(w) \/ ForwardToRaw(w) \/ ForwardToFailed(w) \/ StoreEvent(w)
  <2>1. CASE Start(w) \/ (\E q \in Partitions : Poll(w, q)) \/ PollNothing(w)
             \/ Commit(w) \/ Evict(w)
    BY <2>1 DEF Start, Poll, PollNothing, Commit, Evict, groupUnchanged, vars
  <2>2. CASE RawMiss(w) \/ RawApply(w) \/ RawInvalid(w) \/ DriftLookup(w) \/ Generate(w)
             \/ GenerateFails(w) \/ SaveMapping(w)
    BY <2>2 DEF RawMiss, RawApply, RawInvalid, LookupStep, DriftLookup, Generate,
       GenerateFails, SaveMapping
  <2>3. CASE Crash(w) \/ CommitRefused(w) \/ RawApplyRaises(w) \/ StoreRaises(w)
             \/ GenerateRaises(w) \/ FailedTooLarge(w)
    BY <2>3 DEF Crash, CommitRefused, RawApplyRaises, StoreRaises, GenerateRaises,
       FailedTooLarge, Leave
  <2>4. QED
    BY <1>5, <2>1, <2>2, <2>3 DEF Run, RawStep, DriftStep
<1>6. ASSUME NEW q \in Partitions, NEW w \in Workers, Coordinator(q, w)
      PROVE  FALSE
  BY <1>6 DEF Coordinator, AssignFree, Rebalance, groupUnchanged
<1>7. ASSUME NEW q \in Partitions, RepeatRecord(q)
      PROVE  FALSE
  BY <1>7 DEF RepeatRecord
<1>8. ~ PowerFails
  BY DEF PowerFails
<1>9. PICK w \in Workers :
          ForwardToDrift(w) \/ ForwardToRaw(w) \/ ForwardToFailed(w) \/ StoreEvent(w)
  BY <1>4, <1>5, <1>6, <1>7, <1>8 DEF Next
<1>10. QED
  BY <1>2, <1>3, <1>9

\* Whoever works on a record that always raises cannot give it an outcome.
LEMMA RaisingGetsNoOutcome ==
    ASSUME PredefinedHeld, RaisingInv, NEW w \in RawWorkers, IsBusy(w),
           AlwaysRaises(EventAt(w)),
           \/ pc[w] \in {"to_drift", "to_raw"}
           \/ pc[w] = "to_failed" /\ EventAt(w) \notin Oversized
           \/ pc[w] = "store" /\ Result[EventAt(w)][held[w]] = "ok"
    PROVE  FALSE
<1>1. pc[w] = "store" /\ Result[EventAt(w)][held[w]] = "ok"
  BY DEF RaisingInv
<1>2. held[w] = Predefined[CaseOf[EventAt(w)]]
  BY <1>1 DEF PredefinedHeld, AlwaysRaises, Workers
<1>3. QED
  BY <1>1, <1>2 DEF AlwaysRaises

\* No step gives such a record an outcome.
LEMMA RaisingHasNoOutcome ==
    ASSUME DeliveryInv, PredefinedHeld, RaisingInv, Next,
           NEW p \in RawPartitions, NEW i \in 1..Len(log'[p]), AlwaysRaises(log'[p][i])
    PROVE  done'[p] < i
<1>1. TypeOK /\ p \in Partitions
  BY DEF DeliveryInv, Partitions
<1>2. /\ Len(log[p]) \in Nat /\ done[p] \in Nat /\ done[p] <= Len(log[p])
      /\ Len(log'[p]) \in Nat /\ i \in Nat
  <2>1. DeliveryInv'
    BY DeliveryStep
  <2>2. log[p] \in Seq(Events) /\ log'[p] \in Seq(Events)
    BY <1>1, <2>1 DEF DeliveryInv, TypeOK, TopicsTypeOK
  <2>3. QED
    BY <1>1, <2>2 DEF DeliveryInv, TypeOK
<1>3. ASSUME i \in 1..Len(log[p])
      PROVE  log[p][i] = log'[p][i] /\ done[p] < i
  BY <1>1, <1>3, LogsOnlyGrow DEF RaisingInv
<1>4. CASE done'[p] = done[p]
  BY <1>2, <1>3, <1>4
<1>5. CASE done'[p] # done[p]
  <2>1. PICK w \in Workers :
            /\ IsBusy(w) /\ part[w] = p /\ done'[p] = offset[w]
            /\ \/ pc[w] \in {"to_drift", "to_raw"}
               \/ pc[w] = "to_failed" /\ EventAt(w) \notin Oversized
               \/ pc[w] = "store" /\ Result[EventAt(w)][held[w]] = "ok"
    BY <1>1, <1>5, DoneMoves
  <2>2. /\ p \in GroupPartitions(w) /\ offset[w] \in 1..Len(log[p])
        /\ offset[w] <= done[p] + 1
    BY <2>1 DEF DeliveryInv, RecordInOrder
  <2>3. w \in RawWorkers
    BY <2>2, TopicsAssumption DEF GroupPartitions
  <2>4. CASE i \in 1..Len(log[p]) /\ i <= offset[w]
    <3>1. i = offset[w]
      BY <1>2, <1>3, <2>2, <2>4
    <3>2. AlwaysRaises(EventAt(w))
      BY <1>3, <2>1, <2>4, <3>1 DEF EventAt
    <3>3. QED
      BY <2>1, <2>3, <3>2, RaisingGetsNoOutcome
  <2>5. QED
    BY <1>2, <2>1, <2>2, <2>4
<1>6. QED
  BY <1>4, <1>5

\* A raw-event consumer finds the predefined mapping and goes where its outcome
\* sends it.
LEMMA RaisingLookup ==
    ASSUME DeliveryInv, PredefinedInv, NEW w \in RawWorkers,
           RawMiss(w) \/ RawApply(w) \/ RawInvalid(w), AlwaysRaises(EventAt(w))
    PROVE  pc'[w] = "store" \/ (pc'[w] = "to_failed" /\ EventAt(w) \in Oversized)
<1> DEFINE case == CaseOf[EventAt(w)]
<1>1. TypeOK /\ pc[w] = "lookup" /\ w \in Workers
  BY DEF RawMiss, RawApply, RawInvalid, LookupStep, DeliveryInv, Workers
<1>2. case \in DOMAIN Predefined
  BY DEF AlwaysRaises
<1>3. Lookup(w, case) = Predefined[case] /\ Predefined[case] # Null
  <2>1. cache[w][case] = Predefined[case] /\ Predefined[case] # Null
    BY <1>1, <1>2, StoreAssumption DEF PredefinedInv, PredefinedHasPriority
  <2>2. QED
    BY <2>1 DEF Lookup
<1>4. ~ RawMiss(w)
  BY <1>3 DEF RawMiss, LookupStep
<1>5. CASE RawApply(w)
  BY <1>1, <1>5 DEF RawApply, LookupStep, Goto, TypeOK
<1>6. CASE RawInvalid(w)
  <2>1. Result[EventAt(w)][Predefined[case]] = "invalid"
    BY <1>3, <1>6 DEF RawInvalid, LookupStep
  <2>2. EventAt(w) \in Oversized
    BY <2>1 DEF AlwaysRaises
  <2>3. pc'[w] = "to_failed"
    BY <1>1, <1>6 DEF RawInvalid, LookupStep, Goto, TypeOK
  <2>4. QED
    BY <2>2, <2>3
<1>7. QED
  BY <1>4, <1>5, <1>6

\* Every step leaves whoever works on such a record on its way to the exception.
LEMMA RaisingStep ==
    ASSUME DeliveryInv, PredefinedInv, PredefinedHeld, RaisingInv, [Next]_vars
    PROVE  RaisingInv'
<1> DEFINE OnItsWay(v) == IsBusy(v) /\ AlwaysRaises(EventAt(v)) =>
               \/ pc[v] \in {"lookup", "store"}
               \/ pc[v] = "to_failed" /\ EventAt(v) \in Oversized
<1>1. CASE UNCHANGED vars
  BY <1>1 DEF vars, topicVars, workerVars, RaisingInv, IsBusy, EventAt, AlwaysRaises
<1>2. CASE Next
  <2>1. TypeOK /\ \A v \in RawWorkers : v \in Workers /\ v \notin DriftWorkers /\ OnItsWay(v)
    BY DeploymentAssumption DEF DeliveryInv, RaisingInv, Workers
  <2>2. \A p \in RawPartitions : \A i \in 1..Len(log'[p]) :
            AlwaysRaises(log'[p][i]) => done'[p] < i
    BY <1>2, RaisingHasNoOutcome
  <2>3. ASSUME NEW v \in RawWorkers,
               pc'[v] = pc[v], part'[v] = part[v], offset'[v] = offset[v]
        PROVE  OnItsWay(v)'
    <3>1. IsBusy(v) => EventAt(v)' = EventAt(v)
      BY <1>2, <2>1, <2>3, LogsOnlyGrow, EventAtStays
    <3>2. QED
      BY <2>1, <2>3, <3>1 DEF IsBusy, AlwaysRaises
  <2>4. ASSUME NEW w \in Workers, Run(w) \/ Crash(w) \/ Evict(w), NEW v \in RawWorkers
        PROVE  OnItsWay(v)'
    <3>1. CASE (\E p \in Partitions : Poll(w, p)) \/ Start(w) \/ Commit(w)
      <4>1. /\ pc'[w] \in {"lookup", "poll"}
            /\ v # w => pc'[v] = pc[v] /\ part'[v] = part[v] /\ offset'[v] = offset[v]
        BY <2>1, <3>1 DEF Poll, Start, Commit, Goto, TypeOK
      <4>2. QED
        BY <2>3, <4>1 DEF IsBusy, Busy
    <3>2. CASE PollNothing(w) \/ Evict(w)
      BY <2>3, <3>2 DEF PollNothing, Evict, groupUnchanged, vars, workerVars
    <3>3. CASE RawMiss(w) \/ RawApply(w) \/ RawInvalid(w)
      <4>1. /\ UNCHANGED <<log, part, offset>> /\ IsBusy(w)
            /\ v # w => pc'[v] = pc[v]
        BY <2>1, <3>3 DEF RawMiss, RawApply, RawInvalid, LookupStep, Goto, topicVars,
           TypeOK, IsBusy, Busy
      <4>2. EventAt(w)' = EventAt(w)
        BY <4>1 DEF EventAt
      <4>3. CASE v = w
        BY <3>3, <4>2, <4>3, RaisingLookup DEF AlwaysRaises
      <4>4. QED
        BY <2>3, <4>1, <4>3
    <3>4. CASE DriftLookup(w)
      <4>1. v # w /\ pc'[v] = pc[v] /\ UNCHANGED <<part, offset>>
        BY <2>1, <3>4 DEF DriftLookup, Goto, TypeOK
      <4>2. QED
        BY <2>3, <4>1
    <3>5. CASE ForwardToDrift(w) \/ ForwardToRaw(w) \/ ForwardToFailed(w) \/ StoreEvent(w)
               \/ Generate(w) \/ GenerateFails(w) \/ SaveMapping(w)
      <4>1. /\ UNCHANGED <<part, offset>> /\ IsBusy(w)
            /\ v # w => pc'[v] = pc[v]
            /\ \/ pc[w] \in {"to_drift", "to_raw", "generate", "save"}
               \/ pc[w] = "to_failed" /\ EventAt(w) \notin Oversized
               \/ pc[w] = "store" /\ Result[EventAt(w)][held[w]] = "ok"
        BY <2>1, <3>5 DEF ForwardToDrift, ForwardToRaw, ForwardToFailed, StoreEvent,
           Generate, GenerateFails, SaveMapping, publishUnchanged, Goto, TypeOK, IsBusy, Busy
      <4>2. CASE v = w
        <5>1. EventAt(v)' = EventAt(v)
          BY <1>2, <2>1, <4>1, <4>2, LogsOnlyGrow, EventAtStays
        <5>2. ~ AlwaysRaises(EventAt(v))
          BY <2>1, <4>1, <4>2, RaisingGetsNoOutcome
        <5>3. QED
          BY <5>1, <5>2 DEF AlwaysRaises
      <4>3. QED
        BY <2>3, <4>1, <4>2
    <3>6. CASE Crash(w) \/ CommitRefused(w) \/ RawApplyRaises(w) \/ StoreRaises(w)
               \/ GenerateRaises(w) \/ FailedTooLarge(w)
      <4>1. Leave(w)
        BY <3>6 DEF Crash, CommitRefused, RawApplyRaises, StoreRaises, GenerateRaises,
           FailedTooLarge
      <4>2. /\ pc'[w] = "down"
            /\ v # w => pc'[v] = pc[v] /\ part'[v] = part[v] /\ offset'[v] = offset[v]
        BY <2>1, <4>1 DEF Leave, Goto, TypeOK
      <4>3. QED
        BY <2>3, <4>2 DEF IsBusy, Busy
    <3>7. QED
      BY <2>4, <3>1, <3>2, <3>3, <3>4, <3>5, <3>6 DEF Run, RawStep, DriftStep
  <2>5. ASSUME NEW v \in RawWorkers
        PROVE  OnItsWay(v)'
    <3>1. ASSUME UNCHANGED <<pc, part, offset>>
          PROVE  OnItsWay(v)'
      BY <2>3, <3>1
    <3>2. ASSUME NEW e \in Events, Api(e)
          PROVE  OnItsWay(v)'
      BY <3>1, <3>2 DEF Api, Accept, AcceptUnconfirmed, Refuse, Reject, apiUnchanged,
         workerVars
    <3>3. ASSUME NEW p \in Partitions, NEW w \in Workers, Coordinator(p, w)
          PROVE  OnItsWay(v)'
      BY <3>1, <3>3 DEF Coordinator, AssignFree, Rebalance, groupUnchanged, workerVars
    <3>4. ASSUME NEW p \in Partitions, RepeatRecord(p)
          PROVE  OnItsWay(v)'
      BY <3>1, <3>4 DEF RepeatRecord, workerVars
    <3>5. CASE PowerFails
      BY <2>1, <3>5 DEF PowerFails, IsBusy, Busy
    <3>6. QED
      BY <1>2, <2>4, <3>2, <3>3, <3>4, <3>5 DEF Next
  <2>6. QED
    BY <2>2, <2>5 DEF RaisingInv, IsBusy, EventAt, AlwaysRaises
<1>3. QED
  BY <1>1, <1>2

\* One event whose processing raises blocks its partition of raw-events for good:
\* the offset committed never passes it, whoever is restarted, evicted or added.
THEOREM RaisingRecordsBlock == Spec => []RaisingRecordBlocks
<1>1. Init => RaisingInv
  <2> SUFFICES ASSUME Init
               PROVE  RaisingInv
    OBVIOUS
  <2>1. \A p \in RawPartitions : log[p] = <<>>
    BY DEF Init, TopicsInit, Partitions
  <2>2. \A w \in RawWorkers : ~ IsBusy(w)
    BY DEF Init, IsBusy, Busy, Workers
  <2>3. QED
    BY <2>1, <2>2 DEF RaisingInv
<1>2. DeliveryInv /\ PredefinedInv /\ PredefinedHeld /\ RaisingInv /\ [Next]_vars
      => RaisingInv'
  BY RaisingStep
<1>3. DeliveryInv /\ RaisingInv => RaisingRecordBlocks
  <2> SUFFICES ASSUME DeliveryInv, RaisingInv, NEW p \in RawPartitions,
                      NEW i \in 1..Len(log[p]), AlwaysRaises(log[p][i])
               PROVE  committed[p] < i
    BY DEF RaisingRecordBlocks
  <2>1. p \in Partitions /\ committed[p] <= done[p] /\ done[p] < i
    BY DEF DeliveryInv, CommitFollowsOutcome, RaisingInv, Partitions
  <2>2. committed[p] \in Nat /\ done[p] \in Nat
    BY <2>1 DEF DeliveryInv, TypeOK, TopicsTypeOK
  <2>3. QED
    BY <2>1, <2>2
<1>4. QED
  BY <1>1, <1>2, <1>3, DeliveryIsInvariant, PredefinedIsInvariant, PredefinedIsUsed,
     PTL DEF Spec

--------------------------------------------------------------------------------
(***************************************************************************)
(* Until the first eviction, every case has at most one mapping at a time: *)
(* caches agree with the files and generators do not race, power failures  *)
(* or not.  Without power failures too, it has that mapping for ever: none *)
(* is replaced, and every row was normalized with the one its case has.    *)
(***************************************************************************)
\* A step after which no consumer was ever evicted evicts none.
LEMMA NoEvictionYet ==
    ASSUME TypeOK, [Next]_vars, evictions' = 0
    PROVE  evictions = 0 /\ \A w \in Workers : ~ Evict(w)
<1>1. evictions \in Nat
  BY DEF TypeOK
<1>2. ASSUME NEW w \in Workers, Evict(w)
      PROVE  FALSE
  BY <1>1, <1>2 DEF Evict
<1>3. CASE UNCHANGED vars
  BY <1>2, <1>3 DEF vars, boundVars
<1>4. ASSUME NEW e \in Events, Api(e)
      PROVE  evictions' = evictions
  BY <1>4 DEF Api, Accept, AcceptUnconfirmed, Refuse, Reject, apiUnchanged, boundVars
<1>5. ASSUME NEW w \in Workers, Run(w) \/ Crash(w)
      PROVE  evictions' = evictions
  BY <1>5
  DEF Run, RawStep, DriftStep, Start, Poll, PollNothing, Commit, CommitRefused, RawMiss,
      RawApply, RawInvalid, LookupStep, RawApplyRaises, StoreEvent, StoreRaises,
      DriftLookup, Generate, GenerateFails, GenerateRaises, SaveMapping, ForwardToDrift,
      ForwardToRaw, ForwardToFailed, publishUnchanged, FailedTooLarge, Crash, boundVars, vars
<1>6. ASSUME NEW p \in Partitions, NEW w \in Workers, Coordinator(p, w)
      PROVE  evictions' = evictions
  BY <1>6 DEF Coordinator, AssignFree, Rebalance, boundVars
<1>7. (\E p \in Partitions : RepeatRecord(p)) \/ PowerFails => evictions' = evictions
  BY DEF RepeatRecord, PowerFails
<1>8. QED
  BY <1>2, <1>3, <1>4, <1>5, <1>6, <1>7 DEF Next

UntilEviction == evictions = 0 => MappingsInv

\* The inductive invariant of files, caches, generators and rows, up to the first
\* eviction.
THEOREM MappingsUntilEviction == Spec => [](evictions = 0 => MappingsInv)
<1>1. Init => UntilEviction
  BY MappingsInit DEF UntilEviction
<1>2. DeliveryInv /\ DeliveryInv' /\ UntilEviction /\ [Next]_vars => UntilEviction'
  BY NoEvictionYet, MappingsStep DEF UntilEviction, DeliveryInv
<1>3. UntilEviction => (evictions = 0 => MappingsInv)
  BY DEF UntilEviction
<1>4. QED
  BY <1>1, <1>2, <1>3, DeliveryIsInvariant, PTL DEF Spec

\* Where no consumer is ever evicted, it holds for good.
THEOREM MappingsAreInvariant ==
    ASSUME MaxEvictions = 0
    PROVE  Spec => []MappingsInv
<1>1. DeliveryInv /\ (evictions = 0 => MappingsInv) => MappingsInv
  BY DEF DeliveryInv, TypeOK
<1>2. QED
  BY <1>1, DeliveryIsInvariant, MappingsUntilEviction, PTL

\* No process ever sees a mapping other than the one on disk.
THEOREM CachesStayCoherent ==
    ASSUME MaxEvictions = 0
    PROVE  Spec => []CachesAreCoherent
<1>1. MappingsInv => CachesAreCoherent
  BY DEF MappingsInv
<1>2. QED
  BY <1>1, MappingsAreInvariant, PTL

\* What the group promises holds as long as nobody is evicted: no two processes
\* work on records of one partition.
THEOREM ExclusiveWithoutEvictions ==
    ASSUME MaxEvictions = 0
    PROVE  Spec => []PartitionsAreExclusive
<1>1. MappingsInv => PartitionsAreExclusive
  BY DEF MappingsInv, OwnersKeep, PartitionsAreExclusive
<1>2. QED
  BY <1>1, MappingsAreInvariant, PTL

\* Between the drift consumer's lookup and its save nobody saves a mapping.
THEOREM GeneratorsFindNoMapping ==
    ASSUME MaxEvictions = 0
    PROVE  Spec => []GenerateOnlyUnmapped
<1>1. MappingsInv => GenerateOnlyUnmapped
  BY DEF MappingsInv
<1>2. QED
  BY <1>1, MappingsAreInvariant, PTL

\* Two rows of one case are never normalized with different mappings.
THEOREM RowsFollowTheirMapping ==
    ASSUME MaxEvictions = 0, MaxOutages = 0
    PROVE  Spec => []RowsFollowMapping
<1>1. DeliveryInv /\ MappingsInv => RowsFollowMapping
  BY DEF DeliveryInv, TypeOK, MappingsInv, RowsInv
<1>2. QED
  BY <1>1, DeliveryIsInvariant, MappingsAreInvariant, PTL

\* No two processes ask the AI for a mapping of one case at the same time.
THEOREM GeneratorsDoNotRace ==
    ASSUME MaxEvictions = 0
    PROVE  Spec => []OneGeneratorPerCase
<1>1. DeliveryInv /\ MappingsInv => OneGeneratorPerCase
  BY GeneratorIsAlone DEF OneGeneratorPerCase
<1>2. QED
  BY <1>1, DeliveryIsInvariant, MappingsAreInvariant, PTL

\* A generated mapping, once saved, is never replaced.
THEOREM MappingsNeverChange ==
    ASSUME MaxEvictions = 0, MaxOutages = 0
    PROVE  Spec => MappingsAreWriteOnce
<1>1. ASSUME DeliveryInv, MappingsInv, [Next]_vars,
             NEW c \in Cases \ DOMAIN Predefined, disk[c] # Null
      PROVE  disk'[c] = disk[c]
  <2>1. ASSUME NEW w \in Workers, Start(w)
        PROVE  disk'[c] = disk[c]
    BY <2>1 DEF Start, Initialize, WithPredefined
  <2>2. ASSUME NEW w \in Workers, SaveMapping(w)
        PROVE  disk'[c] = disk[c]
    <3>1. disk[CaseOf[EventAt(w)]] = Null
      BY <1>1, <2>2 DEF SaveMapping, MappingsInv, GenerateOnlyUnmapped
    <3>2. c # CaseOf[EventAt(w)]
      BY <1>1, <3>1
    <3>3. QED
      BY <1>1, <2>2, <3>2 DEF SaveMapping, Save, DeliveryInv, TypeOK, StoreTypeOK
  <2>3. ASSUME NEW e \in Events, Api(e)
        PROVE  disk' = disk
    BY <2>3 DEF Api, Accept, AcceptUnconfirmed, Refuse, Reject, apiUnchanged, storeVars
  <2>4. ASSUME NEW p \in Partitions, NEW w \in Workers, Coordinator(p, w)
        PROVE  disk' = disk
    BY <2>4 DEF Coordinator, AssignFree, Rebalance, groupUnchanged, storeVars
  <2>5. ASSUME NEW w \in Workers, Run(w) \/ Crash(w) \/ Evict(w),
               ~ (Start(w) \/ SaveMapping(w))
        PROVE  disk' = disk
    BY <2>5
    DEF Run, RawStep, DriftStep, Poll, PollNothing, Commit, CommitRefused, RawMiss,
        RawApply, RawInvalid, LookupStep, RawApplyRaises, StoreEvent, StoreRaises,
        ForwardToDrift, ForwardToRaw, ForwardToFailed, publishUnchanged, DriftLookup, Get,
        Generate, GenerateFails, GenerateRaises, FailedTooLarge, Crash, Evict, Leave, Forget,
        groupUnchanged, storeVars, vars
  <2>6. CASE UNCHANGED vars
    BY <2>6 DEF vars, storeVars
  <2>7. ASSUME NEW p \in Partitions, RepeatRecord(p)
        PROVE  disk' = disk
    BY <2>7 DEF RepeatRecord, storeVars
  <2>8. ~ PowerFails
    BY <1>1 DEF PowerFails, DeliveryInv, TypeOK
  <2>9. QED
    BY <1>1, <2>1, <2>2, <2>3, <2>4, <2>5, <2>6, <2>7, <2>8 DEF Next
<1>2. DeliveryInv /\ MappingsInv /\ [Next]_vars =>
          [\A c \in Cases \ DOMAIN Predefined : disk[c] # Null => disk'[c] = disk[c]]_vars
  BY <1>1
<1>3. QED
  BY <1>2, DeliveryIsInvariant, MappingsAreInvariant, PTL DEF Spec, MappingsAreWriteOnce

--------------------------------------------------------------------------------
(***************************************************************************)
(* Exactly once.  What disturbs it is counted, so as long as nothing was   *)
(* counted every record has one outcome.                                   *)
(***************************************************************************)
\* A step after which nothing has gone wrong is none of the four that count.
LEMMA NothingWentWrong ==
    ASSUME TypeOK, Next, Undisturbed'
    PROVE  /\ Undisturbed
           /\ \A w \in Workers : ~ Crash(w) /\ ~ Evict(w)
           /\ \A p \in Partitions : ~ RepeatRecord(p)
           /\ ~ PowerFails
<1> USE DEF Undisturbed
<1>1. crashes \in Nat /\ evictions \in Nat /\ repeats \in Nat /\ outages \in Nat
  BY DEF TypeOK
<1>2. ASSUME NEW w \in Workers, Crash(w) \/ Evict(w)
      PROVE  FALSE
  BY <1>1, <1>2 DEF Crash, Evict
<1>3. ASSUME NEW p \in Partitions, RepeatRecord(p)
      PROVE  FALSE
  BY <1>1, <1>3 DEF RepeatRecord
<1>4. ~ PowerFails
  BY <1>1 DEF PowerFails
<1>5. ASSUME NEW e \in Events, Api(e)
      PROVE  UNCHANGED boundVars
  BY <1>5 DEF Api, Accept, AcceptUnconfirmed, Refuse, Reject, apiUnchanged
<1>6. ASSUME NEW w \in Workers, Run(w)
      PROVE  UNCHANGED boundVars
  BY <1>6
  DEF Run, RawStep, DriftStep, Start, Poll, PollNothing, Commit, CommitRefused, RawMiss,
      RawApply, RawInvalid, LookupStep, RawApplyRaises, StoreEvent, StoreRaises,
      DriftLookup, Generate, GenerateFails, GenerateRaises, SaveMapping, ForwardToDrift,
      ForwardToRaw, ForwardToFailed, publishUnchanged, FailedTooLarge, vars
<1>7. ASSUME NEW p \in Partitions, NEW w \in Workers, Coordinator(p, w)
      PROVE  UNCHANGED boundVars
  BY <1>7 DEF Coordinator, AssignFree, Rebalance
<1>8. UNCHANGED boundVars
  BY <1>2, <1>3, <1>4, <1>5, <1>6, <1>7 DEF Next
<1>9. QED
  BY <1>2, <1>3, <1>4, <1>8 DEF boundVars

\* Steps that touch no record and no outcome.
LEMMA FrameKeepsOnce ==
    ASSUME HandledOnce, UNCHANGED <<log, done, db, failed>>,
           \A e \in Events : reply'[e] = "none" => reply[e] = "none"
    PROVE  HandledOnce'
  BY DEF HandledOnce, OneRecordWaits, ResolvedIsOver, UnansweredIsUnseen, FailedNotStored,
     Resolved, Waiting, RecordBeyond

\* A record of an event that waits nowhere else and has no outcome is published.
LEMMA PublishedOnce ==
    ASSUME TypeOK, HandledOnce, NEW q \in Partitions, NEW e \in Events, AppendRecord(q, e),
           done' \in [Partitions -> Nat],
           \A p \in Partitions : done[p] <= done'[p] /\ done'[p] <= Len(log[p]),
           \A p \in Partitions : \A i \in 1..Len(log[p]) : i > done'[p] => log[p][i] # e,
           ~ Resolved(e), reply'[e] # "none", db' = db,
           \A f \in Events : reply'[f] = "none" => reply[f] = "none"
    PROVE  HandledOnce'
<1>1. /\ log \in [Partitions -> Seq(Events)] /\ done \in [Partitions -> Nat]
      /\ log' = [log EXCEPT ![q] = Append(@, e)] /\ failed' = failed
  BY DEF AppendRecord, TypeOK, TopicsTypeOK
<1>2. ASSUME NEW p \in Partitions, NEW i \in 1..Len(log'[p]), i > done'[p]
      PROVE  \/ /\ i \in 1..Len(log[p]) /\ i > done[p]
                /\ log'[p][i] = log[p][i] /\ log'[p][i] # e
             \/ p = q /\ i = Len(log[q]) + 1 /\ log'[p][i] = e
  <2>1. CASE p = q
    <3>1. /\ Len(log'[q]) = Len(log[q]) + 1
          /\ log'[q][Len(log[q]) + 1] = e
          /\ \A j \in 1..Len(log[q]) : log'[q][j] = log[q][j]
      BY <1>1, AppendFacts
    <3>2. Len(log[q]) \in Nat
      BY <1>1
    <3>3. CASE i \in 1..Len(log[q])
      BY <1>1, <1>2, <2>1, <3>1, <3>3
    <3>4. QED
      BY <1>2, <2>1, <3>1, <3>2, <3>3
  <2>2. CASE p # q
    BY <1>1, <1>2, <2>2
  <2>3. QED
    BY <2>1, <2>2
<1>3. OneRecordWaits'
  <2> SUFFICES ASSUME NEW p \in Partitions, NEW r \in Partitions,
                      NEW i \in 1..Len(log'[p]), NEW j \in 1..Len(log'[r]),
                      i > done'[p], j > done'[r], log'[p][i] = log'[r][j]
               PROVE  p = r /\ i = j
    BY DEF OneRecordWaits
  <2>1. CASE log'[p][i] = e
    <3>1. p = q /\ i = Len(log[q]) + 1
      BY <1>2, <2>1
    <3>2. r = q /\ j = Len(log[q]) + 1
      BY <1>2, <2>1
    <3>3. QED
      BY <3>1, <3>2
  <2>2. CASE log'[p][i] # e
    BY <1>2, <2>2 DEF HandledOnce, OneRecordWaits
  <2>3. QED
    BY <2>1, <2>2
<1>4. ASSUME NEW f \in Events, f # e, Waiting(f)'
      PROVE  Waiting(f)
  <2>1. PICK p \in Partitions : \E i \in 1..Len(log'[p]) : i > done'[p] /\ log'[p][i] = f
    BY <1>4 DEF Waiting, RecordBeyond
  <2>2. PICK i \in 1..Len(log'[p]) : i > done'[p] /\ log'[p][i] = f
    BY <2>1
  <2>3. i \in 1..Len(log[p]) /\ i > done[p] /\ log[p][i] = f
    BY <1>2, <1>4, <2>2
  <2>4. QED
    BY <2>3 DEF Waiting, RecordBeyond
<1>5. \A f \in Events : Resolved(f)' <=> Resolved(f)
  BY <1>1 DEF Resolved
<1>6. ResolvedIsOver' /\ UnansweredIsUnseen' /\ FailedNotStored'
  BY <1>1, <1>4, <1>5
  DEF HandledOnce, ResolvedIsOver, UnansweredIsUnseen, FailedNotStored
<1>7. QED
  BY <1>3, <1>6 DEF HandledOnce

\* The only record of an event gets an outcome.
LEMMA ResolvedOnce ==
    ASSUME TypeOK, HandledOnce, NEW e \in Events, log' = log,
           done' \in [Partitions -> Nat], \A p \in Partitions : done[p] <= done'[p],
           \A p \in Partitions : \A i \in 1..Len(log[p]) : i > done'[p] => log[p][i] # e,
           \A f \in Events : Resolved(f)' => Resolved(f) \/ f = e,
           FailedNotStored', reply' = reply, reply[e] # "none"
    PROVE  HandledOnce'
<1>1. log \in [Partitions -> Seq(Events)] /\ done \in [Partitions -> Nat]
  BY DEF TypeOK, TopicsTypeOK
<1>2. ASSUME NEW p \in Partitions, NEW i \in 1..Len(log[p]), i > done'[p]
      PROVE  i > done[p] /\ log[p][i] # e
  BY <1>1, <1>2
<1>3. OneRecordWaits'
  BY <1>2 DEF HandledOnce, OneRecordWaits
<1>4. \A f \in Events : Waiting(f)' => Waiting(f) /\ f # e
  BY <1>2 DEF Waiting, RecordBeyond
<1>5. ResolvedIsOver' /\ UnansweredIsUnseen'
  BY <1>4 DEF HandledOnce, ResolvedIsOver, UnansweredIsUnseen
<1>6. QED
  BY <1>3, <1>5 DEF HandledOnce

\* The calls that end a record find it the only one of its event.
LEMMA OutcomeKeepsOnce ==
    ASSUME DeliveryInv, HandledOnce, OffsetsInStep, NEW w \in Workers,
           \/ ForwardToDrift(w) \/ ForwardToRaw(w) \/ ForwardToFailed(w) \/ StoreEvent(w)
    PROVE  HandledOnce'
<1>1. /\ TypeOK /\ IsBusy(w) /\ pc[w] # "commit" /\ RecordDone(w) /\ reply' = reply
      /\ \A p \in Partitions : done[p] <= Len(log[p])
  BY DEF ForwardToDrift, ForwardToRaw, ForwardToFailed, StoreEvent, IsBusy, Busy,
     DeliveryInv, publishUnchanged
<1>2. RecordInOrder(w)
  BY <1>1 DEF DeliveryInv
<1>3. PICK p \in Partitions, k \in Nat, e \in Events :
          p = part[w] /\ k = offset[w] /\ e = EventAt(w)
  BY <1>1, <1>2, EventAtFacts
<1>4. k \in 1..Len(log[p]) /\ k = done[p] + 1 /\ log[p][k] = e
  BY <1>1, <1>2, <1>3 DEF RecordInOrder, OffsetsInStep, WorksOnNext, EventAt
<1>5. log \in [Partitions -> Seq(Events)] /\ done \in [Partitions -> Nat]
  BY <1>1 DEF TypeOK, TopicsTypeOK
<1>6. /\ done' \in [Partitions -> Nat]
      /\ done'[p] = k
      /\ \A r \in Partitions : r # p => done'[r] = done[r]
  BY <1>1, <1>3, <1>4, <1>5 DEF RecordDone
<1>7. \A r \in Partitions : done[r] <= done'[r] /\ done'[r] <= Len(log[r])
  <2> SUFFICES ASSUME NEW r \in Partitions
               PROVE  done[r] <= done'[r] /\ done'[r] <= Len(log[r])
    OBVIOUS
  <2>1. CASE r = p
    BY <1>4, <1>5, <1>6, <2>1
  <2>2. CASE r # p
    BY <1>1, <1>5, <1>6, <2>2
  <2>3. QED
    BY <2>1, <2>2
<1>8. ASSUME NEW r \in Partitions, NEW i \in 1..Len(log[r]), i > done'[r]
      PROVE  log[r][i] # e
  <2> SUFFICES ASSUME log[r][i] = e
               PROVE  FALSE
    OBVIOUS
  <2>1. i > done[r] /\ k > done[p]
    BY <1>4, <1>5, <1>6, <1>7, <1>8
  <2>2. r = p /\ i = k
    BY <1>4, <2>1 DEF HandledOnce, OneRecordWaits
  <2>3. QED
    BY <1>6, <1>8, <2>2
<1>9. Waiting(e)
  BY <1>4, <1>5 DEF Waiting, RecordBeyond
<1>10. ~ Resolved(e) /\ reply[e] # "none"
  BY <1>9 DEF HandledOnce, ResolvedIsOver, UnansweredIsUnseen
<1>11. ASSUME NEW q \in Partitions, AppendRecord(q, e), db' = db
       PROVE  HandledOnce'
  BY <1>1, <1>6, <1>7, <1>8, <1>10, <1>11, PublishedOnce
<1>12. ASSUME log' = log, FailedNotStored', \A f \in Events : Resolved(f)' => Resolved(f) \/ f = e
       PROVE  HandledOnce'
  BY <1>1, <1>6, <1>7, <1>8, <1>10, <1>12, ResolvedOnce
<1>13. CASE ForwardToDrift(w)
  <2>1. KeyPartition[CaseOf[e]] \in Partitions
    BY DeploymentAssumption, TopicsAssumption DEF Partitions
  <2>2. AppendRecord(KeyPartition[CaseOf[e]], e) /\ db' = db
    BY <1>3, <1>13 DEF ForwardToDrift, PublishDrift, publishUnchanged
  <2>3. QED
    BY <1>11, <2>1, <2>2
<1>14. CASE ForwardToRaw(w)
  BY <1>3, <1>11, <1>14 DEF ForwardToRaw, PublishRaw, Partitions, publishUnchanged
<1>15. CASE ForwardToFailed(w)
  <2>1. log' = log /\ db' = db /\ failed' = failed \cup {e}
    BY <1>3, <1>15 DEF ForwardToFailed, PublishFailed, publishUnchanged
  <2>2. FailedNotStored'
    BY <1>10, <2>1 DEF HandledOnce, FailedNotStored, Resolved
  <2>3. QED
    BY <1>12, <2>1, <2>2 DEF Resolved
<1>16. CASE StoreEvent(w)
  <2>1. /\ log' = log /\ failed' = failed
        /\ \A f \in Events : f # e => db'[f] = db[f]
    BY <1>1, <1>3, <1>16 DEF StoreEvent, topicVars, TypeOK
  <2>2. FailedNotStored'
    BY <1>10, <2>1 DEF HandledOnce, FailedNotStored, Resolved
  <2>3. QED
    BY <1>12, <2>1, <2>2 DEF Resolved
<1>17. QED
  BY <1>13, <1>14, <1>15, <1>16

\* Every step leaves each event in one place.
LEMMA HandledOnceStep ==
    ASSUME DeliveryInv, HandledOnce, OffsetsInStep, Next,
           \A p \in Partitions : ~ RepeatRecord(p), ~ PowerFails
    PROVE  HandledOnce'
<1>1. ASSUME NEW e \in Events, Api(e)
      PROVE  HandledOnce'
  <2>1. /\ reply[e] = "none" /\ db' = db /\ done' = done
        /\ reply'[e] # "none" /\ \A f \in Events : reply'[f] = "none" => reply[f] = "none"
    BY <1>1 DEF Api, Accept, AcceptUnconfirmed, Refuse, Reject, apiUnchanged, DeliveryInv,
       TypeOK
  <2>2. CASE UNCHANGED <<log, failed>>
    BY <2>1, <2>2, FrameKeepsOnce
  <2>3. ASSUME NEW q \in RawPartitions, AppendRecord(q, e)
        PROVE  HandledOnce'
    <3>1. ~ Waiting(e) /\ ~ Resolved(e)
      BY <2>1 DEF HandledOnce, UnansweredIsUnseen
    <3>2. \A p \in Partitions : \A i \in 1..Len(log[p]) : i > done'[p] => log[p][i] # e
      BY <2>1, <3>1 DEF Waiting, RecordBeyond
    <3>3. /\ done' \in [Partitions -> Nat]
          /\ \A p \in Partitions : done[p] <= done'[p] /\ done'[p] <= Len(log[p])
      BY <2>1 DEF DeliveryInv, TypeOK
    <3>4. q \in Partitions /\ TypeOK
      BY DEF Partitions, DeliveryInv
    <3>5. QED
      BY <2>1, <2>3, <3>1, <3>2, <3>3, <3>4, PublishedOnce
  <2>4. QED
    BY <1>1, <2>2, <2>3 DEF Api, Accept, AcceptUnconfirmed, Refuse, Reject, PublishRaw
<1>2. ASSUME NEW w \in Workers, Run(w) \/ Crash(w) \/ Evict(w)
      PROVE  HandledOnce'
  <2>1. CASE ForwardToDrift(w) \/ ForwardToRaw(w) \/ ForwardToFailed(w) \/ StoreEvent(w)
    BY <2>1, OutcomeKeepsOnce
  <2>2. CASE ~ (ForwardToDrift(w) \/ ForwardToRaw(w) \/ ForwardToFailed(w) \/ StoreEvent(w))
    <3>1. UNCHANGED <<log, done, db, failed, reply>>
      BY <1>2, <2>2
      DEF Run, RawStep, DriftStep, Start, Poll, PollNothing, Commit, CommitRefused, RawMiss,
          RawApply, RawInvalid, LookupStep, RawApplyRaises, StoreRaises, DriftLookup,
          Generate, GenerateFails, GenerateRaises, SaveMapping, FailedTooLarge, Crash, Evict,
          Leave, groupUnchanged, topicVars, vars
    <3>2. QED
      BY <3>1, FrameKeepsOnce
  <2>3. QED
    BY <2>1, <2>2
<1>3. ASSUME NEW p \in Partitions, NEW w \in Workers, Coordinator(p, w)
      PROVE  HandledOnce'
  BY <1>3, FrameKeepsOnce DEF Coordinator, AssignFree, Rebalance, groupUnchanged
<1>4. QED
  BY <1>1, <1>2, <1>3 DEF Next

\* Steps of one process at work that neither end its record nor commit it.
LEMMA LocalKeepsOffsets ==
    ASSUME TypeOK, OffsetsInStep, NEW w \in Workers, NEW label \in Busy \ {"commit"},
           pc[w] \in Busy \ {"commit"}, Goto(w, label),
           UNCHANGED <<committed, owner, position, part, offset, done>>
    PROVE  OffsetsInStep'
<1>1. /\ \A v \in Workers : IsBusy(v)' <=> IsBusy(v)
      /\ \A v \in Workers : pc'[v] = "commit" <=> pc[v] = "commit"
  BY DEF Goto, TypeOK, IsBusy
<1>2. WorksOnNext'
  BY <1>1 DEF OffsetsInStep, WorksOnNext
<1>3. CommitCatchesUp'
  BY <1>1 DEF OffsetsInStep, CommitCatchesUp, Holds
<1>4. FetchesNoOutcome'
  BY <1>1 DEF OffsetsInStep, FetchesNoOutcome, Holds, TypeOK, TopicsTypeOK
<1>5. QED
  BY <1>2, <1>3, <1>4 DEF OffsetsInStep

\* The outcome is there: the process, still the owner, goes on to commit.
LEMMA OutcomeKeepsOffsets ==
    ASSUME DeliveryInv, OwnersKeep, OffsetsInStep, NEW w \in Workers,
           pc[w] \in Busy \ {"commit"}, Goto(w, "commit"), RecordDone(w),
           UNCHANGED <<committed, owner, position, part, offset>>
    PROVE  OffsetsInStep'
<1>1. TypeOK /\ IsBusy(w) /\ RecordInOrder(w) /\ owner[part[w]] = w
  BY DEF DeliveryInv, IsBusy, OwnersKeep
<1>2. PICK p \in Partitions : p = part[w]
  BY <1>1, EventAtFacts
<1>3. offset[w] = done[p] + 1 /\ offset[w] \in Nat /\ done[p] \in Nat
  BY <1>1, <1>2 DEF OffsetsInStep, WorksOnNext, TypeOK
<1>4. done'[p] = offset[w] /\ \A r \in Partitions : r # p => done'[r] = done[r]
  BY <1>1, <1>2, <1>3 DEF RecordDone, TypeOK
<1>5. /\ pc'[w] = "commit"
      /\ \A v \in Workers : v # w => pc'[v] = pc[v]
      /\ \A v \in Workers : IsBusy(v)' <=> IsBusy(v)
  BY <1>1 DEF Goto, TypeOK, IsBusy, Busy
<1>6. \A v \in Workers : IsBusy(v) /\ v # w => part[v] # p /\ part[v] \in Partitions
  BY <1>1, <1>2, EventAtFacts DEF OwnersKeep, DeliveryInv
<1>7. WorksOnNext'
  BY <1>2, <1>4, <1>5, <1>6 DEF OffsetsInStep, WorksOnNext
<1>8. \A v \in Workers, r \in Partitions : Holds(v, r)' <=> Holds(v, r)
  BY <1>5 DEF Holds
<1>9. CommitCatchesUp'
  <2> SUFFICES ASSUME NEW r \in Partitions
               PROVE  committed[r] = done'[r]
                      \/ \E v \in Workers : Holds(v, r) /\ pc'[v] = "commit"
    BY <1>8 DEF CommitCatchesUp
  <2>1. CASE r = p
    BY <1>1, <1>2, <1>5, <2>1 DEF Holds
  <2>2. CASE r # p
    BY <1>4, <1>5, <2>2 DEF OffsetsInStep, CommitCatchesUp
  <2>3. QED
    BY <2>1, <2>2
<1>10. FetchesNoOutcome'
  <2> SUFFICES ASSUME NEW r \in Partitions, owner[r] # Null
               PROVE  Holds(owner[r], r) \/ position[r] >= done'[r]
    BY <1>1, <1>8 DEF FetchesNoOutcome, TypeOK, TopicsTypeOK
  <2>1. CASE r = p
    BY <1>1, <1>2, <2>1 DEF Holds
  <2>2. CASE r # p
    BY <1>4, <2>2 DEF OffsetsInStep, FetchesNoOutcome
  <2>3. QED
    BY <2>1, <2>2
<1>11. QED
  BY <1>7, <1>9, <1>10 DEF OffsetsInStep

\* A process that gives up has no outcome it did not commit: whoever gets its
\* partitions reads the record again, for the first time.
LEMMA LeaveKeepsOffsets ==
    ASSUME DeliveryInv, OwnersKeep, OffsetsInStep, NEW w \in Workers,
           IsBusy(w), pc[w] # "commit", Leave(w)
    PROVE  OffsetsInStep'
<1>1. TypeOK
  BY DEF DeliveryInv
<1>2. /\ pc'[w] = "down" /\ ~ IsBusy(w)'
      /\ UNCHANGED <<committed, position, done>>
      /\ \A v \in Workers \ {w} :
             /\ pc'[v] = pc[v] /\ part'[v] = part[v] /\ offset'[v] = offset[v]
             /\ IsBusy(v)' <=> IsBusy(v)
      /\ \A p \in Partitions : owner'[p] = IF owner[p] = w THEN Null ELSE owner[p]
  BY <1>1 DEF Leave, Goto, Release, TypeOK, IsBusy, Busy
<1>3. WorksOnNext'
  BY <1>2 DEF OffsetsInStep, WorksOnNext
<1>4. \A v \in Workers \ {w}, p \in Partitions : Holds(v, p)' <=> Holds(v, p)
  BY <1>2, DeploymentAssumption DEF Holds
<1>5. CommitCatchesUp'
  BY <1>2, <1>4 DEF OffsetsInStep, CommitCatchesUp
<1>6. FetchesNoOutcome'
  <2> SUFFICES ASSUME NEW p \in Partitions, owner'[p] # Null
               PROVE  Holds(owner[p], p)' \/ position[p] >= done[p]
    BY <1>2 DEF FetchesNoOutcome, Holds
  <2>1. owner'[p] = owner[p] /\ owner[p] \in Workers \ {w}
    BY <1>1, <1>2 DEF TypeOK, TopicsTypeOK
  <2>2. Holds(owner[p], p) \/ position[p] >= done[p]
    BY <2>1, DeploymentAssumption DEF OffsetsInStep, FetchesNoOutcome
  <2>3. CASE position[p] >= done[p]
    BY <2>3
  <2>4. CASE Holds(owner[p], p)
    BY <1>2, <2>1, <2>4 DEF Holds
  <2>5. QED
    BY <2>2, <2>3, <2>4
<1>7. QED
  BY <1>3, <1>5, <1>6 DEF OffsetsInStep

\* The owner fetches the first record without an outcome.
LEMMA PollKeepsOffsets ==
    ASSUME DeliveryInv, OffsetsInStep, NEW w \in Workers, NEW p \in Partitions, Poll(w, p)
    PROVE  OffsetsInStep'
<1>1. TypeOK /\ ~ IsBusy(w) /\ owner[p] = w /\ w # Null
  BY DeploymentAssumption DEF DeliveryInv, Poll, IsBusy, Busy, HasRecord
<1>2. /\ pc'[w] = "lookup" /\ IsBusy(w)' /\ part'[w] = p /\ offset'[w] = position[p] + 1
      /\ UNCHANGED <<committed, owner, done>>
      /\ position'[p] = position[p] + 1
      /\ \A r \in Partitions : r # p => position'[r] = position[r]
      /\ \A v \in Workers \ {w} :
             /\ pc'[v] = pc[v] /\ part'[v] = part[v] /\ offset'[v] = offset[v]
             /\ IsBusy(v)' <=> IsBusy(v)
  BY <1>1 DEF Poll, Fetch, Goto, TypeOK, TopicsTypeOK, IsBusy, Busy
<1>3. position[p] = done[p]
  <2>1. ~ Holds(w, p)
    BY <1>1 DEF Holds
  <2>2. position[p] >= done[p] /\ position[p] <= done[p]
    BY <1>1, <2>1
    DEF OffsetsInStep, FetchesNoOutcome, DeliveryInv, OwnerInOrder
  <2>3. QED
    BY <1>1, <2>2 DEF TypeOK, TopicsTypeOK
<1>4. WorksOnNext'
  BY <1>2, <1>3 DEF OffsetsInStep, WorksOnNext
<1>5. \A v \in Workers, r \in Partitions : Holds(v, r) => v # w /\ Holds(v, r)'
  BY <1>1, <1>2 DEF Holds
<1>6. CommitCatchesUp'
  BY <1>2, <1>5 DEF OffsetsInStep, CommitCatchesUp
<1>7. FetchesNoOutcome'
  <2> SUFFICES ASSUME NEW r \in Partitions, owner[r] # Null
               PROVE  Holds(owner[r], r)' \/ position'[r] >= done[r]
    BY <1>2 DEF FetchesNoOutcome, Holds
  <2>1. CASE r = p
    BY <1>1, <1>2, <2>1 DEF Holds
  <2>2. CASE r # p
    <3>1. owner[r] \in Workers
      BY <1>1 DEF TypeOK, TopicsTypeOK
    <3>2. QED
      BY <1>2, <1>5, <2>2, <3>1 DEF OffsetsInStep, FetchesNoOutcome
  <2>3. QED
    BY <2>1, <2>2
<1>8. QED
  BY <1>4, <1>6, <1>7 DEF OffsetsInStep

\* The commit brings the group's offset up to the outcomes.
LEMMA CommitKeepsOffsets ==
    ASSUME DeliveryInv, OwnersKeep, OffsetsInStep, NEW w \in Workers, Commit(w)
    PROVE  OffsetsInStep'
<1>1. TypeOK /\ IsBusy(w) /\ pc[w] = "commit"
  BY DEF DeliveryInv, Commit, IsBusy, Busy
<1>2. RecordInOrder(w) /\ owner[part[w]] = w
  BY <1>1 DEF DeliveryInv, OwnersKeep
<1>3. PICK p \in Partitions : p = part[w]
  BY <1>1, <1>2, EventAtFacts
<1>4. /\ offset[w] = done[p] /\ position[p] = done[p] /\ done[p] \in Nat
  BY <1>1, <1>2, <1>3 DEF OffsetsInStep, WorksOnNext, RecordInOrder, TypeOK
<1>5. /\ pc'[w] = "poll" /\ ~ IsBusy(w)'
      /\ UNCHANGED <<owner, position, done>>
      /\ committed'[p] = done[p]
      /\ \A r \in Partitions : r # p => committed'[r] = committed[r]
      /\ \A v \in Workers \ {w} :
             /\ pc'[v] = pc[v] /\ part'[v] = part[v] /\ offset'[v] = offset[v]
             /\ IsBusy(v)' <=> IsBusy(v)
  BY <1>1, <1>3, <1>4 DEF Commit, CommitOffset, Goto, TypeOK, TopicsTypeOK, IsBusy, Busy
<1>6. WorksOnNext'
  BY <1>5 DEF OffsetsInStep, WorksOnNext
<1>7. \A v \in Workers, r \in Partitions : r # p => (Holds(v, r) <=> Holds(v, r)')
  BY <1>1, <1>3, <1>5 DEF Holds
<1>8. CommitCatchesUp'
  <2> SUFFICES ASSUME NEW r \in Partitions, r # p
               PROVE  committed[r] = done[r]
                      \/ \E v \in Workers : Holds(v, r)' /\ pc'[v] = "commit"
    BY <1>5 DEF CommitCatchesUp
  <2>1. CASE committed[r] = done[r]
    BY <2>1
  <2>2. ASSUME NEW v \in Workers, Holds(v, r), pc[v] = "commit"
        PROVE  Holds(v, r)' /\ pc'[v] = "commit"
    BY <1>3, <1>5, <1>7, <2>2 DEF Holds
  <2>3. QED
    BY <2>1, <2>2 DEF OffsetsInStep, CommitCatchesUp
<1>9. FetchesNoOutcome'
  <2> SUFFICES ASSUME NEW r \in Partitions, owner[r] # Null
               PROVE  Holds(owner[r], r)' \/ position[r] >= done[r]
    BY <1>5 DEF FetchesNoOutcome, Holds
  <2>1. CASE r = p
    BY <1>4, <2>1
  <2>2. CASE r # p
    <3>1. owner[r] \in Workers
      BY <1>1 DEF TypeOK, TopicsTypeOK
    <3>2. QED
      BY <1>5, <1>7, <2>2, <3>1 DEF OffsetsInStep, FetchesNoOutcome
  <2>3. QED
    BY <2>1, <2>2
<1>10. QED
  BY <1>6, <1>8, <1>9 DEF OffsetsInStep

\* A partition is handed over when nobody of its group works on it: everything
\* with an outcome is committed, and the new owner starts right after it.
LEMMA AssignKeepsOffsets ==
    ASSUME DeliveryInv, OwnersKeep, OffsetsInStep,
           NEW p \in Partitions, NEW w \in Workers, Coordinator(p, w)
    PROVE  OffsetsInStep'
<1>1. TypeOK
  BY DEF DeliveryInv
<1>2. /\ p \in GroupPartitions(w) /\ CanRebalance(w) /\ Assign(p, w)
      /\ UNCHANGED <<committed, pc, part, offset, done>>
  BY DEF Coordinator, AssignFree, Rebalance, groupUnchanged, workerVars
<1>3. ASSUME NEW v \in Workers, Holds(v, p)
      PROVE  FALSE
  <2>1. part[v] = p /\ p \in GroupPartitions(v)
    BY <1>1, <1>3, EventAtFacts DEF Holds, DeliveryInv, RecordInOrder
  <2>2. v \in Group(w)
    BY <1>2, <2>1, TopicsAssumption DEF GroupPartitions, Group, Workers
  <2>3. QED
    BY <1>2, <1>3, <2>2 DEF CanRebalance
<1>4. committed[p] = done[p]
  BY <1>3 DEF OffsetsInStep, CommitCatchesUp
<1>5. /\ position'[p] = done[p]
      /\ \A r \in Partitions : r # p => position'[r] = position[r] /\ owner'[r] = owner[r]
  BY <1>1, <1>2, <1>4 DEF Assign, TypeOK, TopicsTypeOK
<1>6. WorksOnNext'
  BY <1>2 DEF OffsetsInStep, WorksOnNext, IsBusy
<1>7. \A v \in Workers, r \in Partitions : r # p => (Holds(v, r) <=> Holds(v, r)')
  BY <1>2, <1>5 DEF Holds, IsBusy
<1>8. CommitCatchesUp'
  <2> SUFFICES ASSUME NEW r \in Partitions, r # p
               PROVE  committed[r] = done[r]
                      \/ \E v \in Workers : Holds(v, r)' /\ pc[v] = "commit"
    BY <1>2, <1>4 DEF CommitCatchesUp
  <2>1. QED
    BY <1>7 DEF OffsetsInStep, CommitCatchesUp
<1>9. FetchesNoOutcome'
  <2> SUFFICES ASSUME NEW r \in Partitions, owner'[r] # Null
               PROVE  Holds(owner[r], r)' \/ position'[r] >= done[r]
    BY <1>2 DEF FetchesNoOutcome, Holds
  <2>1. CASE r = p
    BY <1>1, <1>5, <2>1 DEF TypeOK
  <2>2. CASE r # p
    <3>1. owner'[r] = owner[r] /\ owner[r] \in Workers
      BY <1>1, <1>5, <2>2 DEF TypeOK, TopicsTypeOK
    <3>2. Holds(owner[r], r) \/ position[r] >= done[r]
      BY <3>1, DeploymentAssumption DEF OffsetsInStep, FetchesNoOutcome
    <3>3. Holds(owner[r], r) => Holds(owner[r], r)'
      BY <1>2, <1>5, <2>2, <3>1 DEF Holds, IsBusy
    <3>4. QED
      BY <1>5, <2>2, <3>2, <3>3
  <2>3. QED
    BY <2>1, <2>2
<1>10. QED
  BY <1>6, <1>8, <1>9 DEF OffsetsInStep

\* A step that moves no process, partition or offset.
LEMMA StillKeepsOffsets ==
    ASSUME TypeOK, OffsetsInStep, UNCHANGED <<committed, owner, position, part, offset, done>>,
           \A v \in Workers : pc'[v] = pc[v] \/ {pc[v], pc'[v]} \subseteq {"down", "poll"}
    PROVE  OffsetsInStep'
<1>1. \A v \in Workers : IsBusy(v)' <=> IsBusy(v)
  BY DEF IsBusy, Busy
<1>2. \A v \in Workers : pc'[v] = "commit" <=> pc[v] = "commit"
  OBVIOUS
<1>3. WorksOnNext'
  BY <1>1, <1>2 DEF OffsetsInStep, WorksOnNext
<1>4. CommitCatchesUp'
  BY <1>1, <1>2 DEF OffsetsInStep, CommitCatchesUp, Holds
<1>5. FetchesNoOutcome'
  BY <1>1 DEF OffsetsInStep, FetchesNoOutcome, Holds, TypeOK, TopicsTypeOK
<1>6. QED
  BY <1>3, <1>4, <1>5 DEF OffsetsInStep

\* Every step keeps offsets, positions and outcomes in step.
LEMMA OffsetsStep ==
    ASSUME DeliveryInv, OwnersKeep, OffsetsInStep, Next,
           \A w \in Workers : ~ Crash(w) /\ ~ Evict(w),
           \A p \in Partitions : ~ RepeatRecord(p), ~ PowerFails
    PROVE  OffsetsInStep'
<1>1. TypeOK
  BY DEF DeliveryInv
<1>2. ASSUME NEW e \in Events, Api(e)
      PROVE  OffsetsInStep'
  BY <1>1, <1>2, StillKeepsOffsets DEF Api, Accept, AcceptUnconfirmed, Refuse, Reject,
     apiUnchanged, workerVars
<1>3. ASSUME NEW w \in Workers, Run(w)
      PROVE  OffsetsInStep'
  <2>1. CASE Start(w) \/ PollNothing(w)
    <3>1. \A v \in Workers : pc'[v] = pc[v] \/ {pc[v], pc'[v]} \subseteq {"down", "poll"}
      BY <1>1, <2>1 DEF Start, PollNothing, Goto, vars, workerVars, TypeOK
    <3>2. UNCHANGED <<committed, owner, position, part, offset, done>>
      BY <2>1 DEF Start, PollNothing, topicVars, vars, workerVars
    <3>3. QED
      BY <1>1, <3>1, <3>2, StillKeepsOffsets
  <2>2. CASE RawMiss(w) \/ RawApply(w) \/ RawInvalid(w) \/ DriftLookup(w) \/ Generate(w)
             \/ GenerateFails(w) \/ SaveMapping(w)
    <3>1. PICK label \in Busy \ {"commit"} : Goto(w, label)
      BY <2>2 DEF RawMiss, RawApply, RawInvalid, LookupStep, DriftLookup, Generate,
         GenerateFails, SaveMapping, Busy, Goto
    <3>2. /\ pc[w] \in Busy \ {"commit"}
          /\ UNCHANGED <<committed, owner, position, part, offset, done>>
      BY <2>2 DEF RawMiss, RawApply, RawInvalid, LookupStep, DriftLookup, Generate,
         GenerateFails, SaveMapping, Busy, topicVars
    <3>3. QED
      BY <1>1, <3>1, <3>2, LocalKeepsOffsets
  <2>3. CASE ForwardToDrift(w) \/ ForwardToRaw(w) \/ ForwardToFailed(w) \/ StoreEvent(w)
    <3>1. /\ pc[w] \in Busy \ {"commit"} /\ Goto(w, "commit") /\ RecordDone(w)
          /\ UNCHANGED <<committed, owner, position, part, offset>>
      BY <2>3 DEF ForwardToDrift, ForwardToRaw, ForwardToFailed, StoreEvent, Busy,
         publishUnchanged, topicVars
    <3>2. QED
      BY <3>1, OutcomeKeepsOffsets
  <2>4. CASE CommitRefused(w)
    BY <2>4 DEF CommitRefused, OwnersKeep, IsBusy, Busy
  <2>5. CASE RawApplyRaises(w) \/ StoreRaises(w) \/ GenerateRaises(w) \/ FailedTooLarge(w)
    <3>1. IsBusy(w) /\ pc[w] # "commit" /\ Leave(w)
      BY <2>5 DEF RawApplyRaises, StoreRaises, GenerateRaises, FailedTooLarge, IsBusy, Busy
    <3>2. QED
      BY <3>1, LeaveKeepsOffsets
  <2>6. CASE Commit(w)
    BY <2>6, CommitKeepsOffsets
  <2>7. QED
    BY <1>3, <2>1, <2>2, <2>3, <2>4, <2>5, <2>6, PollKeepsOffsets DEF Run, RawStep, DriftStep
<1>4. QED
  BY <1>2, <1>3, AssignKeepsOffsets DEF Next

\* The invariant holds at first and after every step.
LEMMA ExactlyOnceStep ==
    ASSUME DeliveryInv, ExactlyOnceInv, [Next]_vars
    PROVE  ExactlyOnceInv'
<1>1. CASE UNCHANGED vars
  BY <1>1 DEF vars, topicVars, workerVars, boundVars, ExactlyOnceInv, Undisturbed, OwnersKeep,
     HandledOnce, OneRecordWaits, ResolvedIsOver, UnansweredIsUnseen, FailedNotStored,
     OffsetsInStep, WorksOnNext, CommitCatchesUp, FetchesNoOutcome, Resolved, Waiting,
     RecordBeyond, Holds, IsBusy
<1>2. CASE Next
  <2> SUFFICES ASSUME Undisturbed'
               PROVE  OwnersKeep' /\ HandledOnce' /\ OffsetsInStep'
    BY DEF ExactlyOnceInv
  <2>1. /\ Undisturbed
        /\ \A w \in Workers : ~ Crash(w) /\ ~ Evict(w)
        /\ \A p \in Partitions : ~ RepeatRecord(p)
        /\ ~ PowerFails
    BY <1>2, NothingWentWrong DEF DeliveryInv
  <2>2. OwnersKeep /\ HandledOnce /\ OffsetsInStep
    BY <2>1 DEF ExactlyOnceInv
  <2>3. QED
    BY <1>2, <2>1, <2>2, OwnersStep, HandledOnceStep, OffsetsStep
<1>3. QED
  BY <1>1, <1>2

LEMMA ExactlyOnceInit == Init => ExactlyOnceInv
<1> SUFFICES ASSUME Init
             PROVE  ExactlyOnceInv
  OBVIOUS
<1>1. /\ \A w \in Workers : ~ IsBusy(w)
      /\ \A p \in Partitions :
             Len(log[p]) = 0 /\ committed[p] = 0 /\ done[p] = 0 /\ owner[p] = Null
      /\ \A e \in Events : db[e] = Null
      /\ failed = {}
  BY DEF Init, TopicsInit, IsBusy, Busy
<1>2. \A p \in Partitions : 1..Len(log[p]) = {}
  BY <1>1
<1>3. OneRecordWaits /\ \A e \in Events : ~ Waiting(e) /\ ~ Resolved(e)
  BY <1>1, <1>2 DEF OneRecordWaits, Waiting, RecordBeyond, Resolved
<1>4. HandledOnce
  BY <1>1, <1>3 DEF HandledOnce, ResolvedIsOver, UnansweredIsUnseen, FailedNotStored
<1>5. OwnersKeep /\ OffsetsInStep
  BY <1>1 DEF OwnersKeep, OffsetsInStep, WorksOnNext, CommitCatchesUp, FetchesNoOutcome
<1>6. QED
  BY <1>4, <1>5 DEF ExactlyOnceInv

\* Until a process is killed or evicted, a record repeated or a machine lost, the
\* pipeline handles every record exactly once.
THEOREM HandledExactlyOnce == Spec => []ExactlyOnceInv
<1>1. DeliveryInv /\ ExactlyOnceInv /\ [Next]_vars => ExactlyOnceInv'
  BY ExactlyOnceStep
<1>2. QED
  BY <1>1, ExactlyOnceInit, DeliveryIsInvariant, PTL DEF Spec

\* What README.md:220 says of failed-events is true where nothing goes wrong; the
\* crash of the run failed_not_stored is the kind of event it takes to refute it.
THEOREM FailedNotStoredUndisturbed ==
    ASSUME MaxCrashes = 0, MaxEvictions = 0, MaxRepeats = 0, MaxOutages = 0
    PROVE  Spec => []FailedNotStored
<1>1. DeliveryInv => Undisturbed
  BY DEF DeliveryInv, TypeOK, Undisturbed
<1>2. ExactlyOnceInv /\ Undisturbed => FailedNotStored
  BY DEF ExactlyOnceInv, HandledOnce
<1>3. QED
  BY <1>1, <1>2, DeliveryIsInvariant, HandledExactlyOnce, PTL

================================================================================
