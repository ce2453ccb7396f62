-------------------------- MODULE EventPipelineProofs --------------------------
(***************************************************************************)
(* Theorems about EventPipeline, for every set of events, cases, mappings, *)
(* partitions and processes, and every bound on crashes, evictions,        *)
(* repeated records and power failures.                                    *)
(***************************************************************************)
EXTENDS EventPipeline, TLAPS

--------------------------------------------------------------------------------
\* Appending a record moves no record and adds one at the end.
LEMMA AppendFacts ==
    ASSUME log \in [Partitions -> Seq(Events)],
           NEW q \in Partitions, NEW e \in Events,
           log' = [log EXCEPT ![q] = Append(@, e)]
    PROVE  /\ log' \in [Partitions -> Seq(Events)]
           /\ Len(log'[q]) = Len(log[q]) + 1
           /\ log'[q][Len(log[q]) + 1] = e
           /\ \A p \in Partitions :
                  /\ Len(log[p]) <= Len(log'[p])
                  /\ \A i \in 1..Len(log[p]) : log'[p][i] = log[p][i]
                  /\ \A i \in 1..Len(log'[p]) :
                         i \in 1..Len(log[p]) \/ log'[p][i] = e
<1>1. \A p \in Partitions : log[p] \in Seq(Events)
  OBVIOUS
<1>2. \A p \in Partitions : log'[p] = IF p = q THEN Append(log[q], e) ELSE log[p]
  OBVIOUS
<1>3. Append(log[q], e) \in Seq(Events)
  BY <1>1
<1>4. Len(Append(log[q], e)) = Len(log[q]) + 1
  BY <1>1
<1>5. \A i \in 1..Len(log[q]) : Append(log[q], e)[i] = log[q][i]
  BY <1>1
<1>6. Append(log[q], e)[Len(log[q]) + 1] = e
  BY <1>1
<1>7. Len(log[q]) \in Nat
  BY <1>1
<1>8. log' \in [Partitions -> Seq(Events)]
  BY <1>1, <1>2, <1>3
<1>9. ASSUME NEW p \in Partitions
      PROVE  /\ Len(log[p]) <= Len(log'[p])
             /\ \A i \in 1..Len(log[p]) : log'[p][i] = log[p][i]
             /\ \A i \in 1..Len(log'[p]) :
                    i \in 1..Len(log[p]) \/ log'[p][i] = e
  <2>1. CASE p = q
    BY <2>1, <1>2, <1>4, <1>5, <1>6, <1>7
  <2>2. CASE p # q
    BY <2>2, <1>2, <1>1
  <2>3. QED
    BY <2>1, <2>2
<1>10. QED
  BY <1>2, <1>4, <1>6, <1>8, <1>9

\* A process at work handles a record of its group, and an event of the system.
LEMMA EventAtFacts ==
    ASSUME TypeOK, NEW w \in Workers, RecordInOrder(w)
    PROVE  /\ part[w] \in Partitions
           /\ offset[w] \in Nat
           /\ EventAt(w) \in Events
<1>1. part[w] \in Partitions
  BY DEF RecordInOrder, GroupPartitions, Partitions
<1>2. log[part[w]] \in Seq(Events)
  BY <1>1 DEF TypeOK, TopicsTypeOK
<1>3. QED
  BY <1>1, <1>2 DEF RecordInOrder, TypeOK, EventAt

\* The records of a partition are events.
LEMMA RecordIsEvent ==
    ASSUME TypeOK, NEW p \in Partitions, NEW i \in 1..Len(log[p])
    PROVE  log[p][i] \in Events
<1>1. log[p] \in Seq(Events)
  BY DEF TypeOK, TopicsTypeOK
<1>2. QED
  BY <1>1

\* The mapping get returns is a mapping or None, and caching it is type correct.
LEMMA GetType ==
    ASSUME StoreTypeOK, NEW w \in Workers, NEW c \in Cases, Get(w, c)
    PROVE  StoreTypeOK'
<1>1. Lookup(w, c) \in Mappings \cup {Null}
  BY DEF StoreTypeOK, Lookup
<1>2. QED
  BY <1>1 DEF Get, StoreTypeOK

\* A process that leaves takes nothing with it that has a type to break.
LEMMA LeaveType ==
    ASSUME TypeOK, NEW w \in Workers, Leave(w),
           crashes' \in 0..MaxCrashes, evictions' \in 0..MaxEvictions,
           UNCHANGED <<repeats, outages>>
    PROVE  TypeOK'
<1>1. TopicsTypeOK'
  BY DEF Leave, Release, TypeOK, TopicsTypeOK
<1>2. StoreTypeOK'
  BY DEF Leave, Forget, TypeOK, StoreTypeOK
<1>3. QED
  BY <1>1, <1>2 DEF Leave, Goto, TypeOK, Busy

\* The history of outcomes only moves forward, and over the record handled.
LEMMA RecordDoneFacts ==
    ASSUME TypeOK, NEW w \in Workers, part[w] \in Partitions, RecordDone(w)
    PROVE  /\ done' \in [Partitions -> Nat]
           /\ \A p \in Partitions : done[p] <= done'[p]
           /\ \A p \in Partitions : p # part[w] => done'[p] = done[p]
           /\ offset[w] <= done'[part[w]]
           /\ done'[part[w]] \in {done[part[w]], offset[w]}
  BY DEF TypeOK, RecordDone

--------------------------------------------------------------------------------
(***************************************************************************)
(* Type correctness of each step.  Steps that publish or look up a mapping *)
(* need RecordInOrder: it says that the record handled is there to read.   *)
(***************************************************************************)
\* A request leaves topics, replies and everything else with their types.
LEMMA TypeApi ==
    ASSUME TypeOK, NEW e \in Events, Api(e)
    PROVE  TypeOK'
<1>1. ASSUME PublishRaw(e)
      PROVE  log' \in [Partitions -> Seq(Events)] /\ failed' = failed
  <2>1. PICK q \in RawPartitions : AppendRecord(q, e)
    BY <1>1 DEF PublishRaw
  <2>2. q \in Partitions
    BY DEF Partitions
  <2>3. QED
    BY <2>1, <2>2, AppendFacts DEF AppendRecord, TypeOK, TopicsTypeOK
<1>2. log' \in [Partitions -> Seq(Events)] /\ failed' = failed
  BY <1>1 DEF Api, Accept, AcceptUnconfirmed, Refuse, Reject, TypeOK, TopicsTypeOK
<1>3. /\ reply' \in [Events -> {"none", "accepted", "unavailable", "unsupported"}]
      /\ apiUnchanged
  BY DEF Api, Accept, AcceptUnconfirmed, Refuse, Reject, TypeOK
<1>4. QED
  BY <1>2, <1>3 DEF apiUnchanged, storeVars, workerVars, boundVars,
                    TypeOK, TopicsTypeOK, StoreTypeOK

\* So does a consumer that publishes or stores the outcome of its record.
LEMMA TypePublish ==
    ASSUME TypeOK, NEW w \in Workers, RecordInOrder(w),
           \/ ForwardToDrift(w) \/ ForwardToRaw(w) \/ ForwardToFailed(w)
    PROVE  TypeOK'
<1>1. /\ part[w] \in Partitions
      /\ EventAt(w) \in Events
  BY EventAtFacts
<1>2. /\ publishUnchanged
      /\ RecordDone(w)
      /\ pc' = [pc EXCEPT ![w] = "commit"]
  BY DEF ForwardToDrift, ForwardToRaw, ForwardToFailed, Goto
<1>3. ASSUME NEW q \in Partitions, AppendRecord(q, EventAt(w))
      PROVE  log' \in [Partitions -> Seq(Events)] /\ failed' \in SUBSET Events
  BY <1>1, <1>3, AppendFacts DEF AppendRecord, TypeOK, TopicsTypeOK
<1>4. log' \in [Partitions -> Seq(Events)] /\ failed' \in SUBSET Events
  <2>1. CASE ForwardToDrift(w)
    <3>1. KeyPartition[CaseOf[EventAt(w)]] \in Partitions
      BY <1>1, DeploymentAssumption, TopicsAssumption DEF Partitions
    <3>2. QED
      BY <1>3, <2>1, <3>1 DEF ForwardToDrift, PublishDrift
  <2>2. CASE ForwardToRaw(w)
    BY <1>3, <2>2 DEF ForwardToRaw, PublishRaw, Partitions
  <2>3. CASE ForwardToFailed(w)
    BY <1>1, <2>3 DEF ForwardToFailed, PublishFailed, TypeOK, TopicsTypeOK
  <2>4. QED
    BY <2>1, <2>2, <2>3
<1>5. done' \in [Partitions -> Nat]
  BY <1>1, <1>2, RecordDoneFacts
<1>6. QED
  BY <1>2, <1>4, <1>5 DEF publishUnchanged, storeVars, boundVars,
                          TypeOK, TopicsTypeOK, StoreTypeOK, Busy

\* So do the steps around the mapping: lookup, generation, save.
LEMMA TypeMapping ==
    ASSUME TypeOK, NEW w \in Workers, RecordInOrder(w),
           \/ RawMiss(w) \/ RawApply(w) \/ RawInvalid(w) \/ StoreEvent(w)
           \/ DriftLookup(w) \/ Generate(w) \/ GenerateFails(w) \/ SaveMapping(w)
    PROVE  TypeOK'
<1>1. /\ part[w] \in Partitions
      /\ EventAt(w) \in Events
      /\ CaseOf[EventAt(w)] \in Cases
  BY EventAtFacts, DeploymentAssumption
<1>2. CASE RawMiss(w) \/ RawApply(w) \/ RawInvalid(w) \/ DriftLookup(w)
  <2> Get(w, CaseOf[EventAt(w)])
    BY <1>2 DEF RawMiss, RawApply, RawInvalid, LookupStep, DriftLookup
  <2>1. StoreTypeOK'
    BY <1>1, GetType DEF TypeOK
  <2>2. CASE RawMiss(w)
    BY <2>1, <2>2 DEF RawMiss, LookupStep, Goto, topicVars, boundVars, TypeOK, TopicsTypeOK, Busy
  <2>3. CASE RawApply(w)
    BY <2>1, <2>3 DEF RawApply, LookupStep, Goto, topicVars, boundVars, TypeOK, TopicsTypeOK, Busy
  <2>4. CASE RawInvalid(w)
    BY <2>1, <2>4 DEF RawInvalid, LookupStep, Goto, topicVars, boundVars, TypeOK, TopicsTypeOK, Busy
  <2>5. CASE DriftLookup(w)
    BY <2>1, <2>5 DEF DriftLookup, Goto, topicVars, boundVars, TypeOK, TopicsTypeOK, Busy
  <2>6. QED
    BY <1>2, <2>2, <2>3, <2>4, <2>5
<1>3. CASE StoreEvent(w)
  <2>1. db' \in [Events -> Mappings \cup {Null}]
    BY <1>1, <1>3 DEF StoreEvent, TypeOK
  <2>2. done' \in [Partitions -> Nat]
    BY <1>1, <1>3, RecordDoneFacts DEF StoreEvent
  <2>3. QED
    BY <1>3, <2>1, <2>2 DEF StoreEvent, Goto, topicVars, storeVars, boundVars,
                            TypeOK, TopicsTypeOK, StoreTypeOK, Busy
<1>4. CASE Generate(w) \/ GenerateFails(w)
  <2>1. TopicsTypeOK' /\ StoreTypeOK'
    BY <1>4 DEF Generate, GenerateFails, topicVars, storeVars,
                TypeOK, TopicsTypeOK, StoreTypeOK
  <2>2. held' \in [Workers -> Mappings \cup {Null}]
    BY <1>4 DEF Generate, GenerateFails, TypeOK
  <2>3. QED
    BY <1>4, <2>1, <2>2 DEF Generate, GenerateFails, Goto, boundVars, TypeOK, Busy
<1>5. CASE SaveMapping(w)
  <2>1. StoreTypeOK'
    BY <1>1, <1>5 DEF SaveMapping, Save, TypeOK, StoreTypeOK
  <2>2. QED
    BY <1>5, <2>1 DEF SaveMapping, Goto, topicVars, boundVars, TypeOK, TopicsTypeOK, Busy
<1>6. QED
  BY <1>2, <1>3, <1>4, <1>5

\* So does a process that ends, crashes or loses its partitions.
LEMMA TypeLeave ==
    ASSUME TypeOK, NEW w \in Workers,
           \/ Crash(w) \/ CommitRefused(w) \/ RawApplyRaises(w)
           \/ StoreRaises(w) \/ GenerateRaises(w) \/ FailedTooLarge(w)
    PROVE  TypeOK'
<1>1. /\ Leave(w)
      /\ crashes' \in 0..MaxCrashes
      /\ evictions' \in 0..MaxEvictions
      /\ UNCHANGED <<repeats, outages>>
  BY PipelineAssumption DEF Crash, CommitRefused, RawApplyRaises, StoreRaises,
     GenerateRaises, FailedTooLarge, boundVars, TypeOK
<1>2. QED
  BY <1>1, LeaveType

\* So do start, poll, commit and the assignment of partitions.
LEMMA TypeLoop ==
    ASSUME TypeOK, NEW w \in Workers, NEW p \in Partitions,
           \/ Start(w) \/ Poll(w, p) \/ PollNothing(w) \/ Commit(w) \/ Evict(w)
           \/ AssignFree(p, w) \/ Rebalance(p, w)
    PROVE  TypeOK'
<1>1. CASE Start(w)
  <2>1. StoreTypeOK'
    BY <1>1, StoreAssumption DEF Start, Initialize, WithPredefined, TypeOK, StoreTypeOK
  <2>2. QED
    BY <1>1, <2>1 DEF Start, Goto, topicVars, boundVars, TypeOK, TopicsTypeOK, Busy
<1>2. CASE Poll(w, p)
  <2>1. TopicsTypeOK'
    BY <1>2 DEF Poll, Fetch, TypeOK, TopicsTypeOK
  <2>2. offset' \in [Workers -> Nat]
    BY <1>2 DEF Poll, TypeOK, TopicsTypeOK
  <2>3. QED
    BY <1>2, <2>1, <2>2 DEF Poll, Goto, storeVars, boundVars, TypeOK, StoreTypeOK, Busy
<1>3. CASE PollNothing(w)
  BY <1>3 DEF PollNothing, vars, topicVars, storeVars, workerVars, boundVars,
              TypeOK, TopicsTypeOK, StoreTypeOK
<1>4. CASE Commit(w)
  <2>1. TopicsTypeOK'
    BY <1>4 DEF Commit, CommitOffset, TypeOK, TopicsTypeOK
  <2>2. QED
    BY <1>4, <2>1 DEF Commit, Goto, storeVars, boundVars, TypeOK, StoreTypeOK, Busy
<1>5. CASE Evict(w)
  <2>1. TopicsTypeOK'
    BY <1>5 DEF Evict, Release, groupUnchanged, TypeOK, TopicsTypeOK
  <2>2. evictions' \in 0..MaxEvictions
    BY <1>5, PipelineAssumption DEF Evict, TypeOK
  <2>3. QED
    BY <1>5, <2>1, <2>2 DEF Evict, groupUnchanged, storeVars, workerVars, TypeOK, StoreTypeOK
<1>6. CASE AssignFree(p, w) \/ Rebalance(p, w)
  <2>1. Assign(p, w) /\ groupUnchanged /\ UNCHANGED boundVars
    BY <1>6 DEF AssignFree, Rebalance
  <2>2. TopicsTypeOK'
    BY <2>1 DEF Assign, groupUnchanged, TypeOK, TopicsTypeOK
  <2>3. QED
    BY <2>1, <2>2 DEF groupUnchanged, storeVars, workerVars, boundVars, TypeOK, StoreTypeOK
<1>7. QED
  BY <1>1, <1>2, <1>3, <1>4, <1>5, <1>6

\* So do a record sent twice and a power failure.
LEMMA TypeMachines ==
    ASSUME TypeOK,
           \/ \E p \in Partitions : RepeatRecord(p)
           \/ PowerFails
    PROVE  TypeOK'
<1>1. ASSUME NEW p \in Partitions, RepeatRecord(p)
      PROVE  TypeOK'
  <2>1. PICK i \in 1..Len(log[p]) : AppendRecord(p, log[p][i])
    BY <1>1 DEF RepeatRecord
  <2>2. log[p][i] \in Events
    BY RecordIsEvent
  <2>3. log' \in [Partitions -> Seq(Events)] /\ failed' = failed
    BY <2>1, <2>2, AppendFacts DEF AppendRecord, TypeOK, TopicsTypeOK
  <2>4. repeats' \in 0..MaxRepeats
    BY <1>1, PipelineAssumption DEF RepeatRecord, TypeOK
  <2>5. QED
    BY <1>1, <2>3, <2>4
    DEF RepeatRecord, storeVars, workerVars, TypeOK, TopicsTypeOK, StoreTypeOK
<1>2. CASE PowerFails
  <2>1. TopicsTypeOK'
    BY <1>2 DEF PowerFails, TypeOK, TopicsTypeOK
  <2>2. disk' \in [Cases -> Mappings \cup {Null}]
    BY <1>2 DEF PowerFails, TypeOK, StoreTypeOK
  <2>3. cache' \in [Workers -> [Cases -> Mappings \cup {Null}]]
    BY <1>2 DEF PowerFails
  <2>4. outages' \in 0..MaxOutages
    BY <1>2, PipelineAssumption DEF PowerFails, TypeOK
  <2>5. QED
    BY <1>2, <2>1, <2>2, <2>3, <2>4 DEF PowerFails, TypeOK, StoreTypeOK
<1>3. QED
  BY <1>1, <1>2

\* Nobody stores or saves without a mapping.
LEMMA MappingHeldStep ==
    ASSUME TypeOK, MappingHeld, [Next]_vars
    PROVE  MappingHeld'
<1> USE DEF MappingHeld
<1>1. CASE UNCHANGED vars
  BY <1>1 DEF vars, workerVars
<1>2. ASSUME NEW e \in Events, Api(e)
      PROVE  MappingHeld'
  BY <1>2 DEF Api, Accept, AcceptUnconfirmed, Refuse, Reject, apiUnchanged, workerVars
<1>3. ASSUME NEW w \in Workers, NEW label, Goto(w, label), held' = held,
             label \notin {"store", "save"}
      PROVE  MappingHeld'
  BY <1>3 DEF Goto, TypeOK
<1>4. ASSUME NEW w \in Workers, NEW m \in Mappings, held' = [held EXCEPT ![w] = m],
             NEW label, Goto(w, label)
      PROVE  MappingHeld'
  BY <1>4, StoreAssumption DEF Goto, TypeOK
<1>5. ASSUME NEW w \in Workers, NEW label \in {"down", "poll"}, Goto(w, label),
             held' = [held EXCEPT ![w] = Null]
      PROVE  MappingHeld'
  BY <1>5 DEF Goto, TypeOK
<1>6. ASSUME NEW w \in Workers, Run(w) \/ Crash(w) \/ Evict(w)
      PROVE  MappingHeld'
  <2>1. CASE Start(w) \/ (\E p \in Partitions : Poll(w, p)) \/ RawMiss(w) \/ RawInvalid(w)
             \/ ForwardToDrift(w) \/ ForwardToFailed(w) \/ ForwardToRaw(w)
             \/ StoreEvent(w) \/ GenerateFails(w)
    BY <1>3, <2>1 DEF Start, Poll, RawMiss, RawInvalid, LookupStep, ForwardToDrift,
       ForwardToFailed, ForwardToRaw, StoreEvent, GenerateFails, publishUnchanged
  <2>2. CASE DriftLookup(w)
    BY <1>3, <2>2 DEF DriftLookup
  <2>3. CASE RawApply(w) \/ Generate(w)
    BY <1>4, <2>3 DEF RawApply, LookupStep, Generate
  <2>4. CASE SaveMapping(w)
    BY <1>3, <2>4 DEF SaveMapping
  <2>5. CASE Commit(w)
    BY <1>5, <2>5 DEF Commit
  <2>6. CASE CommitRefused(w) \/ RawApplyRaises(w) \/ StoreRaises(w) \/ GenerateRaises(w)
             \/ FailedTooLarge(w) \/ Crash(w)
    BY <1>5, <2>6 DEF CommitRefused, RawApplyRaises, StoreRaises, GenerateRaises,
       FailedTooLarge, Crash, Leave
  <2>7. CASE PollNothing(w) \/ Evict(w)
    BY <2>7 DEF PollNothing, Evict, groupUnchanged, vars, workerVars
  <2>8. QED
    BY <1>6, <2>1, <2>2, <2>3, <2>4, <2>5, <2>6, <2>7 DEF Run, RawStep, DriftStep
<1>7. ASSUME NEW p \in Partitions, NEW w \in Workers, Coordinator(p, w)
      PROVE  MappingHeld'
  BY <1>7 DEF Coordinator, AssignFree, Rebalance, groupUnchanged, workerVars
<1>8. ASSUME NEW p \in Partitions, RepeatRecord(p)
      PROVE  MappingHeld'
  BY <1>8 DEF RepeatRecord, workerVars
<1>9. CASE PowerFails
  BY <1>9 DEF PowerFails
<1>10. QED
  BY <1>1, <1>2, <1>6, <1>7, <1>8, <1>9 DEF Next

--------------------------------------------------------------------------------
(***************************************************************************)
(* DeliveryInv.  Three kinds of steps: those that touch neither topics nor *)
(* outcomes, those that give a record its outcome, and those that move     *)
(* offsets and partitions.                                                 *)
(***************************************************************************)
\* Two steps of the same process between the fetch and the outcome.
LEMMA LocalStepKeepsDelivery ==
    ASSUME DeliveryInv, TypeOK', MappingHeld', NEW w \in Workers, NEW label \in Busy \ {"commit"},
           pc[w] \in Busy \ {"commit"}, Goto(w, label),
           UNCHANGED <<topicVars, part, offset, db, reply, done>>
    PROVE  DeliveryInv'
<1>1. \A v \in Workers : pc'[v] = IF v = w THEN label ELSE pc[v]
  BY DEF Goto, DeliveryInv, TypeOK
<1>2. \A v \in Workers : IsBusy(v)' <=> IsBusy(v)
  BY <1>1 DEF IsBusy
<1>3. /\ log' = log /\ committed' = committed /\ owner' = owner
      /\ position' = position /\ failed' = failed
      /\ part' = part /\ offset' = offset /\ db' = db /\ reply' = reply /\ done' = done
  BY DEF topicVars
<1>4. \A p \in Partitions : OwnerInOrder(p)'
  <2> SUFFICES ASSUME NEW p \in Partitions, owner[p] # Null, ~ Holds(owner[p], p)'
               PROVE  position[p] <= done[p]
    BY <1>3 DEF DeliveryInv, OwnerInOrder, GroupPartitions
  <2>1. owner[p] \in Workers
    BY DEF DeliveryInv, TypeOK, TopicsTypeOK
  <2>2. ~ Holds(owner[p], p)
    BY <1>2, <1>3, <2>1 DEF Holds
  <2>3. QED
    BY <2>2 DEF DeliveryInv, OwnerInOrder
<1>5. \A v \in Workers : IsBusy(v)' => RecordInOrder(v)'
  BY <1>1, <1>2, <1>3 DEF DeliveryInv, RecordInOrder, GroupPartitions
<1>6. EventsAccounted'
  BY <1>3 DEF DeliveryInv, EventsAccounted, Resolved, Waiting, RecordBeyond
<1>7. QED
  BY <1>3, <1>4, <1>5, <1>6 DEF DeliveryInv, CommitFollowsOutcome

\* The logs keep what they hold; what is new is records of event e.
LogsGrow(e) ==
    \A p \in Partitions :
        /\ Len(log[p]) <= Len(log'[p])
        /\ \A i \in 1..Len(log[p]) : log'[p][i] = log[p][i]
        /\ \A i \in 1..Len(log'[p]) : i \in 1..Len(log[p]) \/ log'[p][i] = e

\* The outcome of a record of one event changes nothing for the other events.
LEMMA OthersKeepWaiting ==
    ASSUME DeliveryInv, TypeOK', NEW w \in Workers, IsBusy(w), RecordDone(w),
           NEW e0 \in Events, e0 = EventAt(w), LogsGrow(e0),
           NEW e \in Events, e # e0
    PROVE  Waiting(e)' <=> Waiting(e)
<1>1. TypeOK /\ RecordInOrder(w)
  BY DEF DeliveryInv
<1>2. /\ part[w] \in Partitions
      /\ offset[w] \in Nat
      /\ \A p \in Partitions : Len(log[p]) \in Nat /\ done[p] \in Nat
      /\ \A p \in Partitions : Len(log'[p]) \in Nat /\ done'[p] \in Nat
  <2>1. part[w] \in Partitions /\ offset[w] \in Nat
    BY <1>1, EventAtFacts
  <2>2. \A p \in Partitions : Len(log[p]) \in Nat /\ done[p] \in Nat
    BY <1>1 DEF TypeOK, TopicsTypeOK
  <2>3. \A p \in Partitions : Len(log'[p]) \in Nat /\ done'[p] \in Nat
    BY DEF TypeOK, TopicsTypeOK
  <2>4. QED
    BY <2>1, <2>2, <2>3
<1>3. /\ \A p \in Partitions : done[p] <= done'[p]
      /\ \A p \in Partitions : p # part[w] => done'[p] = done[p]
      /\ done'[part[w]] \in {done[part[w]], offset[w]}
  BY <1>1, <1>2, RecordDoneFacts
<1>4. ASSUME NEW p \in Partitions, NEW i \in 1..Len(log[p])
      PROVE  log'[p][i] = log[p][i] /\ i \in 1..Len(log'[p])
  BY <1>2, <1>4 DEF LogsGrow
<1>5. ASSUME Waiting(e)
      PROVE  Waiting(e)'
  <2>1. PICK p \in Partitions : \E i \in 1..Len(log[p]) : i > done[p] /\ log[p][i] = e
    BY <1>5 DEF Waiting, RecordBeyond
  <2>2. PICK i \in 1..Len(log[p]) : i > done[p] /\ log[p][i] = e
    BY <2>1
  <2>3. i > done'[p]
    <3>1. CASE p = part[w] /\ done'[p] = offset[w]
      <4>1. i # offset[w]
        BY <2>2, <3>1 DEF EventAt
      <4>2. QED
        BY <1>1, <1>2, <2>2, <3>1, <4>1 DEF RecordInOrder
    <3>2. CASE ~ (p = part[w] /\ done'[p] = offset[w])
      BY <1>3, <2>2, <3>2
    <3>3. QED
      BY <3>1, <3>2
  <2>4. QED
    BY <1>4, <2>2, <2>3 DEF Waiting, RecordBeyond
<1>6. ASSUME Waiting(e)'
      PROVE  Waiting(e)
  <2>1. PICK p \in Partitions : \E i \in 1..Len(log'[p]) : i > done'[p] /\ log'[p][i] = e
    BY <1>6 DEF Waiting, RecordBeyond
  <2>2. PICK i \in 1..Len(log'[p]) : i > done'[p] /\ log'[p][i] = e
    BY <2>1
  <2>3. i \in 1..Len(log[p]) /\ log[p][i] = e
    BY <1>4, <2>2 DEF LogsGrow
  <2>4. i > done[p]
    BY <1>2, <1>3, <2>2, <2>3
  <2>5. QED
    BY <2>3, <2>4 DEF Waiting, RecordBeyond
<1>7. QED
  BY <1>5, <1>6

\* The step that gives the record of w its outcome: its event is resolved, or
\* has a new record at the end of some partition.
LEMMA OutcomeStepKeepsDelivery ==
    ASSUME DeliveryInv, TypeOK', MappingHeld', NEW w \in Workers,
           pc[w] \in Busy \ {"commit"}, Goto(w, "commit"), RecordDone(w),
           UNCHANGED <<committed, owner, position, part, offset, reply>>,
           NEW e0 \in Events, e0 = EventAt(w), LogsGrow(e0),
           \A e \in Events : Resolved(e) => Resolved(e)',
           \/ Resolved(e0)'
           \/ \E p \in Partitions : Len(log'[p]) = Len(log[p]) + 1
                                 /\ log'[p][Len(log'[p])] = e0
    PROVE  DeliveryInv'
<1>1. /\ TypeOK
      /\ RecordInOrder(w)
      /\ IsBusy(w)
  BY DEF DeliveryInv, IsBusy
<1>2. /\ part[w] \in Partitions
      /\ offset[w] \in Nat
      /\ \A p \in Partitions : Len(log[p]) \in Nat /\ done[p] \in Nat
  <2>1. \A p \in Partitions : log[p] \in Seq(Events) /\ done[p] \in Nat
    BY <1>1 DEF TypeOK, TopicsTypeOK
  <2>2. QED
    BY <1>1, <2>1, EventAtFacts
<1>3. /\ \A p \in Partitions : done[p] <= done'[p]
      /\ \A p \in Partitions : p # part[w] => done'[p] = done[p]
      /\ offset[w] <= done'[part[w]]
      /\ done'[part[w]] \in {done[part[w]], offset[w]}
  BY <1>1, <1>2, RecordDoneFacts
<1>4. \A v \in Workers : pc'[v] = IF v = w THEN "commit" ELSE pc[v]
  BY <1>1 DEF Goto, TypeOK
<1>5. \A v \in Workers : IsBusy(v)' <=> IsBusy(v)
  BY <1>4, <1>1 DEF IsBusy, Busy
<1>6. /\ \A p \in Partitions : Len(log'[p]) \in Nat /\ done'[p] \in Nat /\ committed[p] \in Nat
      /\ \A p \in Partitions : Len(log[p]) <= Len(log'[p])
  BY <1>1 DEF TypeOK, TopicsTypeOK, LogsGrow
<1>7. \A p \in Partitions : done'[p] <= Len(log[p])
  <2>1. offset[w] <= Len(log[part[w]])
    BY <1>1, <1>2 DEF RecordInOrder
  <2>2. QED
    BY <2>1, <1>2, <1>3 DEF DeliveryInv
<1>8. CommitFollowsOutcome'
  BY <1>3, <1>2, <1>6 DEF DeliveryInv, CommitFollowsOutcome
<1>9. \A p \in Partitions : OwnerInOrder(p)'
  <2> SUFFICES ASSUME NEW p \in Partitions, owner[p] # Null, ~ Holds(owner[p], p)'
               PROVE  position[p] <= done'[p]
    BY DEF DeliveryInv, OwnerInOrder, GroupPartitions
  <2>1. owner[p] \in Workers /\ position[p] \in Nat
    BY <1>1 DEF TypeOK, TopicsTypeOK
  <2>2. ~ Holds(owner[p], p)
    BY <1>5, <2>1 DEF Holds
  <2>3. position[p] <= done[p]
    BY <2>2 DEF DeliveryInv, OwnerInOrder
  <2>4. QED
    BY <1>2, <1>3, <1>6, <2>1, <2>3
<1>10. \A v \in Workers : IsBusy(v)' => RecordInOrder(v)'
  <2> SUFFICES ASSUME NEW v \in Workers, IsBusy(v)
               PROVE  RecordInOrder(v)'
    BY <1>5
  <2>1. RecordInOrder(v)
    BY DEF DeliveryInv
  <2>2. part[v] \in Partitions /\ offset[v] \in Nat
    BY <1>1, <2>1, EventAtFacts
  <2>3. part'[v] \in GroupPartitions(v)
    BY <2>1 DEF RecordInOrder
  <2>4. /\ offset'[v] \in 1..Len(log'[part'[v]])
        /\ offset'[v] <= done'[part'[v]] + 1
    BY <1>2, <1>3, <1>6, <2>1, <2>2 DEF RecordInOrder
  <2>5. pc'[v] = "commit" => offset'[v] <= done'[part'[v]]
    BY <1>2, <1>3, <1>4, <1>6, <2>1, <2>2 DEF RecordInOrder
  <2>6. QED
    BY <2>1, <2>3, <2>4, <2>5 DEF RecordInOrder, GroupPartitions
<1>11. Resolved(e0)' \/ Waiting(e0)'
  <2> SUFFICES ASSUME NEW p \in Partitions,
                      Len(log'[p]) = Len(log[p]) + 1,
                      log'[p][Len(log'[p])] = e0
               PROVE  \E i \in 1..Len(log'[p]) : i > done'[p] /\ log'[p][i] = e0
    BY DEF Waiting, RecordBeyond
  <2>1. Len(log'[p]) \in 1..Len(log'[p]) /\ Len(log'[p]) > done'[p]
    BY <1>2, <1>6, <1>7
  <2>2. QED
    BY <2>1
<1>12. ASSUME NEW e \in Events, e # e0, Waiting(e)
       PROVE  Waiting(e)'
  BY <1>1, <1>12, OthersKeepWaiting
<1>13. ASSUME NEW e \in Events, Resolved(e) \/ Waiting(e)
       PROVE  Resolved(e)' \/ Waiting(e)'
  BY <1>11, <1>12, <1>13
<1>14. EventsAccounted'
  <2>1. ASSUME NEW p \in Partitions, NEW i \in 1..Len(log'[p]),
               NEW e, e = log'[p][i]
        PROVE  Resolved(e)' \/ Waiting(e)'
    <3>1. CASE e = e0
      BY <1>11, <3>1
    <3>2. CASE i \in 1..Len(log[p]) /\ e = log[p][i]
      <4>1. e \in Events
        BY <1>1, <3>2, RecordIsEvent
      <4>2. Resolved(e) \/ Waiting(e)
        BY <3>2 DEF DeliveryInv, EventsAccounted
      <4>3. QED
        BY <1>13, <4>1, <4>2
    <3>3. QED
      BY <2>1, <3>1, <3>2 DEF LogsGrow
  <2>2. \A e \in Events : reply'[e] = "accepted" => Resolved(e)' \/ Waiting(e)'
    BY <1>13 DEF DeliveryInv, EventsAccounted
  <2>3. QED
    BY <2>1, <2>2 DEF EventsAccounted
<1>15. \A p \in Partitions : done'[p] <= Len(log'[p])
  BY <1>2, <1>6, <1>7
<1>16. QED
  BY <1>8, <1>9, <1>10, <1>14, <1>15 DEF DeliveryInv

\* A publish of a consumer: a record of the event of w somewhere, or on
\* failed-events.
LEMMA PublishKeepsDelivery ==
    ASSUME DeliveryInv, MappingHeld', NEW w \in Workers,
           \/ ForwardToDrift(w) \/ ForwardToRaw(w) \/ ForwardToFailed(w)
    PROVE  DeliveryInv'
<1>1. pc[w] \in Busy \ {"commit"}
  BY DEF ForwardToDrift, ForwardToRaw, ForwardToFailed, Busy
<1>2. TypeOK /\ RecordInOrder(w)
  BY <1>1 DEF DeliveryInv, IsBusy
<1>3. PICK e \in Events : e = EventAt(w)
  BY <1>2, EventAtFacts
<1>4. TypeOK'
  BY <1>2, TypePublish
<1>5. Goto(w, "commit") /\ RecordDone(w) /\ publishUnchanged
  BY DEF ForwardToDrift, ForwardToRaw, ForwardToFailed
<1>6. \A f \in Events : Resolved(f) => Resolved(f)'
  BY <1>5 DEF ForwardToDrift, ForwardToRaw, ForwardToFailed, PublishDrift, PublishRaw,
              PublishFailed, AppendRecord, publishUnchanged, Resolved
<1>7. ASSUME NEW q \in Partitions, AppendRecord(q, e)
      PROVE  /\ LogsGrow(e)
             /\ Len(log'[q]) = Len(log[q]) + 1 /\ log'[q][Len(log'[q])] = e
  <2>1. log \in [Partitions -> Seq(Events)] /\ log' = [log EXCEPT ![q] = Append(@, e)]
    BY <1>2, <1>7 DEF AppendRecord, TypeOK, TopicsTypeOK
  <2>2. QED
    BY <2>1, AppendFacts DEF LogsGrow
<1>8. CASE \E q \in Partitions : AppendRecord(q, e)
  BY <1>1, <1>3, <1>4, <1>5, <1>6, <1>7, <1>8, OutcomeStepKeepsDelivery DEF publishUnchanged
<1>9. CASE ForwardToFailed(w)
  <2>1. log' = log /\ e \in failed'
    BY <1>3, <1>9 DEF ForwardToFailed, PublishFailed
  <2>2. LogsGrow(e) /\ Resolved(e)'
    BY <1>2, <2>1 DEF LogsGrow, Resolved, TypeOK, TopicsTypeOK
  <2>3. QED
    BY <1>1, <1>3, <1>4, <1>5, <1>6, <2>2, OutcomeStepKeepsDelivery DEF publishUnchanged
<1>10. CASE ForwardToDrift(w)
  <2>1. KeyPartition[CaseOf[e]] \in Partitions
    BY DeploymentAssumption, TopicsAssumption DEF Partitions
  <2>2. QED
    BY <1>3, <1>8, <1>10, <2>1 DEF ForwardToDrift, PublishDrift
<1>11. CASE ForwardToRaw(w)
  BY <1>3, <1>8, <1>11 DEF ForwardToRaw, PublishRaw, Partitions
<1>12. QED
  BY <1>9, <1>10, <1>11

\* Writing the row is an outcome: the record may now be committed.
LEMMA StoreKeepsDelivery ==
    ASSUME DeliveryInv, MappingHeld', NEW w \in Workers, StoreEvent(w)
    PROVE  DeliveryInv'
<1>1. pc[w] \in Busy \ {"commit"}
  BY DEF StoreEvent, Busy
<1>2. TypeOK /\ RecordInOrder(w)
  BY <1>1 DEF DeliveryInv, IsBusy
<1>3. PICK e \in Events : e = EventAt(w)
  BY <1>2, EventAtFacts
<1>4. TypeOK'
  BY <1>2, TypeMapping
<1>5. held[w] # Null
  BY DEF StoreEvent, DeliveryInv, MappingHeld
<1>6. db' = [db EXCEPT ![e] = IF @ = Null THEN held[w] ELSE @]
  BY <1>3 DEF StoreEvent
<1>7. \A f \in Events : (Resolved(f) \/ f = e) => Resolved(f)'
  BY <1>2, <1>5, <1>6 DEF StoreEvent, topicVars, Resolved, TypeOK
<1>8. log' = log
  BY DEF StoreEvent, topicVars
<1>9. LogsGrow(e)
  BY <1>2, <1>8 DEF LogsGrow, TypeOK, TopicsTypeOK
<1>10. /\ Goto(w, "commit") /\ RecordDone(w)
       /\ UNCHANGED <<committed, owner, position, part, offset, reply>>
  BY DEF StoreEvent, topicVars
<1>11. QED
  BY <1>1, <1>3, <1>4, <1>7, <1>9, <1>10, OutcomeStepKeepsDelivery

\* A process that leaves, or loses its partitions, leaves the others in order.
LEMMA ReleaseKeepsOrder ==
    ASSUME DeliveryInv, NEW w \in Workers, Release(w),
           UNCHANGED <<log, committed, position, failed, db, reply, done>>,
           \A v \in Workers \ {w} :
               pc'[v] = pc[v] /\ part'[v] = part[v] /\ offset'[v] = offset[v],
           \/ ~ IsBusy(w)'
           \/ pc'[w] = pc[w] /\ part'[w] = part[w] /\ offset'[w] = offset[w],
           TypeOK', MappingHeld'
    PROVE  DeliveryInv'
<1>1. /\ TypeOK
      /\ \A p \in Partitions : owner'[p] = IF owner[p] = w THEN Null ELSE owner[p]
  BY DEF Release, DeliveryInv
<1>2. Null \notin Workers
  BY DeploymentAssumption
<1>3. ASSUME NEW p \in Partitions
      PROVE  OwnerInOrder(p)'
  <2>1. CASE owner'[p] = Null
    BY <2>1 DEF OwnerInOrder
  <2>2. CASE owner'[p] # Null
    <3>1. owner'[p] = owner[p] /\ owner[p] \in Workers \ {w}
      BY <1>1, <2>2 DEF TypeOK, TopicsTypeOK
    <3>2. OwnerInOrder(p)
      BY DEF DeliveryInv
    <3>3. QED
      BY <1>2, <3>1, <3>2 DEF OwnerInOrder, Holds, IsBusy, GroupPartitions
  <2>3. QED
    BY <2>1, <2>2
<1>4. \A v \in Workers : IsBusy(v)' => RecordInOrder(v)'
  <2> SUFFICES ASSUME NEW v \in Workers, IsBusy(v)'
               PROVE  RecordInOrder(v)'
    OBVIOUS
  <2>1. pc'[v] = pc[v] /\ part'[v] = part[v] /\ offset'[v] = offset[v]
    OBVIOUS
  <2>2. RecordInOrder(v)
    BY <2>1 DEF DeliveryInv, IsBusy
  <2>3. part[v] \in Partitions
    BY <1>1, <2>2, EventAtFacts
  <2>4. owner'[part[v]] = v => owner[part[v]] = v
    BY <1>1, <1>2, <2>3
  <2>5. QED
    BY <2>1, <2>2, <2>4 DEF RecordInOrder, GroupPartitions
<1>5. EventsAccounted'
  BY DEF DeliveryInv, EventsAccounted, Resolved, Waiting, RecordBeyond
<1>6. QED
  BY <1>3, <1>4, <1>5 DEF DeliveryInv, CommitFollowsOutcome

\* A process that leaves commits nothing: its record comes up again.
LEMMA LeaveKeepsDelivery ==
    ASSUME DeliveryInv, MappingHeld', NEW w \in Workers,
           \/ Crash(w) \/ CommitRefused(w) \/ RawApplyRaises(w)
           \/ StoreRaises(w) \/ GenerateRaises(w) \/ FailedTooLarge(w) \/ Evict(w)
    PROVE  DeliveryInv'
<1>1. TypeOK
  BY DEF DeliveryInv
<1>2. CASE Evict(w)
  <2>1. PICK p \in Partitions : TRUE
    BY <1>1, <1>2, EventAtFacts DEF Evict, DeliveryInv
  <2>2. TypeOK'
    BY <1>1, <1>2, <2>1, TypeLoop
  <2>3. QED
    BY <1>2, <2>2, ReleaseKeepsOrder DEF Evict, groupUnchanged, workerVars
<1>3. CASE ~ Evict(w)
  <2>1. Leave(w)
    BY <1>3 DEF Crash, CommitRefused, RawApplyRaises, StoreRaises, GenerateRaises,
       FailedTooLarge
  <2>2. TypeOK'
    BY <1>1, <1>3, TypeLeave
  <2>3. /\ pc'[w] = "down"
        /\ \A v \in Workers \ {w} :
               pc'[v] = pc[v] /\ part'[v] = part[v] /\ offset'[v] = offset[v]
    BY <1>1, <2>1 DEF Leave, Goto, TypeOK
  <2>4. ~ IsBusy(w)'
    BY <2>3 DEF IsBusy, Busy
  <2>5. QED
    BY <2>1, <2>2, <2>3, <2>4, ReleaseKeepsOrder DEF Leave
<1>4. QED
  BY <1>2, <1>3

\* Some partition takes a record of e.
Appended(e) == \E q \in Partitions : AppendRecord(q, e)

\* A published event waits for its outcome, and nothing else changes for the
\* others.
LEMMA PublishedEventWaits ==
    ASSUME TypeOK, TypeOK', NEW e \in Events, done' = done,
           \A p \in Partitions : done[p] <= Len(log[p]),
           log' = log \/ Appended(e)
    PROVE  /\ LogsGrow(e)
           /\ Appended(e) => Waiting(e)'
           /\ \A f \in Events : Waiting(f) => Waiting(f)'
           /\ \A f \in Events : f # e /\ Waiting(f)' => Waiting(f)
<1>1. \A p \in Partitions : Len(log[p]) \in Nat /\ done[p] \in Nat
  BY DEF TypeOK, TopicsTypeOK
<1>2. ASSUME NEW q \in Partitions, AppendRecord(q, e)
      PROVE  LogsGrow(e) /\ Waiting(e)'
  <2>1. log \in [Partitions -> Seq(Events)] /\ log' = [log EXCEPT ![q] = Append(@, e)]
    BY <1>2 DEF AppendRecord, TypeOK, TopicsTypeOK
  <2>2. LogsGrow(e) /\ Len(log'[q]) = Len(log[q]) + 1 /\ log'[q][Len(log'[q])] = e
    BY <2>1, AppendFacts DEF LogsGrow
  <2>3. Len(log'[q]) \in 1..Len(log'[q]) /\ Len(log'[q]) > done'[q]
    BY <1>1, <2>2
  <2>4. QED
    BY <2>2, <2>3 DEF Waiting, RecordBeyond
<1>3. Appended(e) => LogsGrow(e) /\ Waiting(e)'
  BY <1>2 DEF Appended
<1>4. LogsGrow(e)
  <2>1. CASE log' = log
    BY <2>1 DEF LogsGrow, TypeOK, TopicsTypeOK
  <2>2. QED
    BY <1>3, <2>1
<1>5. ASSUME NEW p \in Partitions
      PROVE  /\ Len(log[p]) \in Nat /\ Len(log'[p]) \in Nat
             /\ \A i \in 1..Len(log[p]) : i \in 1..Len(log'[p]) /\ log'[p][i] = log[p][i]
  <2>1. log[p] \in Seq(Events) /\ log'[p] \in Seq(Events)
    BY DEF TypeOK, TopicsTypeOK
  <2>2. QED
    BY <1>4, <2>1 DEF LogsGrow
<1>6. ASSUME NEW f \in Events, Waiting(f)
      PROVE  Waiting(f)'
  BY <1>5, <1>6 DEF Waiting, RecordBeyond
<1>7. ASSUME NEW f \in Events, f # e, Waiting(f)'
      PROVE  Waiting(f)
  <2>1. PICK p \in Partitions : \E i \in 1..Len(log'[p]) : i > done[p] /\ log'[p][i] = f
    BY <1>7 DEF Waiting, RecordBeyond
  <2>2. PICK i \in 1..Len(log'[p]) : i > done[p] /\ log'[p][i] = f
    BY <2>1
  <2>3. i \in 1..Len(log[p]) /\ log[p][i] = f
    BY <1>4, <1>5, <1>7, <2>2 DEF LogsGrow
  <2>4. QED
    BY <2>2, <2>3 DEF Waiting, RecordBeyond
<1>8. QED
  BY <1>3, <1>4, <1>6, <1>7

\* A record more keeps everything in order, whoever had it appended: its event
\* waits, and only that event may have been accepted for it.
LEMMA GrowthKeepsDelivery ==
    ASSUME DeliveryInv, TypeOK', MappingHeld', NEW e \in Events,
           UNCHANGED <<committed, owner, position, pc, part, offset, db, done, failed>>,
           log' = log \/ Appended(e),
           \A f \in Events : reply'[f] = "accepted" =>
               reply[f] = "accepted" \/ (f = e /\ Appended(e))
    PROVE  DeliveryInv'
<1>1. TypeOK
  BY DEF DeliveryInv
<1>3. \A p \in Partitions : Len(log[p]) \in Nat /\ Len(log'[p]) \in Nat /\ done[p] \in Nat
  BY <1>1 DEF TypeOK, TopicsTypeOK
<1>4. /\ LogsGrow(e)
      /\ log' = log \/ (Appended(e) /\ Waiting(e)')
      /\ \A f \in Events : Waiting(f) => Waiting(f)'
  BY <1>1, PublishedEventWaits DEF DeliveryInv
<1>5. \A p \in Partitions : done'[p] <= Len(log'[p])
  BY <1>3, <1>4 DEF LogsGrow, DeliveryInv
<1>6. \A p \in Partitions : OwnerInOrder(p)'
  BY DEF DeliveryInv, OwnerInOrder, Holds, IsBusy
<1>7. \A w \in Workers : IsBusy(w)' => RecordInOrder(w)'
  <2> SUFFICES ASSUME NEW w \in Workers, IsBusy(w)
               PROVE  RecordInOrder(w)'
    BY DEF IsBusy
  <2>1. RecordInOrder(w)
    BY DEF DeliveryInv
  <2>2. part[w] \in Partitions
    BY <1>1, <2>1, EventAtFacts
  <2>3. offset[w] \in 1..Len(log'[part[w]])
    BY <1>3, <1>4, <2>1, <2>2 DEF LogsGrow, RecordInOrder
  <2>4. QED
    BY <2>1, <2>3 DEF RecordInOrder, GroupPartitions
<1>9. ASSUME NEW f \in Events, Resolved(f) \/ Waiting(f)
      PROVE  Resolved(f)' \/ Waiting(f)'
  BY <1>4, <1>9 DEF Resolved
<1>10. EventsAccounted'
  <2>1. ASSUME NEW p \in Partitions, NEW i \in 1..Len(log'[p]), NEW f, f = log'[p][i]
        PROVE  Resolved(f)' \/ Waiting(f)'
    <3>1. CASE i \in 1..Len(log[p])
      <4>1. f = log[p][i]
        BY <1>4, <2>1, <3>1 DEF LogsGrow
      <4>2. f \in Events
        BY <1>1, <3>1, <4>1, RecordIsEvent
      <4>3. QED
        BY <1>9, <3>1, <4>1, <4>2 DEF DeliveryInv, EventsAccounted
    <3>2. CASE i \notin 1..Len(log[p])
      <4>1. f = e
        BY <1>4, <2>1, <3>2 DEF LogsGrow
      <4>2. log' # log
        BY <3>2
      <4>3. QED
        BY <1>4, <4>1, <4>2
    <3>3. QED
      BY <3>1, <3>2
  <2>2. ASSUME NEW f \in Events, reply'[f] = "accepted"
        PROVE  Resolved(f)' \/ Waiting(f)'
    <3>1. CASE reply[f] = "accepted"
      BY <1>9, <3>1 DEF DeliveryInv, EventsAccounted
    <3>2. CASE reply[f] # "accepted"
      <4>1. f = e /\ Appended(e)
        BY <2>2, <3>2
      <4>2. log' # log
        <5>1. PICK q \in Partitions : log' = [log EXCEPT ![q] = Append(@, e)]
          BY <4>1 DEF Appended, AppendRecord
        <5>2. Len(log'[q]) = Len(log[q]) + 1
          BY <1>1, <5>1, AppendFacts DEF TypeOK, TopicsTypeOK
        <5>3. QED
          BY <1>3, <5>2
      <4>3. QED
        BY <1>4, <4>1, <4>2
    <3>3. QED
      BY <3>1, <3>2
  <2>3. QED
    BY <2>1, <2>2 DEF EventsAccounted
<1>11. CommitFollowsOutcome'
  BY DEF DeliveryInv, CommitFollowsOutcome
<1>12. QED
  BY <1>1, <1>5, <1>6, <1>7, <1>10, <1>11 DEF DeliveryInv

\* An accepted event has a record that waits; other answers change no record.
LEMMA ApiKeepsDelivery ==
    ASSUME DeliveryInv, MappingHeld', NEW e \in Events, Api(e)
    PROVE  DeliveryInv'
<1>1. TypeOK /\ TypeOK'
  BY TypeApi DEF DeliveryInv
<1>2. UNCHANGED <<committed, owner, position, pc, part, offset, db, done, failed>>
  BY DEF Api, Accept, AcceptUnconfirmed, Refuse, Reject, PublishRaw, AppendRecord,
     apiUnchanged, workerVars
<1>3. PublishRaw(e) => Appended(e)
  BY DEF PublishRaw, Appended, Partitions
<1>4. log' = log \/ Appended(e)
  BY <1>3 DEF Api, Accept, AcceptUnconfirmed, Refuse, Reject
<1>5. \A f \in Events : reply'[f] = "accepted" =>
          reply[f] = "accepted" \/ (f = e /\ Appended(e))
  BY <1>1, <1>3 DEF Api, Accept, AcceptUnconfirmed, Refuse, Reject, TypeOK
<1>6. QED
  BY <1>1, <1>2, <1>4, <1>5, GrowthKeepsDelivery

\* The same record again: its event had an outcome or was waiting, and waits.
LEMMA RepeatKeepsDelivery ==
    ASSUME DeliveryInv, MappingHeld', NEW p \in Partitions, RepeatRecord(p)
    PROVE  DeliveryInv'
<1>1. TypeOK /\ TypeOK'
  BY TypeMachines DEF DeliveryInv
<1>2. PICK i \in 1..Len(log[p]) : AppendRecord(p, log[p][i])
  BY DEF RepeatRecord
<1>3. log[p][i] \in Events
  BY <1>1, RecordIsEvent
<1>4. Appended(log[p][i])
  BY <1>2 DEF Appended
<1>5. UNCHANGED <<committed, owner, position, pc, part, offset, db, done, failed, reply>>
  BY <1>2 DEF RepeatRecord, AppendRecord, workerVars
<1>6. QED
  BY <1>1, <1>3, <1>4, <1>5, GrowthKeepsDelivery

\* Nobody is at work afterwards, and nobody owns a partition.
LEMMA OutageKeepsDelivery ==
    ASSUME DeliveryInv, MappingHeld', PowerFails
    PROVE  DeliveryInv'
<1>1. TypeOK'
  BY TypeMachines DEF DeliveryInv
<1>2. \A w \in Workers : ~ IsBusy(w)'
  BY DEF PowerFails, IsBusy, Busy
<1>3. \A p \in Partitions : OwnerInOrder(p)'
  BY DEF PowerFails, OwnerInOrder
<1>4. EventsAccounted'
  BY DEF PowerFails, DeliveryInv, EventsAccounted, Resolved, Waiting, RecordBeyond
<1>5. QED
  BY <1>1, <1>2, <1>3, <1>4 DEF PowerFails, DeliveryInv, CommitFollowsOutcome

\* Poll goes one record past done at most, commit passes only done records.
LEMMA LoopKeepsDelivery ==
    ASSUME DeliveryInv, MappingHeld', NEW w \in Workers, NEW p \in Partitions,
           \/ Start(w) \/ Poll(w, p) \/ PollNothing(w) \/ Commit(w)
           \/ AssignFree(p, w) \/ Rebalance(p, w)
    PROVE  DeliveryInv'
<1>1. TypeOK /\ TypeOK'
  BY TypeLoop DEF DeliveryInv
<1>2. UNCHANGED <<log, failed, db, reply, done>>
  BY DEF Start, Poll, PollNothing, Commit, AssignFree, Rebalance, Assign,
     groupUnchanged, topicVars, vars
<1>3. EventsAccounted'
  BY <1>2 DEF DeliveryInv, EventsAccounted, Resolved, Waiting, RecordBeyond
<1>4. CASE Start(w) \/ PollNothing(w)
  <2>1. /\ UNCHANGED <<committed, owner, position, part, offset>>
        /\ \A v \in Workers : pc'[v] = pc[v] \/ (v = w /\ pc[w] = "down" /\ pc'[w] = "poll")
    BY <1>1, <1>4 DEF Start, PollNothing, Goto, TypeOK, topicVars, workerVars, vars
  <2>2. \A v \in Workers : (IsBusy(v)' <=> IsBusy(v)) /\ (IsBusy(v) => pc'[v] = pc[v])
    BY <2>1 DEF IsBusy, Busy
  <2>3. ASSUME NEW q \in Partitions
        PROVE  OwnerInOrder(q)'
    <3>1. owner[q] \in Workers \cup {Null} /\ OwnerInOrder(q)
      BY <1>1 DEF DeliveryInv, TypeOK, TopicsTypeOK
    <3>2. QED
      BY <1>2, <2>1, <2>2, <3>1 DEF OwnerInOrder, Holds, GroupPartitions
  <2>4. \A v \in Workers : IsBusy(v)' => RecordInOrder(v)'
    BY <1>2, <2>1, <2>2 DEF DeliveryInv, RecordInOrder, GroupPartitions
  <2>5. QED
    BY <1>1, <1>2, <1>3, <2>1, <2>3, <2>4 DEF DeliveryInv, CommitFollowsOutcome
<1>5. CASE Poll(w, p)
  <2>1. /\ UNCHANGED <<committed, owner>>
        /\ owner[p] = w /\ pc[w] = "poll"
        /\ pc'[w] = "lookup" /\ part'[w] = p /\ offset'[w] = position[p] + 1
        /\ position'[p] = position[p] + 1
        /\ position[p] < Len(log[p])
        /\ \A v \in Workers \ {w} :
               pc'[v] = pc[v] /\ part'[v] = part[v] /\ offset'[v] = offset[v]
        /\ \A q \in Partitions \ {p} : position'[q] = position[q]
    BY <1>1, <1>5 DEF Poll, HasRecord, Fetch, Goto, TypeOK, TopicsTypeOK
  <2>2. position[p] \in Nat /\ done[p] \in Nat /\ Len(log[p]) \in Nat
    BY <1>1 DEF TypeOK, TopicsTypeOK
  <2>3. w # Null /\ ~ IsBusy(w) /\ IsBusy(w)'
    BY <2>1, DeploymentAssumption DEF IsBusy, Busy
  <2>4. p \in GroupPartitions(w) /\ position[p] <= done[p]
    BY <2>1, <2>3 DEF DeliveryInv, OwnerInOrder, Holds
  <2>5. ASSUME NEW q \in Partitions
        PROVE  OwnerInOrder(q)'
    <3>1. CASE q = p
      BY <2>1, <2>3, <2>4, <3>1 DEF OwnerInOrder, Holds, GroupPartitions
    <3>2. CASE q # p
      <4>1. owner[q] \in Workers \cup {Null} /\ OwnerInOrder(q)
        BY <1>1 DEF DeliveryInv, TypeOK, TopicsTypeOK
      <4>2. /\ owner'[q] = owner[q] /\ position'[q] = position[q]
            /\ done'[q] = done[q]
        BY <1>2, <2>1, <3>2
      <4>3. CASE owner[q] = w
        <5>1. ~ Holds(w, q)
          BY <2>3 DEF Holds
        <5>2. QED
          BY <4>1, <4>2, <4>3, <5>1 DEF OwnerInOrder, GroupPartitions
      <4>4. CASE owner[q] \in Workers \ {w}
        <5>1. Holds(owner[q], q)' <=> Holds(owner[q], q)
          BY <2>1, <4>2, <4>4 DEF Holds, IsBusy
        <5>2. QED
          BY <4>1, <4>2, <5>1 DEF OwnerInOrder, GroupPartitions
      <4>5. QED
        BY <4>1, <4>2, <4>3, <4>4 DEF OwnerInOrder
    <3>3. QED
      BY <3>1, <3>2
  <2>6. ASSUME NEW v \in Workers, IsBusy(v)'
        PROVE  RecordInOrder(v)'
    <3>1. CASE v = w
      BY <1>2, <2>1, <2>2, <2>4, <3>1 DEF RecordInOrder, GroupPartitions
    <3>2. CASE v # w
      <4>1. RecordInOrder(v)
        BY <2>1, <2>6, <3>2 DEF DeliveryInv, IsBusy
      <4>2. part[v] \in Partitions
        BY <1>1, <4>1, EventAtFacts
      <4>3. owner[part[v]] = v => position'[part[v]] = position[part[v]]
        BY <2>1, <3>2, <4>2
      <4>4. QED
        BY <1>2, <2>1, <3>2, <4>1, <4>3 DEF RecordInOrder, GroupPartitions
    <3>3. QED
      BY <3>1, <3>2
  <2>7. QED
    BY <1>1, <1>2, <1>3, <2>1, <2>5, <2>6 DEF DeliveryInv, CommitFollowsOutcome
<1>6. CASE Commit(w)
  <2>1. RecordInOrder(w) /\ pc[w] = "commit"
    BY <1>6 DEF Commit, DeliveryInv, IsBusy, Busy
  <2>2. /\ UNCHANGED <<owner, position>>
        /\ pc'[w] = "poll"
        /\ committed' = [committed EXCEPT ![part[w]] = offset[w]]
        /\ \A v \in Workers \ {w} :
               pc'[v] = pc[v] /\ part'[v] = part[v] /\ offset'[v] = offset[v]
    BY <1>1, <1>6 DEF Commit, CommitOffset, Goto, TypeOK
  <2>3. ~ IsBusy(w)'
    BY <2>2 DEF IsBusy, Busy
  <2>4. CommitFollowsOutcome'
    BY <1>1, <1>2, <2>1, <2>2
    DEF DeliveryInv, CommitFollowsOutcome, RecordInOrder, TypeOK, TopicsTypeOK
  <2>5. ASSUME NEW q \in Partitions
        PROVE  OwnerInOrder(q)'
    <3>1. CASE owner[q] = w
      <4>1. p \in Partitions /\ OwnerInOrder(q)
        BY DEF DeliveryInv
      <4>2. position[q] <= done[q]
        <5>1. CASE part[w] = q
          BY <2>1, <3>1, <5>1 DEF RecordInOrder
        <5>2. CASE part[w] # q
          BY <3>1, <4>1, <5>2, DeploymentAssumption DEF OwnerInOrder, Holds
        <5>3. QED
          BY <5>1, <5>2
      <4>3. QED
        BY <1>2, <2>2, <4>1, <4>2 DEF OwnerInOrder, GroupPartitions
    <3>2. CASE owner[q] # w
      <4>1. owner[q] \in Workers \cup {Null} /\ OwnerInOrder(q)
        BY <1>1 DEF DeliveryInv, TypeOK, TopicsTypeOK
      <4>2. QED
        BY <1>2, <2>2, <3>2, <4>1 DEF OwnerInOrder, Holds, IsBusy, GroupPartitions
    <3>3. QED
      BY <3>1, <3>2
  <2>6. \A v \in Workers : IsBusy(v)' => RecordInOrder(v)'
    BY <1>2, <2>2, <2>3 DEF DeliveryInv, IsBusy, RecordInOrder, GroupPartitions
  <2>7. QED
    BY <1>1, <1>2, <1>3, <2>4, <2>5, <2>6 DEF DeliveryInv
<1>7. CASE AssignFree(p, w) \/ Rebalance(p, w)
  <2>1. /\ UNCHANGED <<committed, pc, part, offset>>
        /\ owner' = [owner EXCEPT ![p] = w]
        /\ position' = [position EXCEPT ![p] = committed[p]]
        /\ p \in GroupPartitions(w)
        /\ pc[w] = "poll"
    BY <1>7 DEF AssignFree, Rebalance, CanRebalance, Assign, groupUnchanged, workerVars
  <2>2. committed[p] <= done[p]
    BY DEF DeliveryInv, CommitFollowsOutcome
  <2>3. ASSUME NEW q \in Partitions
        PROVE  OwnerInOrder(q)'
    <3>1. CASE q = p
      BY <1>1, <1>2, <2>1, <2>2, <3>1 DEF OwnerInOrder, GroupPartitions, TypeOK, TopicsTypeOK
    <3>2. CASE q # p
      BY <1>1, <1>2, <2>1, <3>2
      DEF DeliveryInv, OwnerInOrder, Holds, IsBusy, GroupPartitions, TypeOK, TopicsTypeOK
    <3>3. QED
      BY <3>1, <3>2
  <2>4. ASSUME NEW v \in Workers, IsBusy(v)'
        PROVE  RecordInOrder(v)'
    <3>1. v # w /\ RecordInOrder(v)
      BY <2>1, <2>4 DEF DeliveryInv, IsBusy, Busy
    <3>2. part[v] \in Partitions
      BY <1>1, <3>1, EventAtFacts
    <3>3. owner'[part[v]] = v =>
              owner[part[v]] = v /\ position'[part[v]] = position[part[v]]
      BY <1>1, <2>1, <3>1, <3>2 DEF TypeOK, TopicsTypeOK
    <3>4. QED
      BY <1>2, <2>1, <3>1, <3>3 DEF RecordInOrder, GroupPartitions
  <2>5. QED
    BY <1>1, <1>2, <1>3, <2>1, <2>3, <2>4 DEF DeliveryInv, CommitFollowsOutcome
<1>8. QED
  BY <1>4, <1>5, <1>6, <1>7

\* A lookup, a generation or a save.
LEMMA MappingKeepsDelivery ==
    ASSUME DeliveryInv, MappingHeld', NEW w \in Workers,
           \/ RawMiss(w) \/ RawApply(w) \/ RawInvalid(w)
           \/ DriftLookup(w) \/ Generate(w) \/ GenerateFails(w) \/ SaveMapping(w)
    PROVE  DeliveryInv'
<1>1. pc[w] \in Busy \ {"commit"}
  BY DEF RawMiss, RawApply, RawInvalid, LookupStep, DriftLookup, Generate, GenerateFails,
     SaveMapping, Busy
<1>2. TypeOK'
  BY <1>1, TypeMapping DEF DeliveryInv, IsBusy
<1>3. PICK label \in Busy \ {"commit"} : Goto(w, label)
  BY DEF RawMiss, RawApply, RawInvalid, LookupStep, DriftLookup, Generate, GenerateFails,
     SaveMapping, Busy, Goto
<1>4. UNCHANGED <<topicVars, part, offset, db, reply, done>>
  BY DEF RawMiss, RawApply, RawInvalid, LookupStep, DriftLookup, Generate, GenerateFails,
     SaveMapping
<1>5. QED
  BY <1>1, <1>2, <1>3, <1>4, LocalStepKeepsDelivery

--------------------------------------------------------------------------------
\* The invariant holds before anything runs.
LEMMA DeliveryInit == Init => DeliveryInv
<1> SUFFICES ASSUME Init
             PROVE  DeliveryInv
  OBVIOUS
<1>1. TypeOK
  BY PipelineAssumption, StoreAssumption
  DEF Init, TopicsInit, StoreInit, TypeOK, TopicsTypeOK, StoreTypeOK, Busy
<1>2. \A w \in Workers : ~ IsBusy(w)
  BY DEF Init, IsBusy, Busy
<1>3. EventsAccounted
  BY DEF Init, TopicsInit, EventsAccounted
<1>4. QED
  BY <1>1, <1>2, <1>3
  DEF Init, TopicsInit, DeliveryInv, CommitFollowsOutcome, OwnerInOrder, MappingHeld

\* Every step of the API, the processes and the coordinator preserves it.
LEMMA DeliveryStep == DeliveryInv /\ [Next]_vars => DeliveryInv'
<1> SUFFICES ASSUME DeliveryInv, [Next]_vars
             PROVE  DeliveryInv'
  OBVIOUS
<1>1. MappingHeld'
  BY MappingHeldStep DEF DeliveryInv
<1>2. CASE UNCHANGED vars
  BY <1>2 DEF vars, topicVars, storeVars, workerVars, boundVars, DeliveryInv, TypeOK,
     TopicsTypeOK, StoreTypeOK, MappingHeld, CommitFollowsOutcome, OwnerInOrder, Holds,
     IsBusy, RecordInOrder, GroupPartitions, EventsAccounted, Resolved, Waiting, RecordBeyond
<1>3. ASSUME NEW e \in Events, Api(e)
      PROVE  DeliveryInv'
  BY <1>1, <1>3, ApiKeepsDelivery
<1>4. ASSUME NEW w \in Workers, Run(w) \/ Crash(w) \/ Evict(w)
      PROVE  DeliveryInv'
  <2>1. CASE Crash(w) \/ Evict(w) \/ CommitRefused(w) \/ RawApplyRaises(w)
             \/ StoreRaises(w) \/ GenerateRaises(w) \/ FailedTooLarge(w)
    BY <1>1, <2>1, LeaveKeepsDelivery
  <2>2. CASE ForwardToDrift(w) \/ ForwardToRaw(w) \/ ForwardToFailed(w)
    BY <1>1, <2>2, PublishKeepsDelivery
  <2>3. CASE StoreEvent(w)
    BY <1>1, <2>3, StoreKeepsDelivery
  <2>4. CASE RawMiss(w) \/ RawApply(w) \/ RawInvalid(w) \/ DriftLookup(w)
             \/ Generate(w) \/ GenerateFails(w) \/ SaveMapping(w)
    BY <1>1, <2>4, MappingKeepsDelivery
  <2>5. CASE \E p \in Partitions : Poll(w, p)
    BY <1>1, <2>5, LoopKeepsDelivery
  <2>6. CASE Start(w) \/ PollNothing(w) \/ Commit(w)
    <3>1. PICK p \in Partitions : TRUE
      BY TopicsAssumption DEF Partitions
    <3>2. QED
      BY <1>1, <2>6, <3>1, LoopKeepsDelivery
  <2>7. QED
    BY <1>4, <2>1, <2>2, <2>3, <2>4, <2>5, <2>6 DEF Run, RawStep, DriftStep
<1>5. ASSUME NEW p \in Partitions, NEW w \in Workers, Coordinator(p, w)
      PROVE  DeliveryInv'
  BY <1>1, <1>5, LoopKeepsDelivery DEF Coordinator
<1>6. ASSUME NEW p \in Partitions, RepeatRecord(p)
      PROVE  DeliveryInv'
  BY <1>1, <1>6, RepeatKeepsDelivery
<1>7. CASE PowerFails
  BY <1>1, <1>7, OutageKeepsDelivery
<1>8. QED
  BY <1>2, <1>3, <1>4, <1>5, <1>6, <1>7 DEF Next

(***************************************************************************)
(* TypeOK, NoEventLost and the other parts of DeliveryInv hold in every    *)
(* state of the pipeline, whatever crashes, restarts, rebalances,          *)
(* evictions, repeated records and power failures there are.               *)
(***************************************************************************)
\* The inductive invariant: offsets, owners and outcomes are in step.
THEOREM DeliveryIsInvariant == Spec => []DeliveryInv
<1>1. Init => DeliveryInv
  BY DeliveryInit
<1>2. DeliveryInv /\ [Next]_vars => DeliveryInv'
  BY DeliveryStep
<1>3. QED
  BY <1>1, <1>2, PTL DEF Spec

\* Every variable keeps its type; that records are read only where there are
\* some is part of the invariant above.
THEOREM TypeCorrect == Spec => []TypeOK
<1>1. DeliveryInv => TypeOK
  BY DEF DeliveryInv
<1>2. QED
  BY <1>1, DeliveryIsInvariant, PTL

\* An event the API accepted is stored, on failed-events, or still has a record
\* that its consumer group has not committed.
THEOREM NoEventIsLost == Spec => []NoEventLost
<1>1. DeliveryInv => NoEventLost
  <2> SUFFICES ASSUME DeliveryInv, NEW e \in Events, Waiting(e)
               PROVE  RecordBeyond(e, committed)
    BY DEF DeliveryInv, EventsAccounted, NoEventLost
  <2>1. PICK p \in Partitions : \E i \in 1..Len(log[p]) : i > done[p] /\ log[p][i] = e
    BY DEF Waiting, RecordBeyond
  <2>2. PICK i \in 1..Len(log[p]) : i > done[p] /\ log[p][i] = e
    BY <2>1
  <2>3. committed[p] <= done[p] /\ committed[p] \in Nat /\ done[p] \in Nat
    BY DEF DeliveryInv, CommitFollowsOutcome, TypeOK, TopicsTypeOK
  <2>4. i > committed[p]
    BY <2>2, <2>3
  <2>5. QED
    BY <2>2, <2>4 DEF RecordBeyond
<1>2. QED
  BY <1>1, DeliveryIsInvariant, PTL

--------------------------------------------------------------------------------
(***************************************************************************)
(* EventPipeline implements EventLedger: every step of a process, of the   *)
(* API, of the coordinator or of the machines is a step of the ledger on   *)
(* one event, or changes nothing the ledger sees.                          *)
(***************************************************************************)
\* What the ledger sees, under names of its own.
Accepted == {e \in Events : reply[e] = "accepted"}
WaitingEvents == {e \in Events : Waiting(e)}

\* The initial states of the pipeline are initial states of the ledger.
LEMMA LedgerInit == Init => Ledger!Init
<1> SUFFICES ASSUME Init
             PROVE  Ledger!Init
  OBVIOUS
<1>1. \A e \in Events : ~ Waiting(e)
  <2>1. \A p \in Partitions : Len(log[p]) = 0
    BY DEF Init, TopicsInit
  <2>2. QED
    BY <2>1 DEF Waiting, RecordBeyond
<1>2. QED
  BY <1>1 DEF Init, TopicsInit, Ledger!Init

\* A step that leaves topics, outcomes and replies alone is a stutter.
LEMMA QuietStep ==
    ASSUME UNCHANGED <<log, failed, db, reply, done>>
    PROVE  UNCHANGED Ledger!vars
  BY DEF Ledger!vars, Waiting, RecordBeyond

\* A request: the ledger receives the event, or nothing happened.
LEMMA ApiRefines ==
    ASSUME DeliveryInv, DeliveryInv', NEW e \in Events, Api(e)
    PROVE  [Ledger!Next]_Ledger!vars
<1>1. TypeOK /\ TypeOK'
  BY DEF DeliveryInv
<1>2. /\ UNCHANGED <<db, done, failed>>
      /\ reply' = [reply EXCEPT ![e] = reply'[e]]
      /\ log' = log \/ PublishRaw(e)
      /\ PublishRaw(e) => Appended(e)
      /\ reply[e] = "none"
  BY <1>1 DEF Api, Accept, AcceptUnconfirmed, Refuse, Reject, PublishRaw, AppendRecord,
     Appended, Partitions, apiUnchanged, TypeOK
<1>3. /\ PublishRaw(e) => Waiting(e)'
      /\ \A f \in Events : Waiting(f) => Waiting(f)'
      /\ \A f \in Events : f # e /\ Waiting(f)' => Waiting(f)
  BY <1>1, <1>2, PublishedEventWaits DEF DeliveryInv
<1>4. CASE Accept(e) \/ AcceptUnconfirmed(e)
  <2>1. WaitingEvents' = WaitingEvents \cup {e}
    BY <1>3, <1>4 DEF WaitingEvents, Accept, AcceptUnconfirmed
  <2>2. Accepted' \in {Accepted, Accepted \cup {e}}
    <3>1. CASE reply'[e] = "accepted"
      BY <1>1, <1>2, <3>1 DEF Accepted, TypeOK
    <3>2. CASE reply'[e] # "accepted"
      BY <1>1, <1>2, <3>2 DEF Accepted, TypeOK
    <3>3. QED
      BY <3>1, <3>2
  <2>3. Ledger!Receive(e)
    BY <1>2, <2>1, <2>2 DEF Ledger!Receive, Accepted, WaitingEvents
  <2>4. QED
    BY <2>3 DEF Ledger!Next
<1>5. CASE Refuse(e) \/ Reject(e)
  <2>1. log' = log /\ reply'[e] # "accepted"
    BY <1>1, <1>5 DEF Refuse, Reject, TypeOK
  <2>2. Accepted' = Accepted
    BY <1>1, <1>2, <2>1 DEF Accepted, TypeOK
  <2>3. WaitingEvents' = WaitingEvents
    BY <1>2, <2>1 DEF WaitingEvents, Waiting, RecordBeyond
  <2>4. QED
    BY <1>2, <2>2, <2>3 DEF Ledger!vars, Accepted, WaitingEvents
<1>6. QED
  BY <1>4, <1>5 DEF Api

--------------------------------------------------------------------------------
\* The step that gives a record its outcome: only its own event may start or
\* stop waiting, and it was waiting or had an outcome before.
LEMMA OutcomeSeen ==
    ASSUME DeliveryInv, DeliveryInv', NEW w \in Workers, IsBusy(w), RecordDone(w),
           NEW e \in Events, e = EventAt(w), LogsGrow(e)
    PROVE  /\ WaitingEvents' \in {WaitingEvents \cup {e}, WaitingEvents \ {e}}
           /\ Waiting(e) \/ Resolved(e)
           /\ log' = log => (Waiting(e)' => Waiting(e))
<1>1. TypeOK /\ TypeOK' /\ RecordInOrder(w)
  BY DEF DeliveryInv
<1>2. \A f \in Events : f # e => (Waiting(f)' <=> Waiting(f))
  BY <1>1, OthersKeepWaiting
<1>3. Waiting(e) \/ Resolved(e)
  BY <1>1, EventAtFacts DEF DeliveryInv, EventsAccounted, RecordInOrder, EventAt
<1>4. ASSUME log' = log, Waiting(e)'
      PROVE  Waiting(e)
  <2>1. part[w] \in Partitions
    BY <1>1, EventAtFacts
  <2>2. \A p \in Partitions : done[p] <= done'[p] /\ done[p] \in Nat /\ done'[p] \in Nat
    BY <1>1, <2>1, RecordDoneFacts DEF TypeOK
  <2>3. PICK p \in Partitions : \E i \in 1..Len(log[p]) : i > done'[p] /\ log[p][i] = e
    BY <1>4 DEF Waiting, RecordBeyond
  <2>4. PICK i \in 1..Len(log[p]) : i > done'[p] /\ log[p][i] = e
    BY <2>3
  <2>5. i > done[p]
    BY <1>1, <2>2, <2>4
  <2>6. QED
    BY <2>4, <2>5 DEF Waiting, RecordBeyond
<1>5. WaitingEvents' \in {WaitingEvents \cup {e}, WaitingEvents \ {e}}
  <2>1. CASE Waiting(e)'
    BY <1>2, <2>1 DEF WaitingEvents
  <2>2. CASE ~ Waiting(e)'
    BY <1>2, <2>2 DEF WaitingEvents
  <2>3. QED
    BY <2>1, <2>2
<1>6. QED
  BY <1>3, <1>4, <1>5

\* Writing a row is a Store; finding one already there is a Repeat.
LEMMA StoreRefines ==
    ASSUME DeliveryInv, DeliveryInv', NEW w \in Workers, StoreEvent(w)
    PROVE  Ledger!Next
<1>1. /\ TypeOK /\ RecordInOrder(w) /\ IsBusy(w) /\ RecordDone(w)
      /\ log' = log /\ UNCHANGED <<failed, reply>>
      /\ held[w] \in Mappings
  BY DEF StoreEvent, DeliveryInv, IsBusy, Busy, topicVars, MappingHeld, TypeOK
<1>2. PICK e \in Events : e = EventAt(w)
  BY <1>1, EventAtFacts
<1>3. LogsGrow(e)
  BY <1>1 DEF LogsGrow, TypeOK, TopicsTypeOK
<1>4. /\ WaitingEvents' \in {WaitingEvents \cup {e}, WaitingEvents \ {e}}
      /\ Waiting(e) \/ Resolved(e)
      /\ Waiting(e)' => Waiting(e)
  BY <1>1, <1>2, <1>3, OutcomeSeen
<1>5. Accepted' = Accepted
  BY <1>1 DEF Accepted
<1>6. db' = [db EXCEPT ![e] = IF @ = Null THEN held[w] ELSE @]
  BY <1>2 DEF StoreEvent
<1>7. CASE db[e] = Null
  <2>1. db' = [db EXCEPT ![e] = held[w]]
    BY <1>6, <1>7
  <2>2. WaitingEvents' \in {WaitingEvents, WaitingEvents \ {e}}
    BY <1>2, <1>4 DEF WaitingEvents
  <2>3. Ledger!Store(e)
    BY <1>1, <1>4, <1>5, <1>7, <2>1, <2>2
    DEF Ledger!Store, Ledger!HasOutcome, Accepted, WaitingEvents, Resolved
  <2>4. QED
    BY <2>3 DEF Ledger!Next
<1>8. CASE db[e] # Null
  <2>1. db' = db
    BY <1>1, <1>6, <1>8 DEF TypeOK
  <2>2. Ledger!Repeat(e)
    BY <1>1, <1>4, <1>5, <1>8, <2>1
    DEF Ledger!Repeat, Ledger!HasOutcome, Accepted, WaitingEvents
  <2>3. QED
    BY <2>2 DEF Ledger!Next
<1>9. QED
  BY <1>7, <1>8

\* Publishing a failed event is a Fail of the ledger.
LEMMA FailRefines ==
    ASSUME DeliveryInv, DeliveryInv', NEW w \in Workers, ForwardToFailed(w)
    PROVE  Ledger!Next
<1>1. /\ TypeOK /\ RecordInOrder(w) /\ IsBusy(w) /\ RecordDone(w)
      /\ log' = log /\ UNCHANGED <<db, reply>>
  BY DEF ForwardToFailed, PublishFailed, publishUnchanged, DeliveryInv, IsBusy, Busy
<1>2. PICK e \in Events : e = EventAt(w)
  BY <1>1, EventAtFacts
<1>3. LogsGrow(e)
  BY <1>1 DEF LogsGrow, TypeOK, TopicsTypeOK
<1>4. /\ WaitingEvents' \in {WaitingEvents \cup {e}, WaitingEvents \ {e}}
      /\ Waiting(e) \/ Resolved(e)
      /\ Waiting(e)' => Waiting(e)
  BY <1>1, <1>2, <1>3, OutcomeSeen
<1>5. Accepted' = Accepted
  BY <1>1 DEF Accepted
<1>6. WaitingEvents' \in {WaitingEvents, WaitingEvents \ {e}}
  BY <1>2, <1>4 DEF WaitingEvents
<1>7. failed' = failed \cup {e}
  BY <1>2 DEF ForwardToFailed, PublishFailed
<1>8. Ledger!Fail(e)
  BY <1>1, <1>4, <1>5, <1>6, <1>7
  DEF Ledger!Fail, Ledger!HasOutcome, Accepted, WaitingEvents, Resolved
<1>9. QED
  BY <1>8 DEF Ledger!Next

\* Forwarding to the other topic: the event goes on waiting there; one that has
\* its outcome already (a duplicate) starts waiting again.
LEMMA ForwardRefines ==
    ASSUME DeliveryInv, DeliveryInv', NEW w \in Workers,
           ForwardToDrift(w) \/ ForwardToRaw(w)
    PROVE  [Ledger!Next]_Ledger!vars
<1>1. /\ TypeOK /\ TypeOK' /\ RecordInOrder(w) /\ IsBusy(w) /\ RecordDone(w)
      /\ UNCHANGED <<db, reply, failed>>
  BY DEF ForwardToDrift, ForwardToRaw, PublishDrift, PublishRaw, AppendRecord,
     publishUnchanged, DeliveryInv, IsBusy, Busy
<1>2. PICK e \in Events : e = EventAt(w)
  BY <1>1, EventAtFacts
<1>3. PICK q \in Partitions : AppendRecord(q, e)
  <2>1. KeyPartition[CaseOf[e]] \in Partitions
    BY DeploymentAssumption, TopicsAssumption DEF Partitions
  <2>2. QED
    BY <1>2, <2>1 DEF ForwardToDrift, ForwardToRaw, PublishDrift, PublishRaw, Partitions
<1>4. LogsGrow(e) /\ Len(log'[q]) = Len(log[q]) + 1 /\ log'[q][Len(log'[q])] = e
  <2>1. log \in [Partitions -> Seq(Events)] /\ log' = [log EXCEPT ![q] = Append(@, e)]
    BY <1>1, <1>3 DEF AppendRecord, TypeOK, TopicsTypeOK
  <2>2. QED
    BY <2>1, AppendFacts DEF LogsGrow
<1>5. Waiting(e)'
  <2>1. offset[w] <= Len(log[part[w]]) /\ part[w] \in Partitions /\ offset[w] \in Nat
    BY <1>1, EventAtFacts DEF RecordInOrder
  <2>2. done'[q] <= Len(log[q]) /\ Len(log[q]) \in Nat /\ done'[q] \in Nat
    <3>1. done[q] <= Len(log[q])
      BY DEF DeliveryInv
    <3>2. done'[q] = done[q] \/ (q = part[w] /\ done'[q] = offset[w])
      BY <1>1, <2>1, RecordDoneFacts
    <3>3. Len(log[q]) \in Nat /\ done'[q] \in Nat
      BY <1>1 DEF TypeOK, TopicsTypeOK
    <3>4. QED
      BY <2>1, <3>1, <3>2, <3>3
  <2>3. Len(log'[q]) \in 1..Len(log'[q]) /\ Len(log'[q]) > done'[q]
    BY <1>4, <2>2
  <2>4. QED
    BY <1>4, <2>3 DEF Waiting, RecordBeyond
<1>6. /\ WaitingEvents' \in {WaitingEvents \cup {e}, WaitingEvents \ {e}}
      /\ Waiting(e) \/ Resolved(e)
  BY <1>1, <1>2, <1>4, OutcomeSeen
<1>7. Accepted' = Accepted
  BY <1>1 DEF Accepted
<1>8. WaitingEvents' = WaitingEvents \cup {e}
  BY <1>5, <1>6 DEF WaitingEvents
<1>9. CASE Waiting(e)
  <2>1. WaitingEvents' = WaitingEvents
    BY <1>8, <1>9 DEF WaitingEvents
  <2>2. QED
    BY <1>1, <1>7, <2>1 DEF Ledger!vars, Accepted, WaitingEvents
<1>10. CASE Resolved(e)
  <2>1. Ledger!Repeat(e)
    BY <1>1, <1>7, <1>8, <1>10
    DEF Ledger!Repeat, Ledger!HasOutcome, Accepted, WaitingEvents, Resolved
  <2>2. QED
    BY <2>1 DEF Ledger!Next
<1>11. QED
  BY <1>6, <1>9, <1>10

\* The same record again: its event goes on waiting, or waits again.
LEMMA RepeatRefines ==
    ASSUME DeliveryInv, DeliveryInv', NEW p \in Partitions, RepeatRecord(p)
    PROVE  [Ledger!Next]_Ledger!vars
<1>1. TypeOK /\ TypeOK' /\ UNCHANGED <<db, reply, done>>
  BY DEF DeliveryInv, RepeatRecord
<1>2. PICK i \in 1..Len(log[p]) : AppendRecord(p, log[p][i])
  BY DEF RepeatRecord
<1>3. PICK e \in Events : e = log[p][i]
  BY <1>1, RecordIsEvent
<1>4. Appended(e) /\ failed' = failed
  BY <1>2, <1>3 DEF Appended, AppendRecord
<1>5. /\ Waiting(e)'
      /\ \A f \in Events : f # e => (Waiting(f)' <=> Waiting(f))
  BY <1>1, <1>4, PublishedEventWaits DEF DeliveryInv
<1>6. /\ WaitingEvents' = WaitingEvents \cup {e}
      /\ Accepted' = Accepted
  BY <1>1, <1>5 DEF WaitingEvents, Accepted
<1>7. CASE Waiting(e)
  <2>1. WaitingEvents' = WaitingEvents
    BY <1>6, <1>7 DEF WaitingEvents
  <2>2. QED
    BY <1>1, <1>4, <1>6, <2>1 DEF Ledger!vars, Accepted, WaitingEvents
<1>8. CASE Resolved(e)
  <2>1. Ledger!Repeat(e)
    BY <1>1, <1>4, <1>6, <1>8
    DEF Ledger!Repeat, Ledger!HasOutcome, Accepted, WaitingEvents, Resolved
  <2>2. QED
    BY <2>1 DEF Ledger!Next
<1>9. Resolved(e) \/ Waiting(e)
  BY <1>3 DEF DeliveryInv, EventsAccounted
<1>10. QED
  BY <1>7, <1>8, <1>9

--------------------------------------------------------------------------------
\* Every step of the pipeline is a step of the ledger or a stutter.
LEMMA LedgerStep ==
    ASSUME DeliveryInv, DeliveryInv', [Next]_vars
    PROVE  [Ledger!Next]_Ledger!vars
<1>1. CASE UNCHANGED vars
  BY <1>1, QuietStep DEF vars, topicVars
<1>2. ASSUME NEW e \in Events, Api(e)
      PROVE  [Ledger!Next]_Ledger!vars
  BY <1>2, ApiRefines
<1>3. ASSUME NEW w \in Workers, Run(w) \/ Crash(w) \/ Evict(w)
      PROVE  [Ledger!Next]_Ledger!vars
  <2>1. CASE StoreEvent(w)
    BY <2>1, StoreRefines
  <2>2. CASE ForwardToFailed(w)
    BY <2>2, FailRefines
  <2>3. CASE ForwardToDrift(w) \/ ForwardToRaw(w)
    BY <2>3, ForwardRefines
  <2>4. CASE Start(w) \/ (\E p \in Partitions : Poll(w, p)) \/ PollNothing(w) \/ Commit(w)
    <3>1. UNCHANGED <<log, failed, db, reply, done>>
      BY <2>4 DEF Start, Poll, PollNothing, Commit, topicVars, vars
    <3>2. QED
      BY <3>1, QuietStep
  <2>5. CASE Crash(w) \/ Evict(w) \/ CommitRefused(w) \/ RawApplyRaises(w)
             \/ StoreRaises(w) \/ GenerateRaises(w) \/ FailedTooLarge(w)
    <3>1. UNCHANGED <<log, failed, db, reply, done>>
      BY <2>5 DEF Crash, Evict, CommitRefused, RawApplyRaises, StoreRaises, GenerateRaises,
         FailedTooLarge, Leave, groupUnchanged
    <3>2. QED
      BY <3>1, QuietStep
  <2>6. CASE RawMiss(w) \/ RawApply(w) \/ RawInvalid(w) \/ DriftLookup(w)
             \/ Generate(w) \/ GenerateFails(w) \/ SaveMapping(w)
    <3>1. UNCHANGED <<log, failed, db, reply, done>>
      BY <2>6 DEF RawMiss, RawApply, RawInvalid, LookupStep, DriftLookup, Generate,
         GenerateFails, SaveMapping, topicVars
    <3>2. QED
      BY <3>1, QuietStep
  <2>7. QED
    BY <1>3, <2>1, <2>2, <2>3, <2>4, <2>5, <2>6 DEF Run, RawStep, DriftStep
<1>4. ASSUME NEW p \in Partitions, NEW w \in Workers, Coordinator(p, w)
      PROVE  [Ledger!Next]_Ledger!vars
  <2>1. UNCHANGED <<log, failed, db, reply, done>>
    BY <1>4 DEF Coordinator, AssignFree, Rebalance, groupUnchanged
  <2>2. QED
    BY <2>1, QuietStep
<1>5. ASSUME NEW p \in Partitions, RepeatRecord(p)
      PROVE  [Ledger!Next]_Ledger!vars
  BY <1>5, RepeatRefines
<1>6. CASE PowerFails
  BY <1>6, QuietStep DEF PowerFails
<1>7. QED
  BY <1>1, <1>2, <1>3, <1>4, <1>5, <1>6 DEF Next

\* The pipeline implements the ledger: no accepted event leaves the topics
\* without an outcome, and no outcome is changed or taken back.
THEOREM ImplementsLedger == Spec => LedgerSpec
<1>1. Init => Ledger!Init
  BY LedgerInit
<1>2. DeliveryInv /\ DeliveryInv' /\ [Next]_vars => [Ledger!Next]_Ledger!vars
  BY LedgerStep
<1>3. QED
  BY <1>1, <1>2, DeliveryIsInvariant, PTL DEF Spec, LedgerSpec, Ledger!Spec

================================================================================
