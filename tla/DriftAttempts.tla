----------------------------- MODULE DriftAttempts -----------------------------
(***************************************************************************)
(* process_drift_message with the AI client inside it: the handling of one *)
(* record of schema-drift, from the poll that returns it to the commit,    *)
(* with the time that passes, the requests and calls that fail, and the    *)
(* redelivery after the process ended.  EventPipeline takes this handler   *)
(* as a few steps; here each request and each check is a step, and the     *)
(* steps are shown to keep the contract EventPipeline assumes.             *)
(***************************************************************************)
EXTENDS AIClient

CONSTANTS
    Null,
    Result,           \* what apply_mapping gives for the event and each proposal
    RequestTime,      \* longest time a request to the AI takes, or fails in
    KafkaTime,        \* longest time publish_event or commit_message takes
    MaxPollInterval,  \* max.poll.interval.ms
    MaxFaults         \* bound on the exits that nothing forces

Outcomes == {"ok", "invalid", "raises"}

ASSUME AttemptsAssumption ==
    /\ Null \notin Answers
    /\ Result \in [Proposals -> Outcomes]
    /\ RequestTime \in Nat
    /\ KafkaTime \in Nat
    /\ MaxFaults \in Nat

\* The configuration gives the handler the time it may need: two requests for
\* each attempt, a publish and a commit (3 attempts of 30 s requests, 10 s for a
\* delivery, 900 s between polls).
ASSUME TimeAssumption ==
    /\ MaxPollInterval \in Nat
    /\ 2 * MaxAttempts * RequestTime + 2 * KafkaTime <= MaxPollInterval

VARIABLES
    pc,          \* the call process_drift_message makes next
    blocked,     \* the payload contains a blocked keyword
    configured,  \* the event's source is in AI_STATIC_FIELDS
    disk,        \* the generated mapping of the event's case, or Null
    published,   \* history: the topics the event was published to
    committed,   \* the record is committed
    elapsed,     \* time since the last poll
    faults

eventVars == <<blocked, configured>>
vars == <<clientVars, pc, eventVars, disk, published, committed, elapsed, faults>>

TypeOK ==
    /\ ClientTypeOK
    /\ pc \in {"down", "poll", "lookup", "screen", "ai", "apply", "save",
               "to_raw", "to_failed", "commit"}
    /\ blocked \in BOOLEAN
    /\ configured \in BOOLEAN
    /\ disk \in Proposals \cup {Null}
    /\ published \subseteq {"raw-events", "failed-events"}
    /\ committed \in BOOLEAN
    /\ elapsed \in Nat
    /\ faults \in 0..MaxFaults

Init ==
    /\ ClientInit
    /\ pc = "down"
    /\ blocked \in BOOLEAN
    /\ configured \in BOOLEAN
    /\ disk = Null
    /\ published = {}
    /\ committed = FALSE
    /\ elapsed = 0
    /\ faults = 0

\* A call returns after at most limit.
Spend(limit) == \E d \in 0..limit : elapsed' = elapsed + d

--------------------------------------------------------------------------------
\* run: the process starts, and polls.
Start ==
    /\ pc = "down"
    /\ pc' = "poll"
    /\ UNCHANGED <<clientVars, eventVars, disk, published, committed, elapsed, faults>>

\* The record is delivered, first or again.
Poll ==
    /\ pc = "poll"
    /\ ~ committed
    /\ pc' = "lookup"
    /\ elapsed' = 0
    /\ UNCHANGED <<clientVars, eventVars, disk, published, committed, faults>>

PollNothing ==
    /\ pc = "poll"
    /\ committed
    /\ UNCHANGED vars

\* run ends; the next process starts with an empty memory.
Leave ==
    /\ pc' = "down"
    /\ Abandon
    /\ UNCHANGED <<eventVars, disk, published, committed>>

\* An exit that comes from outside the handler.
Fault ==
    /\ faults < MaxFaults
    /\ faults' = faults + 1
    /\ Leave

Crash ==
    /\ pc # "down"
    /\ Fault
    /\ UNCHANGED elapsed

\* mapping_store.get.
LookupMapping ==
    /\ pc = "lookup"
    /\ pc' = IF disk # Null THEN "to_raw" ELSE "screen"
    /\ UNCHANGED <<clientVars, eventVars, disk, published, committed, elapsed, faults>>

--------------------------------------------------------------------------------
(***************************************************************************)
(* The try block: generate_mapping, RuntimeMapping, apply_mapping.         *)
(***************************************************************************)
handlerUnchanged == UNCHANGED <<eventVars, disk, published, committed, faults>>

\* The payload has a blocked keyword: AISecurityError before any request.
ScreenBlocked ==
    /\ pc = "screen"
    /\ blocked
    /\ pc' = "to_failed"
    /\ UNCHANGED <<clientVars, elapsed>>
    /\ handlerUnchanged

\* AI_STATIC_FIELDS has no such source: a KeyError that nobody handles.
ScreenUnknownSource ==
    /\ pc = "screen"
    /\ ~ blocked
    /\ ~ configured
    /\ Leave
    /\ UNCHANGED <<elapsed, faults>>

Screen ==
    /\ pc = "screen"
    /\ ~ blocked
    /\ configured
    /\ Begin
    /\ pc' = "ai"
    /\ UNCHANGED elapsed
    /\ handlerUnchanged

\* What generate_mapping does between its requests takes no time.
Think ==
    /\ pc = "ai"
    /\ Ask \/ CheckFails \/ CheckPasses
    /\ UNCHANGED <<pc, elapsed>>
    /\ handlerUnchanged

MappingAnswered(a) ==
    /\ pc = "ai"
    /\ Answer(a)
    /\ Spend(RequestTime)
    /\ UNCHANGED pc
    /\ handlerUnchanged

ReviewRejected(v) ==
    /\ pc = "ai"
    /\ ReviewRejects(v)
    /\ Spend(RequestTime)
    /\ UNCHANGED pc
    /\ handlerUnchanged

ReviewCleared(v) ==
    /\ pc = "ai"
    /\ ReviewClears(v)
    /\ Spend(RequestTime)
    /\ pc' = "apply"
    /\ handlerUnchanged

\* Mutant: a request that failed is sent again.
RequestRetried ==
    /\ pc = "ai"
    /\ step \in {"asked", "reviewing"}
    /\ faults < MaxFaults
    /\ faults' = faults + 1
    /\ Spend(RequestTime)
    /\ UNCHANGED <<clientVars, pc, eventVars, disk, published, committed>>

\* A request fails: AIClientError, which process_drift_message lets through.
RequestFails ==
    /\ pc = "ai"
    /\ step \in {"asked", "reviewing"}
    /\ Fault
    /\ Spend(RequestTime)

NoProposal ==
    /\ pc = "ai"
    /\ GiveUp
    /\ pc' = "to_failed"
    /\ UNCHANGED elapsed
    /\ handlerUnchanged

\* Mutant: the proposal is saved without the final check.
ApplySkipped ==
    /\ pc = "apply"
    /\ pc' = "save"
    /\ UNCHANGED <<clientVars, elapsed>>
    /\ handlerUnchanged

\* apply_mapping as the final check.
Apply ==
    /\ pc = "apply"
    /\ \/ Result[content] = "ok" /\ pc' = "save"
       \/ Result[content] = "invalid" /\ pc' = "to_failed"
    /\ UNCHANGED <<clientVars, elapsed>>
    /\ handlerUnchanged

\* apply_mapping raises what the handler does not catch.
ApplyRaises ==
    /\ pc = "apply"
    /\ Result[content] = "raises"
    /\ Leave
    /\ UNCHANGED <<elapsed, faults>>

--------------------------------------------------------------------------------
SaveMapping ==
    /\ pc = "save"
    /\ disk' = content
    /\ pc' = "to_raw"
    /\ UNCHANGED <<clientVars, eventVars, published, committed, elapsed, faults>>

\* publish_event, then the commit is next.
Publish(label, topic) ==
    /\ pc = label
    /\ published' = published \cup {topic}
    /\ pc' = "commit"
    /\ Spend(KafkaTime)
    /\ UNCHANGED <<clientVars, eventVars, disk, committed, faults>>

PublishToRaw == Publish("to_raw", "raw-events")

\* Mutant: the handler returns without the commit.
PublishToFailedOnly ==
    /\ pc = "to_failed"
    /\ published' = published \cup {"failed-events"}
    /\ pc' = "poll"
    /\ Spend(KafkaTime)
    /\ UNCHANGED <<clientVars, eventVars, disk, committed, faults>>

PublishToFailed == Publish("to_failed", "failed-events")

Commit ==
    /\ pc = "commit"
    /\ committed' = TRUE
    /\ pc' = "poll"
    /\ Spend(KafkaTime)
    /\ UNCHANGED <<clientVars, eventVars, disk, published, faults>>

--------------------------------------------------------------------------------
Generate ==
    \/ ScreenBlocked \/ ScreenUnknownSource \/ Screen \/ Think
    \/ \E a \in Answers \cup {NoContent} : MappingAnswered(a)
    \/ \E v \in Verdicts : ReviewRejected(v) \/ ReviewCleared(v)
    \/ NoProposal \/ Apply \/ ApplyRaises

\* What the process does when no call fails.
Work ==
    \/ Start \/ Poll \/ PollNothing \/ LookupMapping
    \/ Generate
    \/ SaveMapping \/ PublishToRaw \/ PublishToFailed \/ Commit

Next == Work \/ Crash \/ RequestFails

Spec == Init /\ [][Next]_vars

\* The process goes on while it can, and is started again when it ended.
FairSpec == Spec /\ WF_vars(Work)

--------------------------------------------------------------------------------
\* The handler polls again before the group evicts it, whatever the AI answers
\* and however slowly: two requests an attempt, no retry below them
\* (max_retries=0, client.py:67; max.poll.interval.ms, kafka_client.py:73).
PollsInTime == elapsed <= MaxPollInterval

\* A mapping on disk is one the review model let pass: that very answer, not
\* the one of an earlier attempt, and no answer whose review failed or could
\* not be read (client.py:149-172).
SavedWasReviewed == disk # Null => disk \in cleared

Corrections == {i \in DOMAIN messages : messages[i].role = "correction"}

\* The answer at i is followed by a correction that speaks of it.
Corrected(i) ==
    /\ i + 1 \in Corrections
    /\ messages[i + 1].text = messages[i].text

\* What the models are sent.  Nothing for a payload with a blocked keyword.  To the
\* review, only the answer its conversation ends with, if that has no blocked
\* keyword.  The mapping model is sent its own blocked answers again, as the whole
\* conversation is, but none that the next message does not reject: no request
\* goes on from a blocked answer (client.py:77, 116-147, 159).
RequestsAreScreened ==
    /\ step \in {"asked", "reviewing"} => ~ blocked
    /\ step = "reviewing" =>
        /\ content \notin BlockedAnswers
        /\ messages[Len(messages)] = Message("answer", content)
    /\ step = "asked" => \A i \in DOMAIN messages :
           messages[i].role = "answer" /\ messages[i].text \in BlockedAnswers => Corrected(i)

\* The requests answered so far in this delivery are at most these.
Answered ==
    2 * attempt - (IF step = "asked" THEN 2
                   ELSE IF step \in {"check", "reviewing"} THEN 1 ELSE 0)

\* The time used up fits what the code has done since the poll.
WithinBudget ==
    /\ pc \in {"lookup", "screen"} => elapsed = 0
    /\ pc \in {"ai", "apply", "save", "to_raw", "to_failed"} => elapsed <= Answered * RequestTime
    /\ pc = "commit" => elapsed <= 2 * MaxAttempts * RequestTime + KafkaTime
    /\ PollsInTime

\* An answer the client hands on has passed the checks it comes after.
ChecksHold ==
    /\ step # "idle" <=> pc = "ai"
    /\ step \in {"asked", "check", "reviewing"} => attempt > 0
    /\ pc \in {"ai", "apply", "save"} => ~ blocked
    /\ step = "reviewing" \/ pc \in {"apply", "save"} =>
           StructureValid(content) /\ content \notin BlockedAnswers
    /\ pc \in {"apply", "save"} => content \in cleared
    /\ pc = "save" => Result[content] = "ok"

\* The handler chooses its branch by the mapping on disk, which only it writes.
BranchFollowsDisk ==
    /\ pc \in {"screen", "ai", "apply", "save", "to_failed"} => disk = Null
    /\ pc = "to_raw" => disk # Null
    /\ pc = "commit" => published # {}
    /\ pc \notin {"poll", "down"} => ~ committed

\* Every attempt but the first tells the model that the answer before it was
\* rejected: a correction for each earlier attempt, the last of them the last
\* message, and each answer followed by its own (client.py:116-128).
EveryRejectionIsTold ==
    step = "asked" =>
        /\ Cardinality(Corrections) = attempt - 1
        /\ attempt > 1 => Len(messages) \in Corrections
        /\ \A i \in DOMAIN messages : messages[i].role = "answer" => Corrected(i)

\* An answer that is the last message is the one at hand.
LastIsContent ==
    messages # <<>> /\ messages[Len(messages)].role = "answer" =>
        messages[Len(messages)].text = content

\* Why EveryRejectionIsTold goes on holding: between two requests the last
\* correction is still to be said, and only the last answer can lack one.
ConversationInv ==
    /\ step = "ask" =>
        /\ rejected <=> attempt > 0
        /\ attempt = 0 => messages = Opening
        /\ rejected => Cardinality(Corrections) = attempt - 1
    /\ step \in {"check", "reviewing"} =>
        /\ Cardinality(Corrections) = attempt - 1
        /\ content # NoContent => messages # <<>> /\ messages[Len(messages)].role = "answer"
    /\ step # "idle" => \A i \in DOMAIN messages :
           messages[i].role = "answer" /\ i < Len(messages) => Corrected(i)
    /\ step # "idle" => LastIsContent
    /\ EveryRejectionIsTold

\* The inductive invariant behind PollsInTime, SavedWasReviewed,
\* EveryRejectionIsTold and the contract.
AttemptsInv ==
    /\ TypeOK
    /\ WithinBudget
    /\ ChecksHold
    /\ BranchFollowsDisk
    /\ SavedWasReviewed
    /\ ConversationInv

\* The handler keeps the contract of DriftContract: what is saved sets no
\* protected or static field, copies only paths of the payload, holds no blocked
\* keyword, applies to the event, and belongs to a payload without blocked words.
Contract == INSTANCE DriftContract WITH
    Mappings <- Proposals,
    NoMapping <- Null,
    eligible <- ~ blocked,
    mapping <- disk,
    Acceptable <- {m \in Proposals \ BlockedAnswers :
        /\ TargetsOf[m] \cap (Protected \cup StaticTargets) = {}
        /\ PathsOf[m] \ {"source"} \subseteq PayloadPaths
        /\ Result[m] = "ok"}

ContractSpec == Contract!Spec

\* A record whose source AI_STATIC_FIELDS does not have, and whose payload is not
\* blocked, gets no further than client.py:83: each delivery ends the process,
\* and the event is neither published nor committed.
UnknownSourceStays ==
    ~ configured /\ ~ blocked =>
        /\ pc \in {"down", "poll", "lookup", "screen"}
        /\ disk = Null
        /\ published = {}
        /\ ~ committed

\* Which records are committed: those of unknown sources never, unless blocked; all
\* others in the end, in spite of a bounded number of crashes and failed requests,
\* unless the AI goes on giving proposals that make apply_mapping raise: nothing
\* counts the deliveries (drift_consumer.py:47, 75, 85).
RecordCommitted ==
    /\ []UnknownSourceStays
    /\ \/ []<>(pc = "apply" /\ Result[content] = "raises")
       \/ (configured \/ blocked) ~> committed

================================================================================
