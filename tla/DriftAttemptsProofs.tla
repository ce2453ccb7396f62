-------------------------- MODULE DriftAttemptsProofs --------------------------
(***************************************************************************)
(* Proofs about DriftAttempts: for any set of answers, any number of       *)
(* attempts and any limits that satisfy TimeAssumption, the handler polls  *)
(* in time, saves only reviewed mappings, goes on from no blocked answer,  *)
(* tells of every rejection and keeps its contract.                        *)
(***************************************************************************)
EXTENDS DriftAttempts, FiniteSetTheorems, TLAPS

--------------------------------------------------------------------------------
\* One more request of at most RequestTime.
LEMMA OneMore ==
    ASSUME NEW n \in Nat, NEW r \in Nat
    PROVE  (n + 1) * r = n * r + r
  OBVIOUS

LEMMA ProductGrows ==
    ASSUME NEW m \in Nat, NEW n \in Nat, NEW r \in Nat, m <= n
    PROVE  m * r <= n * r
<1>1. PICK k \in Nat : n = m + k
  <2>1. n - m \in Nat /\ n = m + (n - m)
    OBVIOUS
  <2> QED
    BY <2>1
<1>2. n * r = m * r + k * r
  BY <1>1
<1>3. k * r \in Nat /\ m * r \in Nat
  OBVIOUS
<1> QED
  BY <1>2, <1>3

\* The requests of the last attempt fit the poll interval.
LEMMA BudgetFits ==
    ASSUME NEW n \in Nat, n <= 2 * MaxAttempts
    PROVE  n * RequestTime + 2 * KafkaTime <= MaxPollInterval
<1>1. n * RequestTime <= (2 * MaxAttempts) * RequestTime
  BY ProductGrows, ClientAssumption, AttemptsAssumption
<1>2. n * RequestTime \in Nat /\ (2 * MaxAttempts) * RequestTime \in Nat
  BY ClientAssumption, AttemptsAssumption
<1> QED
  BY <1>1, <1>2, TimeAssumption, AttemptsAssumption

\* The requests counted are a number within the limit.
LEMMA AnsweredBounds ==
    ASSUME TypeOK, ChecksHold
    PROVE  Answered \in Nat /\ Answered <= 2 * MaxAttempts
<1>1. attempt \in Nat /\ MaxAttempts \in Nat /\ attempt <= MaxAttempts
  BY ClientAssumption DEF TypeOK, ClientTypeOK
<1>2. CASE step \in {"asked", "check", "reviewing"}
  BY <1>1, <1>2 DEF ChecksHold, Answered
<1>3. CASE step \notin {"asked", "check", "reviewing"}
  BY <1>1, <1>3 DEF Answered
<1> QED
  BY <1>2, <1>3

\* A message is one of Messages, and holds what it was made of.
LEMMA MessageType ==
    ASSUME NEW role \in Roles, NEW text \in Answers \cup {NoContent}
    PROVE  /\ Message(role, text) \in Messages
           /\ Message(role, text).role = role
           /\ Message(role, text).text = text
  BY DEF Message, Messages

\* The head of a conversation: two messages, neither of them an answer.
LEMMA OpeningType ==
    /\ Opening \in Seq(Messages)
    /\ DOMAIN Opening = 1..2
    /\ Len(Opening) = 2
    /\ \A i \in 1..2 : Opening[i].role \in {"system", "request"}
<1>1. /\ Message("system", NoContent) \in Messages
      /\ Message("request", NoContent) \in Messages
      /\ Message("system", NoContent).role = "system"
      /\ Message("request", NoContent).role = "request"
  BY MessageType DEF Roles
<1> QED
  BY <1>1 DEF Opening

\* Where there is no call there is no conversation.
LEMMA NoCall ==
    ASSUME step = "idle"
    PROVE  ConversationInv
  BY DEF ConversationInv, EveryRejectionIsTold

LEMMA InitInv == Init => AttemptsInv
<1> SUFFICES ASSUME Init PROVE AttemptsInv
  OBVIOUS
<1>1. ClientTypeOK
  <2>1. messages = <<>> /\ attempt = 0 /\ step = "idle" /\ content = NoContent
    BY DEF Init, ClientInit
  <2>2. messages \in Seq(Messages)
    BY <2>1
  <2>3. attempt \in 0..MaxAttempts
    BY <2>1, ClientAssumption
  <2> QED
    BY <2>1, <2>2, <2>3 DEF Init, ClientInit, ClientTypeOK
<1>2. pc = "down" /\ elapsed = 0 /\ faults = 0
  BY DEF Init
<1>3. TypeOK
  <2>1. faults \in 0..MaxFaults
    BY <1>2, AttemptsAssumption
  <2>2. elapsed \in Nat
    BY <1>2
  <2> QED
    BY <1>1, <1>2, <2>1, <2>2, Zenon DEF Init, TypeOK
<1>4. WithinBudget
  BY <1>2, TimeAssumption DEF WithinBudget, PollsInTime, Answered
<1>5. ConversationInv
  BY NoCall DEF Init, ClientInit
<1> QED
  BY <1>3, <1>4, <1>5 DEF Init, ClientInit, AttemptsInv, ChecksHold, BranchFollowsDisk, SavedWasReviewed

--------------------------------------------------------------------------------
\* A process that ends forgets the call.
LEMMA LeaveKeepsType ==
    ASSUME TypeOK, Leave, elapsed' \in Nat, faults' \in 0..MaxFaults
    PROVE  TypeOK'
<1>1. ClientTypeOK'
  <2>1. messages' = <<>> /\ attempt' = 0 /\ content' = NoContent
    BY DEF Leave, Abandon
  <2>2. messages' \in Seq(Messages)
    BY <2>1
  <2>3. attempt' \in 0..MaxAttempts
    BY <2>1, ClientAssumption
  <2> QED
    BY <2>1, <2>2, <2>3 DEF Leave, Abandon, TypeOK, ClientTypeOK
<1> QED
  BY <1>1 DEF Leave, TypeOK, eventVars

\* A fault stays within the bound.
LEMMA FaultKeepsType ==
    ASSUME TypeOK, Fault, elapsed' \in Nat
    PROVE  TypeOK'
<1>1. faults' \in 0..MaxFaults
  BY AttemptsAssumption DEF Fault, TypeOK
<1> QED
  BY <1>1, LeaveKeepsType DEF Fault

\* The answer the handler works with is a proposal that passed the checks.
LEMMA ContentIsProposal ==
    ASSUME ChecksHold, step = "reviewing" \/ pc \in {"apply", "save"}
    PROVE  content \in Proposals /\ content \in Answers /\ content # Null
  BY ClientAssumption, AttemptsAssumption DEF ChecksHold, StructureValid

\* What a call that takes time leaves: a natural number.
LEMMA SpendIsNat ==
    ASSUME NEW limit \in Nat, elapsed \in Nat, Spend(limit)
    PROVE  elapsed' \in Nat /\ elapsed' <= elapsed + limit
  BY DEF Spend

\* Every step keeps the types.
LEMMA TypeStep ==
    ASSUME TypeOK, ChecksHold, [Next]_vars
    PROVE  TypeOK'
<1>1. CASE Start
  BY <1>1 DEF Start, TypeOK, ClientTypeOK, clientVars, eventVars
<1>2. CASE Poll
  BY <1>2 DEF Poll, TypeOK, ClientTypeOK, clientVars, eventVars
<1>3. CASE LookupMapping
  BY <1>3 DEF LookupMapping, TypeOK, ClientTypeOK, clientVars, eventVars
<1>4. CASE ScreenBlocked
  BY <1>4 DEF ScreenBlocked, handlerUnchanged, TypeOK, ClientTypeOK, clientVars,
      eventVars
<1>5. CASE ScreenUnknownSource
  BY <1>5, LeaveKeepsType DEF ScreenUnknownSource, TypeOK
<1>6. CASE Screen
  <2>1. messages' \in Seq(Messages)
    BY <1>6, OpeningType DEF Screen, Begin
  <2>2. attempt' \in 0..MaxAttempts
    BY <1>6, ClientAssumption DEF Screen, Begin
  <2> QED
    BY <1>6, <2>1, <2>2 DEF Screen, Begin, handlerUnchanged, TypeOK, ClientTypeOK,
        eventVars
<1>7. CASE Think
  <2>1. messages' \in Seq(Messages)
    <3>1. messages \in Seq(Messages) /\ Message("correction", content) \in Messages
      BY MessageType DEF TypeOK, ClientTypeOK, Roles
    <3>2. Append(messages, Message("correction", content)) \in Seq(Messages)
      BY <3>1
    <3> QED
      BY <1>7, <3>1, <3>2 DEF Think, Ask, CheckFails, CheckPasses, RejectAnswer
  <2>2. attempt' \in 0..MaxAttempts
    BY <1>7, ClientAssumption
       DEF Think, Ask, CheckFails, CheckPasses, RejectAnswer, TypeOK, ClientTypeOK
  <2>3. step' \in {"ask", "asked", "reviewing"} /\ content' = content /\ cleared' =
      cleared
    BY <1>7 DEF Think, Ask, CheckFails, CheckPasses, RejectAnswer
  <2>4. rejected' \in BOOLEAN
    BY <1>7 DEF Think, Ask, CheckFails, CheckPasses, RejectAnswer, TypeOK, ClientTypeOK
  <2> QED
    BY <1>7, <2>1, <2>2, <2>3, <2>4 DEF Think, handlerUnchanged, TypeOK,
        ClientTypeOK, eventVars
<1>8. ASSUME NEW a \in Answers \cup {NoContent}, MappingAnswered(a)
      PROVE  TypeOK'
  <2>1. elapsed' \in Nat
    BY <1>8, SpendIsNat, AttemptsAssumption DEF MappingAnswered, TypeOK
  <2>2. messages' \in Seq(Messages)
    <3>1. messages \in Seq(Messages) /\ Message("answer", a) \in Messages
      BY MessageType DEF TypeOK, ClientTypeOK, Roles
    <3>2. Append(messages, Message("answer", a)) \in Seq(Messages)
      BY <3>1
    <3> QED
      BY <1>8, <3>1, <3>2 DEF MappingAnswered, Answer
  <2> QED
    BY <1>8, <2>1, <2>2
       DEF MappingAnswered, Answer, handlerUnchanged, TypeOK, ClientTypeOK, eventVars
<1>9. ASSUME NEW v \in Verdicts, ReviewRejected(v)
      PROVE  TypeOK'
  <2>1. elapsed' \in Nat
    BY <1>9, SpendIsNat, AttemptsAssumption DEF ReviewRejected, TypeOK
  <2> QED
    BY <1>9, <2>1
       DEF ReviewRejected, ReviewRejects, RejectAnswer, handlerUnchanged, TypeOK,
           ClientTypeOK, eventVars
<1>10. ASSUME NEW v \in Verdicts, ReviewCleared(v)
      PROVE  TypeOK'
  <2>1. elapsed' \in Nat
    BY <1>10, SpendIsNat, AttemptsAssumption DEF ReviewCleared, TypeOK
  <2>2. cleared' \subseteq Answers
    BY <1>10, ContentIsProposal DEF ReviewCleared, ReviewClears, TypeOK, ClientTypeOK
  <2> QED
    BY <1>10, <2>1, <2>2
       DEF ReviewCleared, ReviewClears, handlerUnchanged, TypeOK, ClientTypeOK,
           eventVars
<1>11. CASE NoProposal
  BY <1>11 DEF NoProposal, GiveUp, handlerUnchanged, TypeOK, ClientTypeOK,
      clientVars, eventVars
<1>12. CASE Apply
  BY <1>12 DEF Apply, handlerUnchanged, TypeOK, ClientTypeOK, clientVars, eventVars
<1>13. CASE ApplyRaises
  BY <1>13, LeaveKeepsType DEF ApplyRaises, TypeOK
<1>14. CASE SaveMapping
  BY <1>14, ContentIsProposal DEF SaveMapping, TypeOK, ClientTypeOK, clientVars,
      eventVars
<1>15. CASE PublishToRaw
  <2>1. elapsed' \in Nat
    BY <1>15, SpendIsNat, AttemptsAssumption DEF PublishToRaw, Publish, TypeOK
  <2> QED
    BY <1>15, <2>1 DEF PublishToRaw, Publish, TypeOK, ClientTypeOK, clientVars,
        eventVars
<1>16. CASE PublishToFailed
  <2>1. elapsed' \in Nat
    BY <1>16, SpendIsNat, AttemptsAssumption DEF PublishToFailed, Publish, TypeOK
  <2> QED
    BY <1>16, <2>1 DEF PublishToFailed, Publish, TypeOK, ClientTypeOK, clientVars,
        eventVars
<1>17. CASE Commit
  <2>1. elapsed' \in Nat
    BY <1>17, SpendIsNat, AttemptsAssumption DEF Commit, TypeOK
  <2> QED
    BY <1>17, <2>1 DEF Commit, TypeOK, ClientTypeOK, clientVars, eventVars
<1>18. CASE Crash
  BY <1>18, FaultKeepsType DEF Crash, TypeOK
<1>19. CASE RequestFails
  <2>1. elapsed' \in Nat
    BY <1>19, SpendIsNat, AttemptsAssumption DEF RequestFails, TypeOK
  <2> QED
    BY <1>19, <2>1, FaultKeepsType DEF RequestFails
<1>20. CASE UNCHANGED vars
  BY <1>20 DEF vars, TypeOK, ClientTypeOK, clientVars, eventVars
<1> QED
  BY <1>1, <1>2, <1>3, <1>4, <1>5, <1>6, <1>7, <1>8, <1>9, <1>10, <1>11, <1>12,
      <1>13, <1>14, <1>15, <1>16, <1>17, <1>18, <1>19, <1>20 DEF Next, Work,
          Generate, PollNothing

--------------------------------------------------------------------------------
\* A request answered at pc = "ai" spends what Answered counts for it.
LEMMA RequestInBudget ==
    ASSUME TypeOK, ChecksHold, WithinBudget, pc = "ai", Spend(RequestTime),
           step \in {"asked", "reviewing"}
    PROVE  /\ elapsed' \in Nat
           /\ elapsed' <= (Answered + 1) * RequestTime
           /\ elapsed' <= MaxPollInterval
<1>1. Answered \in Nat /\ Answered + 1 <= 2 * MaxAttempts
  BY ClientAssumption DEF Answered, ChecksHold, TypeOK, ClientTypeOK
<1>2. elapsed \in Nat /\ elapsed <= Answered * RequestTime
  BY DEF WithinBudget, TypeOK
<1>3. elapsed' \in Nat /\ elapsed' <= elapsed + RequestTime
  BY <1>2, SpendIsNat, AttemptsAssumption
<1>4. Answered * RequestTime \in Nat
  BY <1>1, AttemptsAssumption
<1>5. elapsed' <= (Answered + 1) * RequestTime
  BY <1>1, <1>2, <1>3, <1>4, OneMore, AttemptsAssumption
<1>6. (Answered + 1) * RequestTime + 2 * KafkaTime <= MaxPollInterval
  BY <1>1, BudgetFits
<1> QED
  BY <1>1, <1>3, <1>5, <1>6, AttemptsAssumption, TimeAssumption

\* After a publish there is still time for the commit.
LEMMA PublishInBudget ==
    ASSUME TypeOK, ChecksHold, WithinBudget, pc \in {"to_raw", "to_failed"},
           Spend(KafkaTime)
    PROVE  /\ elapsed' <= 2 * MaxAttempts * RequestTime + KafkaTime
           /\ elapsed' <= MaxPollInterval
<1>1. Answered \in Nat /\ Answered <= 2 * MaxAttempts
  BY AnsweredBounds
<1>2. Answered * RequestTime <= (2 * MaxAttempts) * RequestTime
  BY <1>1, ProductGrows, ClientAssumption, AttemptsAssumption
<1>3. elapsed \in Nat /\ elapsed <= Answered * RequestTime
  BY DEF WithinBudget, TypeOK
<1>4. elapsed' \in Nat /\ elapsed' <= elapsed + KafkaTime
  BY <1>3, SpendIsNat, AttemptsAssumption
<1>5. Answered * RequestTime \in Nat /\ 2 * MaxAttempts * RequestTime \in Nat
  BY <1>1, ClientAssumption, AttemptsAssumption
<1> QED
  BY <1>2, <1>3, <1>4, <1>5, AttemptsAssumption, TimeAssumption

\* A time within one count is within a larger one.
LEMMA WithinMore ==
    ASSUME NEW m \in Nat, NEW n \in Nat, NEW r \in Nat, NEW t \in Nat,
           t = 0 \/ (t <= m * r /\ m <= n)
    PROVE  t <= n * r
<1>1. m * r \in Nat /\ n * r \in Nat
  OBVIOUS
<1>2. CASE t = 0
  BY <1>1, <1>2
<1>3. CASE t <= m * r /\ m <= n
  BY <1>1, <1>3, ProductGrows
<1> QED
  BY <1>2, <1>3

\* Steps that take no time and do not lower the count keep the budget.
LEMMA SameTime ==
    ASSUME TypeOK, ChecksHold, WithinBudget, elapsed' = elapsed,
           pc \in {"lookup", "screen", "ai", "apply", "save", "to_raw", "to_failed"},
           Answered' \in Nat,
           elapsed = 0 \/ Answered <= Answered'
    PROVE  elapsed' <= Answered' * RequestTime
<1>1. elapsed \in Nat /\ Answered \in Nat /\ RequestTime \in Nat
  BY AnsweredBounds, AttemptsAssumption DEF TypeOK
<1>2. elapsed = 0 \/ elapsed <= Answered * RequestTime
  BY DEF WithinBudget
<1> QED
  BY <1>1, <1>2, WithinMore

\* Every step stays within the budget of time.
LEMMA BudgetStep ==
    ASSUME TypeOK, ChecksHold, WithinBudget, [Next]_vars
    PROVE  WithinBudget'
<1>1. CASE Start
  BY <1>1 DEF Start, WithinBudget, PollsInTime
<1>2. CASE Poll
  <2>1. elapsed' = 0 /\ pc' = "lookup"
    BY <1>2 DEF Poll
  <2> QED
    BY <2>1, TimeAssumption DEF WithinBudget, PollsInTime
<1>3. CASE LookupMapping
  <2>1. elapsed = 0 /\ elapsed' = elapsed /\ pc' \in {"to_raw", "screen"}
    BY <1>3 DEF LookupMapping, WithinBudget
  <2>2. Answered' = Answered
    BY <1>3 DEF LookupMapping, clientVars, Answered
  <2>3. elapsed' <= Answered' * RequestTime
    BY <1>3, <2>1, <2>2, SameTime, AnsweredBounds DEF LookupMapping
  <2> QED
    BY <2>1, <2>3, TimeAssumption DEF WithinBudget, PollsInTime
<1>4. CASE ScreenBlocked
  <2>1. Answered' \in Nat /\ (elapsed = 0 \/ Answered <= Answered')
    BY <1>4, AnsweredBounds DEF ScreenBlocked, handlerUnchanged, Answered,
        WithinBudget, ChecksHold, TypeOK, ClientTypeOK, clientVars
  <2>2. elapsed' = elapsed /\ pc # "commit" /\ pc' \notin {"lookup", "screen", "commit"}
    BY <1>4 DEF ScreenBlocked, handlerUnchanged, clientVars, vars
  <2>3. elapsed' <= Answered' * RequestTime
    BY <1>4, <2>1, <2>2, SameTime DEF ScreenBlocked
  <2> QED
    BY <2>2, <2>3 DEF WithinBudget, PollsInTime
<1>5. CASE ScreenUnknownSource
  BY <1>5 DEF ScreenUnknownSource, Leave, WithinBudget, PollsInTime
<1>6. CASE Screen
  <2>1. Answered' \in Nat /\ (elapsed = 0 \/ Answered <= Answered')
    BY <1>6, AnsweredBounds DEF Screen, Begin, handlerUnchanged, Answered,
        WithinBudget, ChecksHold, TypeOK, ClientTypeOK, clientVars
  <2>2. elapsed' = elapsed /\ pc # "commit" /\ pc' \notin {"lookup", "screen", "commit"}
    BY <1>6 DEF Screen, Begin, handlerUnchanged, clientVars, vars
  <2>3. elapsed' <= Answered' * RequestTime
    BY <1>6, <2>1, <2>2, SameTime DEF Screen
  <2> QED
    BY <2>2, <2>3 DEF WithinBudget, PollsInTime
<1>7. CASE Think
  <2>1. Answered' \in Nat /\ (elapsed = 0 \/ Answered <= Answered')
    BY <1>7, AnsweredBounds DEF Think, Ask, CheckFails, CheckPasses, RejectAnswer,
        handlerUnchanged, Answered, WithinBudget, ChecksHold, TypeOK, ClientTypeOK,
            clientVars
  <2>2. elapsed' = elapsed /\ pc # "commit" /\ pc' \notin {"lookup", "screen", "commit"}
    BY <1>7 DEF Think, Ask, CheckFails, CheckPasses, RejectAnswer, handlerUnchanged,
        clientVars, vars
  <2>3. elapsed' <= Answered' * RequestTime
    BY <1>7, <2>1, <2>2, SameTime DEF Think
  <2> QED
    BY <2>2, <2>3 DEF WithinBudget, PollsInTime
<1>8. ASSUME NEW a \in Answers \cup {NoContent}, MappingAnswered(a)
      PROVE  WithinBudget'
  <2>1. pc = "ai" /\ step \in {"asked", "reviewing"} /\ Spend(RequestTime) /\ pc' = "ai"
    BY <1>8 DEF MappingAnswered, Answer
  <2>2. Answered' = Answered + 1
    BY <1>8, <2>1 DEF MappingAnswered, Answer, Answered, ChecksHold, TypeOK,
        ClientTypeOK
  <2> QED
    BY <2>1, <2>2, RequestInBudget DEF WithinBudget, PollsInTime
<1>9. ASSUME NEW v \in Verdicts, ReviewRejected(v)
      PROVE  WithinBudget'
  <2>1. pc = "ai" /\ step \in {"asked", "reviewing"} /\ Spend(RequestTime) /\ pc' = "ai"
    BY <1>9 DEF ReviewRejected, ReviewRejects
  <2>2. Answered' = Answered + 1
    BY <1>9, <2>1 DEF ReviewRejected, ReviewRejects, RejectAnswer, Answered,
        ChecksHold, TypeOK, ClientTypeOK
  <2> QED
    BY <2>1, <2>2, RequestInBudget DEF WithinBudget, PollsInTime
<1>10. ASSUME NEW v \in Verdicts, ReviewCleared(v)
      PROVE  WithinBudget'
  <2>1. pc = "ai" /\ step \in {"asked", "reviewing"} /\ Spend(RequestTime) /\ pc' =
      "apply"
    BY <1>10 DEF ReviewCleared, ReviewClears
  <2>2. Answered' = Answered + 1
    BY <1>10, <2>1 DEF ReviewCleared, ReviewClears, Answered, ChecksHold, TypeOK,
        ClientTypeOK
  <2> QED
    BY <2>1, <2>2, RequestInBudget DEF WithinBudget, PollsInTime
<1>11. CASE NoProposal
  <2>1. Answered' \in Nat /\ (elapsed = 0 \/ Answered <= Answered')
    BY <1>11, AnsweredBounds DEF NoProposal, GiveUp, handlerUnchanged, Answered,
        WithinBudget, ChecksHold, TypeOK, ClientTypeOK, clientVars
  <2>2. elapsed' = elapsed /\ pc # "commit" /\ pc' \notin {"lookup", "screen", "commit"}
    BY <1>11 DEF NoProposal, GiveUp, handlerUnchanged, clientVars, vars
  <2>3. elapsed' <= Answered' * RequestTime
    BY <1>11, <2>1, <2>2, SameTime DEF NoProposal
  <2> QED
    BY <2>2, <2>3 DEF WithinBudget, PollsInTime
<1>12. CASE Apply
  <2>1. Answered' \in Nat /\ (elapsed = 0 \/ Answered <= Answered')
    BY <1>12, AnsweredBounds DEF Apply, handlerUnchanged, Answered, WithinBudget,
        ChecksHold, TypeOK, ClientTypeOK, clientVars
  <2>2. elapsed' = elapsed /\ pc # "commit" /\ pc' \notin {"lookup", "screen", "commit"}
    BY <1>12 DEF Apply, handlerUnchanged, clientVars, vars
  <2>3. elapsed' <= Answered' * RequestTime
    BY <1>12, <2>1, <2>2, SameTime DEF Apply
  <2> QED
    BY <2>2, <2>3 DEF WithinBudget, PollsInTime
<1>13. CASE ApplyRaises
  BY <1>13 DEF ApplyRaises, Leave, WithinBudget, PollsInTime
<1>14. CASE SaveMapping
  <2>1. Answered' \in Nat /\ (elapsed = 0 \/ Answered <= Answered')
    BY <1>14, AnsweredBounds DEF SaveMapping, Answered, WithinBudget, ChecksHold,
        TypeOK, ClientTypeOK, clientVars
  <2>2. elapsed' = elapsed /\ pc # "commit" /\ pc' \notin {"lookup", "screen", "commit"}
    BY <1>14 DEF SaveMapping, clientVars, vars
  <2>3. elapsed' <= Answered' * RequestTime
    BY <1>14, <2>1, <2>2, SameTime DEF SaveMapping
  <2> QED
    BY <2>2, <2>3 DEF WithinBudget, PollsInTime
<1>15. CASE PublishToRaw
  <2>1. pc = "to_raw" /\ pc' = "commit" /\ Spend(KafkaTime)
    BY <1>15 DEF PublishToRaw, Publish
  <2> QED
    BY <2>1, PublishInBudget DEF WithinBudget, PollsInTime
<1>16. CASE PublishToFailed
  <2>1. pc = "to_failed" /\ pc' = "commit" /\ Spend(KafkaTime)
    BY <1>16 DEF PublishToFailed, Publish
  <2> QED
    BY <2>1, PublishInBudget DEF WithinBudget, PollsInTime
<1>17. CASE Commit
  <2>1. pc' = "poll" /\ elapsed' \in Nat /\ elapsed' <= elapsed + KafkaTime
    BY <1>17, SpendIsNat, AttemptsAssumption DEF Commit, TypeOK
  <2>2. elapsed <= 2 * MaxAttempts * RequestTime + KafkaTime
    BY <1>17 DEF Commit, WithinBudget
  <2>3. elapsed \in Nat /\ 2 * MaxAttempts * RequestTime \in Nat
    BY ClientAssumption, AttemptsAssumption DEF TypeOK
  <2>4. elapsed' <= MaxPollInterval
    BY <2>1, <2>2, <2>3, AttemptsAssumption, TimeAssumption
  <2> QED
    BY <2>1, <2>4 DEF WithinBudget, PollsInTime
<1>18. CASE Crash
  BY <1>18 DEF Crash, Fault, Leave, WithinBudget, PollsInTime
<1>19. CASE RequestFails
  <2>1. pc' = "down"
    BY <1>19 DEF RequestFails, Fault, Leave
  <2> QED
    BY <1>19, <2>1, RequestInBudget DEF RequestFails, WithinBudget, PollsInTime
<1>20. CASE UNCHANGED vars
  BY <1>20 DEF vars, clientVars, Answered, WithinBudget, PollsInTime
<1> QED
  BY <1>1, <1>2, <1>3, <1>4, <1>5, <1>6, <1>7, <1>8, <1>9, <1>10, <1>11, <1>12,
      <1>13, <1>14, <1>15, <1>16, <1>17, <1>18, <1>19, <1>20 DEF Next, Work,
          Generate, PollNothing

--------------------------------------------------------------------------------
\* An answer is handed on only after its checks.
LEMMA ChecksStep ==
    ASSUME TypeOK, ChecksHold, [Next]_vars
    PROVE  ChecksHold'
<1>1. CASE Start
  BY <1>1 DEF Start, ChecksHold, StructureValid, TypeOK, ClientTypeOK, clientVars,
      eventVars
<1>2. CASE Poll
  BY <1>2 DEF Poll, ChecksHold, StructureValid, TypeOK, ClientTypeOK, clientVars,
      eventVars
<1>3. CASE LookupMapping
  BY <1>3 DEF LookupMapping, ChecksHold, StructureValid, TypeOK, ClientTypeOK,
      clientVars, eventVars
<1>4. CASE ScreenBlocked
  BY <1>4 DEF ScreenBlocked, handlerUnchanged, ChecksHold, StructureValid, TypeOK,
      ClientTypeOK, clientVars, eventVars
<1>5. CASE ScreenUnknownSource
  BY <1>5 DEF ScreenUnknownSource, Leave, Abandon, ChecksHold, StructureValid,
      TypeOK, ClientTypeOK, clientVars, eventVars
<1>6. CASE Screen
  BY <1>6 DEF Screen, Begin, handlerUnchanged, Roles, ChecksHold, StructureValid,
      TypeOK, ClientTypeOK, clientVars, eventVars
<1>7. CASE Think
  BY <1>7 DEF Think, Ask, CheckFails, CheckPasses, RejectAnswer, handlerUnchanged,
      Roles, ChecksHold, StructureValid, TypeOK, ClientTypeOK, clientVars, eventVars
<1>8. ASSUME NEW a \in Answers \cup {NoContent}, MappingAnswered(a)
      PROVE  ChecksHold'
  BY <1>8 DEF MappingAnswered, Answer, Spend, handlerUnchanged, Roles, ChecksHold,
      StructureValid, TypeOK, ClientTypeOK, clientVars, eventVars
<1>9. ASSUME NEW v \in Verdicts, ReviewRejected(v)
      PROVE  ChecksHold'
  BY <1>9 DEF ReviewRejected, ReviewRejects, RejectAnswer, Spend, handlerUnchanged,
      ChecksHold, StructureValid, TypeOK, ClientTypeOK, clientVars, eventVars
<1>10. ASSUME NEW v \in Verdicts, ReviewCleared(v)
      PROVE  ChecksHold'
  BY <1>10 DEF ReviewCleared, ReviewClears, ReviewPasses, Spend, handlerUnchanged,
      ChecksHold, StructureValid, TypeOK, ClientTypeOK, clientVars, eventVars
<1>11. CASE NoProposal
  BY <1>11 DEF NoProposal, GiveUp, handlerUnchanged, ChecksHold, StructureValid,
      TypeOK, ClientTypeOK, clientVars, eventVars
<1>12. CASE Apply
  BY <1>12 DEF Apply, handlerUnchanged, ChecksHold, StructureValid, TypeOK,
      ClientTypeOK, clientVars, eventVars
<1>13. CASE ApplyRaises
  BY <1>13 DEF ApplyRaises, Leave, Abandon, ChecksHold, StructureValid, TypeOK,
      ClientTypeOK, clientVars, eventVars
<1>14. CASE SaveMapping
  BY <1>14 DEF SaveMapping, ChecksHold, StructureValid, TypeOK, ClientTypeOK,
      clientVars, eventVars
<1>15. CASE PublishToRaw
  BY <1>15 DEF PublishToRaw, Publish, Spend, ChecksHold, StructureValid, TypeOK,
      ClientTypeOK, clientVars, eventVars
<1>16. CASE PublishToFailed
  BY <1>16 DEF PublishToFailed, Publish, Spend, ChecksHold, StructureValid, TypeOK,
      ClientTypeOK, clientVars, eventVars
<1>17. CASE Commit
  BY <1>17 DEF Commit, Spend, ChecksHold, StructureValid, TypeOK, ClientTypeOK,
      clientVars, eventVars
<1>18. CASE Crash
  BY <1>18 DEF Crash, Fault, Leave, Abandon, ChecksHold, StructureValid, TypeOK,
      ClientTypeOK, clientVars, eventVars
<1>19. CASE RequestFails
  BY <1>19 DEF RequestFails, Fault, Leave, Abandon, Spend, ChecksHold,
      StructureValid, TypeOK, ClientTypeOK, clientVars, eventVars
<1>20. CASE UNCHANGED vars
  BY <1>20 DEF vars, ChecksHold, StructureValid, TypeOK, ClientTypeOK, clientVars,
      eventVars
<1> QED
  BY <1>1, <1>2, <1>3, <1>4, <1>5, <1>6, <1>7, <1>8, <1>9, <1>10, <1>11, <1>12,
      <1>13, <1>14, <1>15, <1>16, <1>17, <1>18, <1>19, <1>20 DEF Next, Work,
          Generate, PollNothing

\* The branch taken is that of the mapping on disk.
LEMMA BranchStep ==
    ASSUME TypeOK, ChecksHold, BranchFollowsDisk, [Next]_vars
    PROVE  BranchFollowsDisk'
<1>1. CASE Start
  BY <1>1 DEF Start, BranchFollowsDisk, TypeOK, clientVars, eventVars
<1>2. CASE Poll
  BY <1>2 DEF Poll, BranchFollowsDisk, TypeOK, clientVars, eventVars
<1>3. CASE LookupMapping
  BY <1>3 DEF LookupMapping, BranchFollowsDisk, TypeOK, clientVars, eventVars
<1>4. CASE ScreenBlocked
  BY <1>4 DEF ScreenBlocked, handlerUnchanged, BranchFollowsDisk, TypeOK, clientVars,
      eventVars
<1>5. CASE ScreenUnknownSource
  BY <1>5 DEF ScreenUnknownSource, Leave, Abandon, BranchFollowsDisk, TypeOK,
      clientVars, eventVars
<1>6. CASE Screen
  BY <1>6 DEF Screen, Begin, handlerUnchanged, Roles, BranchFollowsDisk, TypeOK,
      clientVars, eventVars
<1>7. CASE Think
  BY <1>7 DEF Think, Ask, CheckFails, CheckPasses, RejectAnswer, handlerUnchanged,
      Roles, BranchFollowsDisk, TypeOK, clientVars, eventVars
<1>8. ASSUME NEW a \in Answers \cup {NoContent}, MappingAnswered(a)
      PROVE  BranchFollowsDisk'
  BY <1>8 DEF MappingAnswered, Answer, Spend, handlerUnchanged, Roles,
      BranchFollowsDisk, TypeOK, clientVars, eventVars
<1>9. ASSUME NEW v \in Verdicts, ReviewRejected(v)
      PROVE  BranchFollowsDisk'
  BY <1>9 DEF ReviewRejected, ReviewRejects, RejectAnswer, Spend, handlerUnchanged,
      BranchFollowsDisk, TypeOK, clientVars, eventVars
<1>10. ASSUME NEW v \in Verdicts, ReviewCleared(v)
      PROVE  BranchFollowsDisk'
  BY <1>10 DEF ReviewCleared, ReviewClears, ReviewPasses, Spend, handlerUnchanged,
      BranchFollowsDisk, TypeOK, clientVars, eventVars
<1>11. CASE NoProposal
  BY <1>11 DEF NoProposal, GiveUp, handlerUnchanged, BranchFollowsDisk, TypeOK,
      clientVars, eventVars
<1>12. CASE Apply
  BY <1>12 DEF Apply, handlerUnchanged, BranchFollowsDisk, TypeOK, clientVars, eventVars
<1>13. CASE ApplyRaises
  BY <1>13 DEF ApplyRaises, Leave, Abandon, BranchFollowsDisk, TypeOK, clientVars,
      eventVars
<1>14. CASE SaveMapping
  BY <1>14, ContentIsProposal DEF SaveMapping, BranchFollowsDisk
<1>15. CASE PublishToRaw
  BY <1>15 DEF PublishToRaw, Publish, Spend, BranchFollowsDisk, TypeOK, clientVars,
      eventVars
<1>16. CASE PublishToFailed
  BY <1>16 DEF PublishToFailed, Publish, Spend, BranchFollowsDisk, TypeOK,
      clientVars, eventVars
<1>17. CASE Commit
  BY <1>17 DEF Commit, Spend, BranchFollowsDisk, TypeOK, clientVars, eventVars
<1>18. CASE Crash
  BY <1>18 DEF Crash, Fault, Leave, Abandon, BranchFollowsDisk, TypeOK, clientVars,
      eventVars
<1>19. CASE RequestFails
  BY <1>19 DEF RequestFails, Fault, Leave, Abandon, Spend, BranchFollowsDisk, TypeOK,
      clientVars, eventVars
<1>20. CASE UNCHANGED vars
  BY <1>20 DEF vars, BranchFollowsDisk, TypeOK, clientVars, eventVars
<1> QED
  BY <1>1, <1>2, <1>3, <1>4, <1>5, <1>6, <1>7, <1>8, <1>9, <1>10, <1>11, <1>12,
      <1>13, <1>14, <1>15, <1>16, <1>17, <1>18, <1>19, <1>20 DEF Next, Work,
          Generate, PollNothing

\* Only a reviewed answer gets to disk, and reviews are not forgotten.
LEMMA ReviewedStep ==
    ASSUME ChecksHold, SavedWasReviewed, [Next]_vars
    PROVE  SavedWasReviewed'
<1>1. CASE Start
  BY <1>1 DEF Start, SavedWasReviewed, ChecksHold, clientVars, eventVars
<1>2. CASE Poll
  BY <1>2 DEF Poll, SavedWasReviewed, ChecksHold, clientVars, eventVars
<1>3. CASE LookupMapping
  BY <1>3 DEF LookupMapping, SavedWasReviewed, ChecksHold, clientVars, eventVars
<1>4. CASE ScreenBlocked
  BY <1>4 DEF ScreenBlocked, handlerUnchanged, SavedWasReviewed, ChecksHold,
      clientVars, eventVars
<1>5. CASE ScreenUnknownSource
  BY <1>5 DEF ScreenUnknownSource, Leave, Abandon, SavedWasReviewed, ChecksHold,
      clientVars, eventVars
<1>6. CASE Screen
  BY <1>6 DEF Screen, Begin, handlerUnchanged, Roles, SavedWasReviewed, ChecksHold,
      clientVars, eventVars
<1>7. CASE Think
  BY <1>7 DEF Think, Ask, CheckFails, CheckPasses, RejectAnswer, handlerUnchanged,
      Roles, SavedWasReviewed, ChecksHold, clientVars, eventVars
<1>8. ASSUME NEW a \in Answers \cup {NoContent}, MappingAnswered(a)
      PROVE  SavedWasReviewed'
  BY <1>8 DEF MappingAnswered, Answer, Spend, handlerUnchanged, Roles,
      SavedWasReviewed, ChecksHold, clientVars, eventVars
<1>9. ASSUME NEW v \in Verdicts, ReviewRejected(v)
      PROVE  SavedWasReviewed'
  BY <1>9 DEF ReviewRejected, ReviewRejects, RejectAnswer, Spend, handlerUnchanged,
      SavedWasReviewed, ChecksHold, clientVars, eventVars
<1>10. ASSUME NEW v \in Verdicts, ReviewCleared(v)
      PROVE  SavedWasReviewed'
  BY <1>10 DEF ReviewCleared, ReviewClears, ReviewPasses, Spend, handlerUnchanged,
      SavedWasReviewed, ChecksHold, clientVars, eventVars
<1>11. CASE NoProposal
  BY <1>11 DEF NoProposal, GiveUp, handlerUnchanged, SavedWasReviewed, ChecksHold,
      clientVars, eventVars
<1>12. CASE Apply
  BY <1>12 DEF Apply, handlerUnchanged, SavedWasReviewed, ChecksHold, clientVars,
      eventVars
<1>13. CASE ApplyRaises
  BY <1>13 DEF ApplyRaises, Leave, Abandon, SavedWasReviewed, ChecksHold, clientVars,
      eventVars
<1>14. CASE SaveMapping
  BY <1>14 DEF SaveMapping, SavedWasReviewed, ChecksHold, clientVars, eventVars
<1>15. CASE PublishToRaw
  BY <1>15 DEF PublishToRaw, Publish, Spend, SavedWasReviewed, ChecksHold,
      clientVars, eventVars
<1>16. CASE PublishToFailed
  BY <1>16 DEF PublishToFailed, Publish, Spend, SavedWasReviewed, ChecksHold,
      clientVars, eventVars
<1>17. CASE Commit
  BY <1>17 DEF Commit, Spend, SavedWasReviewed, ChecksHold, clientVars, eventVars
<1>18. CASE Crash
  BY <1>18 DEF Crash, Fault, Leave, Abandon, SavedWasReviewed, ChecksHold,
      clientVars, eventVars
<1>19. CASE RequestFails
  BY <1>19 DEF RequestFails, Fault, Leave, Abandon, Spend, SavedWasReviewed,
      ChecksHold, clientVars, eventVars
<1>20. CASE UNCHANGED vars
  BY <1>20 DEF vars, SavedWasReviewed, ChecksHold, clientVars, eventVars
<1> QED
  BY <1>1, <1>2, <1>3, <1>4, <1>5, <1>6, <1>7, <1>8, <1>9, <1>10, <1>11, <1>12,
      <1>13, <1>14, <1>15, <1>16, <1>17, <1>18, <1>19, <1>20 DEF Next, Work,
          Generate, PollNothing

--------------------------------------------------------------------------------
\* The corrections said so far can be counted.
LEMMA CorrectionsFinite ==
    ASSUME TypeOK
    PROVE  /\ IsFiniteSet(Corrections)
           /\ Cardinality(Corrections) \in Nat
           /\ Len(messages) \in Nat
           /\ DOMAIN messages = 1..Len(messages)
           /\ Corrections \subseteq 1..Len(messages)
<1>1. Len(messages) \in Nat /\ DOMAIN messages = 1..Len(messages)
  BY DEF TypeOK, ClientTypeOK
<1>2. IsFiniteSet(1..Len(messages))
  BY <1>1, FS_Interval
<1>3. Corrections \in SUBSET (1..Len(messages))
  BY <1>1 DEF Corrections
<1>4. IsFiniteSet(Corrections)
  BY <1>2, <1>3, FS_Subset
<1> QED
  BY <1>1, <1>3, <1>4, FS_CardinalityType

\* One more message: what was said stays, and the message is the last one.
LEMMA OneMoreMessage ==
    ASSUME TypeOK, NEW m \in Messages, messages' = Append(messages, m)
    PROVE  /\ messages' \in Seq(Messages)
           /\ messages' # <<>>
           /\ Len(messages') = Len(messages) + 1
           /\ DOMAIN messages' = 1..(Len(messages) + 1)
           /\ messages'[Len(messages) + 1] = m
           /\ \A i \in 1..Len(messages) : messages'[i] = messages[i]
  BY DEF TypeOK, ClientTypeOK

\* The correction an attempt begins with is one more, and the last message.
LEMMA CorrectionSaid ==
    ASSUME TypeOK, messages' = Append(messages, Message("correction", content))
    PROVE  /\ Corrections' = Corrections \cup {Len(messages) + 1}
           /\ Cardinality(Corrections') = Cardinality(Corrections) + 1
<1> DEFINE m == Message("correction", content)
<1>1. m \in Messages /\ m.role = "correction"
  BY MessageType DEF Roles, TypeOK, ClientTypeOK
<1>2. /\ DOMAIN messages' = 1..(Len(messages) + 1)
      /\ messages'[Len(messages) + 1].role = "correction"
      /\ \A i \in 1..Len(messages) : messages'[i] = messages[i]
  BY <1>1, OneMoreMessage
<1>3. Corrections' = Corrections \cup {Len(messages) + 1}
  BY <1>2, CorrectionsFinite DEF Corrections
<1>4. Len(messages) + 1 \notin Corrections
  BY CorrectionsFinite
<1> QED
  BY <1>3, <1>4, CorrectionsFinite, FS_AddElement

\* An answer adds no correction.
LEMMA AnswerSaid ==
    ASSUME TypeOK, NEW a \in Answers, messages' = Append(messages, Message("answer", a))
    PROVE  /\ Corrections' = Corrections
           /\ messages' # <<>>
           /\ Len(messages') = Len(messages) + 1
           /\ DOMAIN messages' = 1..(Len(messages) + 1)
           /\ messages'[Len(messages) + 1].role = "answer"
           /\ messages'[Len(messages) + 1].text = a
           /\ \A i \in 1..Len(messages) : messages'[i] = messages[i]
<1> DEFINE m == Message("answer", a)
<1>1. m \in Messages /\ m.role = "answer" /\ m.text = a
  BY MessageType DEF Roles
<1>2. /\ messages' # <<>>
      /\ Len(messages') = Len(messages) + 1
      /\ DOMAIN messages' = 1..(Len(messages) + 1)
      /\ messages'[Len(messages) + 1].role = "answer"
      /\ messages'[Len(messages) + 1].text = a
      /\ \A i \in 1..Len(messages) : messages'[i] = messages[i]
  BY <1>1, OneMoreMessage
<1>3. Corrections' = Corrections
  BY <1>2, CorrectionsFinite DEF Corrections
<1> QED
  BY <1>2, <1>3

\* When every answer is corrected, the last message is not an answer.
LEMMA LastIsNoAnswer ==
    ASSUME TypeOK, messages # <<>>,
           \A i \in DOMAIN messages : messages[i].role = "answer" => Corrected(i)
    PROVE  messages[Len(messages)].role # "answer"
<1>1. Len(messages) \in DOMAIN messages
  BY DEF TypeOK, ClientTypeOK
<1>2. Len(messages) + 1 \notin Corrections
  BY CorrectionsFinite
<1> QED
  BY <1>1, <1>2 DEF Corrected

\* What has been said of an answer goes on being said.
LEMMA CorrectedStays ==
    ASSUME messages' = messages, NEW i, Corrected(i)
    PROVE  Corrected(i)'
  BY DEF Corrected, Corrections

\* A step that leaves the call alone leaves the conversation alone.
LEMMA SameConversation ==
    ASSUME ConversationInv, step' = step, attempt' = attempt, rejected' = rejected,
           messages' = messages, content' = content
    PROVE  ConversationInv'
  BY DEF ConversationInv, EveryRejectionIsTold, LastIsContent, Corrected, Corrections, Opening,
         Message

\* A call that ends, ends its conversation.
LEMMA NoConversation ==
    ASSUME step' = "idle"
    PROVE  ConversationInv'
  BY DEF ConversationInv, EveryRejectionIsTold

\* An attempt that asks has said every correction before.
LEMMA AskTells ==
    ASSUME TypeOK, ConversationInv, Ask
    PROVE  ConversationInv'
<1>1. /\ step = "ask" /\ step' = "asked" /\ attempt' = attempt + 1 /\ attempt \in Nat
      /\ content' = content
  BY ClientAssumption DEF Ask, TypeOK, ClientTypeOK
<1>2. CASE rejected
  <2>1. /\ messages' = Append(messages, Message("correction", content))
        /\ Message("correction", content) \in Messages
        /\ Message("correction", content).role = "correction"
        /\ Message("correction", content).text = content
    BY <1>2, MessageType DEF Ask, Roles, TypeOK, ClientTypeOK
  <2>2. /\ Len(messages') = Len(messages) + 1
        /\ DOMAIN messages' = 1..(Len(messages) + 1)
        /\ messages'[Len(messages) + 1].role = "correction"
        /\ messages'[Len(messages) + 1].text = content
        /\ \A i \in 1..Len(messages) : messages'[i] = messages[i]
    BY <2>1, OneMoreMessage
  <2>3. Cardinality(Corrections') = attempt' - 1
    BY <1>1, <1>2, <2>1, CorrectionSaid, CorrectionsFinite DEF ConversationInv
  <2>4. Corrections' = Corrections \cup {Len(messages) + 1}
    BY <2>1, CorrectionSaid
  <2>5. ASSUME NEW i \in DOMAIN messages', messages'[i].role = "answer"
        PROVE  Corrected(i)'
    <3>1. i \in 1..Len(messages) /\ messages[i].role = "answer" /\ i \in DOMAIN messages
      BY <2>2, <2>5, CorrectionsFinite
    <3>2. CASE i < Len(messages)
      <4>1. i + 1 \in Corrections /\ messages[i + 1].text = messages[i].text
        BY <1>1, <3>1, <3>2 DEF ConversationInv, Corrected
      <4>2. i + 1 \in 1..Len(messages)
        BY <4>1, CorrectionsFinite
      <4> QED
        BY <2>2, <2>4, <3>1, <4>1, <4>2 DEF Corrected
    <3>3. CASE i = Len(messages)
      <4>1. messages # <<>>
        BY <3>1
      <4>2. messages[i].text = content
        BY <1>1, <3>1, <3>3, <4>1 DEF ConversationInv, LastIsContent
      <4> QED
        BY <2>2, <2>4, <3>1, <3>3, <4>2 DEF Corrected
    <3> QED
      BY <3>1, <3>2, <3>3, CorrectionsFinite
  <2>6. LastIsContent'
    BY <2>2 DEF LastIsContent
  <2>7. Len(messages') \in Corrections'
    BY <2>2, <2>4
  <2> QED
    BY <1>1, <2>3, <2>5, <2>6, <2>7 DEF ConversationInv, EveryRejectionIsTold
<1>3. CASE ~ rejected
  <2>1. attempt = 0 /\ messages = Opening /\ messages' = messages
    BY <1>1, <1>3 DEF Ask, ConversationInv, TypeOK, ClientTypeOK
  <2>2. /\ DOMAIN messages' = 1..2 /\ Len(messages') = 2
        /\ \A i \in 1..2 : messages'[i].role \in {"system", "request"}
    BY <2>1, OpeningType
  <2>3. Corrections' = {}
    BY <2>2 DEF Corrections
  <2>4. Cardinality(Corrections') = attempt' - 1
    BY <1>1, <2>1, <2>3, FS_EmptySet
  <2>5. LastIsContent' /\ \A i \in DOMAIN messages' : messages'[i].role # "answer"
    BY <2>2 DEF LastIsContent
  <2> QED
    BY <1>1, <2>1, <2>4, <2>5 DEF ConversationInv, EveryRejectionIsTold
<1> QED
  BY <1>2, <1>3

\* An answer is the last message, and waits for its correction.
LEMMA AnswerKeepsConversation ==
    ASSUME TypeOK, ConversationInv, NEW a \in Answers \cup {NoContent}, Answer(a)
    PROVE  ConversationInv'
<1>1. step = "asked" /\ step' = "check" /\ attempt' = attempt /\ content' = a
  BY DEF Answer
<1>2. /\ Cardinality(Corrections) = attempt - 1
      /\ \A i \in DOMAIN messages : messages[i].role = "answer" => Corrected(i)
  BY <1>1 DEF ConversationInv, EveryRejectionIsTold
<1>3. CASE a = NoContent
  <2>1. messages' = messages
    BY <1>3 DEF Answer
  <2>2. Corrections' = Corrections
    BY <2>1 DEF Corrections
  <2>3. LastIsContent'
    BY <1>2, <2>1, LastIsNoAnswer DEF LastIsContent
  <2>4. \A i \in DOMAIN messages' : messages'[i].role = "answer" => Corrected(i)'
    BY <1>2, <2>1, CorrectedStays
  <2> QED
    BY <1>1, <1>2, <1>3, <2>2, <2>3, <2>4 DEF ConversationInv, EveryRejectionIsTold
<1>4. CASE a # NoContent
  <2>1. messages' = Append(messages, Message("answer", a)) /\ a \in Answers
    BY <1>4 DEF Answer
  <2>2. /\ Corrections' = Corrections
        /\ messages' # <<>>
        /\ Len(messages') = Len(messages) + 1
        /\ DOMAIN messages' = 1..(Len(messages) + 1)
        /\ messages'[Len(messages) + 1].role = "answer"
        /\ messages'[Len(messages) + 1].text = a
        /\ \A i \in 1..Len(messages) : messages'[i] = messages[i]
    BY <2>1, AnswerSaid
  <2>3. ASSUME NEW i \in DOMAIN messages', messages'[i].role = "answer", i < Len(messages')
        PROVE  Corrected(i)'
    <3>1. i \in 1..Len(messages) /\ messages[i].role = "answer" /\ i \in DOMAIN messages
      BY <2>2, <2>3, CorrectionsFinite
    <3>2. i + 1 \in Corrections /\ messages[i + 1].text = messages[i].text
      BY <1>2, <3>1 DEF Corrected
    <3>3. i + 1 \in 1..Len(messages)
      BY <3>2, CorrectionsFinite
    <3> QED
      BY <2>2, <3>1, <3>2, <3>3 DEF Corrected
  <2>4. LastIsContent' /\ messages'[Len(messages')].role = "answer"
    BY <1>1, <2>2 DEF LastIsContent
  <2> QED
    BY <1>1, <1>2, <2>2, <2>3, <2>4 DEF ConversationInv, EveryRejectionIsTold
<1> QED
  BY <1>3, <1>4

\* A rejection is still to be told when the next attempt starts.
LEMMA RejectionNoted ==
    ASSUME TypeOK, ChecksHold, ConversationInv, step \in {"check", "reviewing"},
           RejectAnswer
    PROVE  ConversationInv'
<1>1. /\ step' = "ask" /\ rejected' = TRUE /\ attempt' = attempt /\ messages' = messages
      /\ content' = content
  BY DEF RejectAnswer
<1>2. attempt \in Nat /\ attempt > 0
  BY ClientAssumption DEF ChecksHold, TypeOK, ClientTypeOK
<1>3. /\ Cardinality(Corrections) = attempt - 1
      /\ \A i \in DOMAIN messages :
             messages[i].role = "answer" /\ i < Len(messages) => Corrected(i)
      /\ LastIsContent
  BY DEF ConversationInv
<1>4. Corrections' = Corrections /\ LastIsContent'
  BY <1>1, <1>3 DEF Corrections, LastIsContent
<1>5. \A i \in DOMAIN messages' :
          messages'[i].role = "answer" /\ i < Len(messages') => Corrected(i)'
  BY <1>1, <1>3, CorrectedStays
<1> QED
  BY <1>1, <1>2, <1>3, <1>4, <1>5 DEF ConversationInv, EveryRejectionIsTold

\* What the client does between its requests.
LEMMA ThinkTells ==
    ASSUME TypeOK, ChecksHold, ConversationInv, Think
    PROVE  ConversationInv'
<1>1. CASE Ask
  BY <1>1, AskTells
<1>2. CASE CheckFails
  BY <1>2, RejectionNoted DEF CheckFails
<1>3. CASE CheckPasses
  <2>1. /\ step = "check" /\ step' = "reviewing"
        /\ attempt' = attempt /\ messages' = messages /\ content' = content
    BY <1>3 DEF CheckPasses
  <2>2. Corrections' = Corrections /\ (LastIsContent => LastIsContent')
    BY <2>1 DEF Corrections, LastIsContent
  <2>3. \A i \in DOMAIN messages' : Corrected(i) => Corrected(i)'
    BY <2>1, CorrectedStays
  <2> QED
    BY <2>1, <2>2, <2>3 DEF ConversationInv, EveryRejectionIsTold
<1> QED
  BY <1>1, <1>2, <1>3 DEF Think

\* Every step keeps the conversation.
LEMMA ConversationStep ==
    ASSUME TypeOK, ChecksHold, ConversationInv, [Next]_vars
    PROVE  ConversationInv'
<1>1. CASE Start \/ Poll \/ LookupMapping \/ SaveMapping \/ UNCHANGED vars
  BY <1>1, SameConversation
     DEF Start, Poll, LookupMapping, SaveMapping, vars, clientVars
<1>2. CASE ScreenBlocked \/ Apply
  BY <1>2, SameConversation DEF ScreenBlocked, Apply, clientVars
<1>3. CASE PublishToRaw \/ PublishToFailed \/ Commit
  BY <1>3, SameConversation DEF PublishToRaw, PublishToFailed, Publish, Commit, clientVars
<1>4. CASE ScreenUnknownSource \/ ApplyRaises \/ Crash \/ RequestFails
  BY <1>4, NoConversation
     DEF ScreenUnknownSource, ApplyRaises, Crash, RequestFails, Fault, Leave, Abandon
<1>5. CASE Screen
  <2>1. step' = "ask" /\ attempt' = 0 /\ rejected' = FALSE /\ messages' = Opening
    BY <1>5 DEF Screen, Begin
  <2>2. /\ Len(messages') = 2
        /\ \A i \in DOMAIN messages' : messages'[i].role # "answer"
        /\ messages'[2].role # "answer"
    BY <2>1, OpeningType
  <2>3. LastIsContent'
    BY <2>2 DEF LastIsContent
  <2>4. Opening' = Opening
    BY DEF Opening, Message
  <2> QED
    BY <2>1, <2>2, <2>3, <2>4 DEF ConversationInv, EveryRejectionIsTold
<1>6. CASE Think
  BY <1>6, ThinkTells
<1>7. ASSUME NEW a \in Answers \cup {NoContent}, MappingAnswered(a)
      PROVE  ConversationInv'
  BY <1>7, AnswerKeepsConversation DEF MappingAnswered
<1>8. ASSUME NEW v \in Verdicts, ReviewRejected(v)
      PROVE  ConversationInv'
  BY <1>8, RejectionNoted DEF ReviewRejected, ReviewRejects
<1>9. ASSUME NEW v \in Verdicts, ReviewCleared(v)
      PROVE  ConversationInv'
  BY <1>9, NoConversation DEF ReviewCleared, ReviewClears
<1>10. CASE NoProposal
  BY <1>10, NoConversation DEF NoProposal, GiveUp
<1> QED
  BY <1>1, <1>2, <1>3, <1>4, <1>5, <1>6, <1>7, <1>8, <1>9, <1>10
     DEF Next, Work, Generate, PollNothing

--------------------------------------------------------------------------------
\* The inductive invariant holds in every behaviour of the handler.
THEOREM AttemptsAreInvariant == Spec => []AttemptsInv
<1>1. Init => AttemptsInv
  BY InitInv
<1>2. AttemptsInv /\ [Next]_vars => AttemptsInv'
  BY TypeStep, BudgetStep, ChecksStep, BranchStep, ReviewedStep, ConversationStep
     DEF AttemptsInv
<1> QED
  BY <1>1, <1>2, PTL DEF Spec

\* The handler polls again within max.poll.interval, for every number of
\* attempts and every limit that TimeAssumption allows.
THEOREM PollInTime == Spec => []PollsInTime
<1>1. AttemptsInv => PollsInTime
  BY DEF AttemptsInv, WithinBudget
<1> QED
  BY <1>1, AttemptsAreInvariant, PTL

\* No mapping gets to disk that the review did not let pass.
THEOREM OnlyReviewedIsSaved == Spec => []SavedWasReviewed
<1>1. AttemptsInv => SavedWasReviewed
  BY DEF AttemptsInv
<1> QED
  BY <1>1, AttemptsAreInvariant, PTL

\* Nothing is sent for a blocked payload, the review is sent no blocked answer, and
\* the mapping model none that the conversation does not reject.
THEOREM RequestsScreened == Spec => []RequestsAreScreened
<1>1. ASSUME AttemptsInv PROVE RequestsAreScreened
  <2>1. step \in {"asked", "reviewing"} => ~ blocked
    BY <1>1 DEF AttemptsInv, ChecksHold
  <2>2. ASSUME step = "reviewing"
        PROVE  content \notin BlockedAnswers /\ messages[Len(messages)] = Message("answer", content)
    <3>1. content \notin BlockedAnswers /\ content # NoContent
      BY <1>1, <2>2, ContentIsProposal, ClientAssumption DEF AttemptsInv, ChecksHold
    <3>2. /\ messages # <<>>
          /\ messages[Len(messages)].role = "answer"
          /\ messages[Len(messages)].text = content
      BY <1>1, <2>2, <3>1 DEF AttemptsInv, ConversationInv, LastIsContent
    <3>3. messages[Len(messages)] \in Messages
      BY <1>1, <3>2 DEF AttemptsInv, TypeOK, ClientTypeOK
    <3> QED
      BY <3>1, <3>2, <3>3 DEF Message, Messages
  <2>3. step = "asked" => \A i \in DOMAIN messages : messages[i].role = "answer" => Corrected(i)
    BY <1>1 DEF AttemptsInv, ConversationInv, EveryRejectionIsTold
  <2> QED
    BY <2>1, <2>2, <2>3 DEF RequestsAreScreened
<1> QED
  BY <1>1, AttemptsAreInvariant, PTL

\* A record of an unknown source, whose payload is not blocked, is never published
\* or committed, however often it is delivered.
THEOREM UnknownSourcesStay == Spec => []UnknownSourceStays
<1>1. Init => UnknownSourceStays
  BY DEF Init, UnknownSourceStays
<1>2. AttemptsInv /\ UnknownSourceStays /\ [Next]_vars => UnknownSourceStays'
  <2> SUFFICES ASSUME AttemptsInv, UnknownSourceStays, [Next]_vars, ~ configured', ~ blocked'
               PROVE  UnknownSourceStays'
    BY DEF UnknownSourceStays
  <2>1. ~ configured /\ ~ blocked
    BY DEF Next, Work, Generate, Start, Poll, PollNothing, LookupMapping, ScreenBlocked,
           ScreenUnknownSource, Screen, Think, MappingAnswered, ReviewRejected,
           ReviewCleared, NoProposal, Apply, ApplyRaises, SaveMapping, PublishToRaw,
           PublishToFailed, Publish, Commit, Crash, RequestFails, Fault, Leave,
           handlerUnchanged, eventVars, vars
  <2>2. /\ pc \in {"down", "poll", "lookup", "screen"}
        /\ disk = Null /\ published = {} /\ ~ committed
    BY <2>1 DEF UnknownSourceStays
  <2>3. CASE Start \/ Poll \/ LookupMapping \/ Crash \/ UNCHANGED vars
    BY <2>2, <2>3 DEF Start, Poll, LookupMapping, Crash, Fault, Leave, vars, UnknownSourceStays
  <2>4. CASE ScreenUnknownSource
    BY <2>2, <2>4 DEF ScreenUnknownSource, Leave, UnknownSourceStays
  <2> QED
    BY <2>1, <2>2, <2>3, <2>4
       DEF Next, Work, Generate, PollNothing, ScreenBlocked, Screen, Think,
           MappingAnswered, ReviewRejected, ReviewCleared, NoProposal, Apply, ApplyRaises,
           SaveMapping, PublishToRaw, PublishToFailed, Publish, Commit, RequestFails
<1> QED
  BY <1>1, <1>2, AttemptsAreInvariant, PTL DEF Spec

\* The variables keep their types.
THEOREM AttemptsTypes == Spec => []TypeOK
<1>1. AttemptsInv => TypeOK
  BY DEF AttemptsInv
<1> QED
  BY <1>1, AttemptsAreInvariant, PTL

\* Whenever the mapping model is asked again, every answer it gave before has been
\* followed by a correction that speaks of it.
THEOREM RejectionsAreTold == Spec => []EveryRejectionIsTold
<1>1. AttemptsInv => EveryRejectionIsTold
  BY DEF AttemptsInv, ConversationInv
<1> QED
  BY <1>1, AttemptsAreInvariant, PTL

--------------------------------------------------------------------------------
\* What a saved mapping is: one DriftContract accepts.
LEMMA SavedIsAcceptable ==
    ASSUME ChecksHold, pc = "save"
    PROVE  content \in {m \in Proposals \ BlockedAnswers :
               /\ TargetsOf[m] \cap (Protected \cup StaticTargets) = {}
               /\ PathsOf[m] \ {"source"} \subseteq PayloadPaths
               /\ Result[m] = "ok"}
<1>1. StructureValid(content) /\ content \notin BlockedAnswers /\ Result[content] = "ok"
  BY DEF ChecksHold
<1> QED
  BY <1>1 DEF StructureValid

\* The handler implements DriftContract: whatever the AI answers, each step on
\* the mapping, the topics or the offset is one the pipeline relies on.
THEOREM KeepsContract == Spec => ContractSpec
<1>1. Init => Contract!Init
  BY DEF Init, Contract!Init
<1>2. AttemptsInv /\ [Next]_vars => [Contract!Next]_(Contract!vars)
  <2> SUFFICES ASSUME AttemptsInv, [Next]_vars PROVE [Contract!Next]_(Contract!vars)
    OBVIOUS
  <2>1. CASE SaveMapping
    <3>1. disk = Null /\ ~ committed /\ ~ blocked
      BY <2>1 DEF SaveMapping, AttemptsInv, BranchFollowsDisk, ChecksHold
    <3> QED
      BY <2>1, <3>1, SavedIsAcceptable
         DEF AttemptsInv, SaveMapping, eventVars, Contract!Next, Contract!SaveMapping
  <2>2. CASE PublishToRaw
    BY <2>2 DEF PublishToRaw, Publish, AttemptsInv, BranchFollowsDisk, eventVars,
                Contract!Next, Contract!SendBack
  <2>3. CASE PublishToFailed
    BY <2>3 DEF PublishToFailed, Publish, AttemptsInv, BranchFollowsDisk, eventVars,
                Contract!Next, Contract!Fail
  <2>4. CASE Commit
    BY <2>4 DEF Commit, AttemptsInv, BranchFollowsDisk, eventVars,
                Contract!Next, Contract!Commit
  <2>5. CASE Start \/ Poll \/ LookupMapping \/ Crash \/ RequestFails \/ UNCHANGED vars
    BY <2>5 DEF Start, Poll, LookupMapping, Crash, RequestFails, Fault, Leave, vars,
                eventVars, Contract!vars
  <2>6. CASE Generate
    BY <2>6 DEF Generate, ScreenBlocked, ScreenUnknownSource, Screen, Think,
                MappingAnswered, ReviewRejected, ReviewCleared, NoProposal, Apply,
                ApplyRaises, Leave, handlerUnchanged, eventVars, Contract!vars
  <2> QED
    BY <2>1, <2>2, <2>3, <2>4, <2>5, <2>6 DEF Next, Work, PollNothing
<1> QED
  BY <1>1, <1>2, AttemptsAreInvariant, PTL DEF Spec, ContractSpec, Contract!Spec

================================================================================
