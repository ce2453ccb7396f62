-------------------------- MODULE SharedProducerProofs -------------------------
(***************************************************************************)
(* Theorems about SharedProducer: the inductive invariant of messages and  *)
(* their reports, that a 503 has a cause of its own, and that publish_event*)
(* keeps the promise of PublishContract, for any number of requests.       *)
(***************************************************************************)
EXTENDS SharedProducer, TLAPS

\* Nothing is published, and nothing is promised.
LEMMA InitInv == Init => ProducerInv
  BY ProducerAssumption DEF Init, ProducerInv, TypeOK, MessageTracked, DeliveredIsKept,
     RefusedForOwnFailure, Answers, Results

\* flush returns to a thread whose own report has been served.
LEMMA FlushOwnReport ==
  ASSUME ProducerInv, NEW r \in Requests, Flush(r)
  PROVE  /\ report[r] \in Results
         /\ report[r] = "failed" => Outcome(r) = "refused"
         /\ report[r] = "delivered" => Outcome(r) = "accepted"
<1>1. message[r] = "none"
  BY DEF Flush, Pending
<1>2. report[r] \in Results
  BY <1>1 DEF Flush, ProducerInv, TypeOK, MessageTracked
<1>3. QED
  BY <1>2 DEF Flush, Outcome, Results

\* The steps of the threads.
LEMMA ThreadInv ==
  ASSUME ProducerInv, NEW t \in Requests, Produce(t) \/ ProduceFull(t) \/ Thread(t)
  PROVE  ProducerInv'
<1> USE DEF ProducerInv, TypeOK, Answers, Results
<1>1. CASE Produce(t)
  BY <1>1 DEF Produce, MessageTracked, DeliveredIsKept, RefusedForOwnFailure
<1>2. CASE ProduceFull(t)
  BY <1>2 DEF ProduceFull, MessageTracked, DeliveredIsKept, RefusedForOwnFailure
<1>3. CASE Flush(t)
  <2>1. TypeOK'
    <3>1. Outcome(t) \in {"accepted", "refused"} /\ UNCHANGED <<message, report>>
      BY <1>3 DEF Flush, Outcome
    <3>2. QED
      BY <1>3, <3>1 DEF Flush
  <2>2. RefusedForOwnFailure'
    BY <1>3, FlushOwnReport DEF Flush, RefusedForOwnFailure
  <2>3. ASSUME NEW r \in Requests
        PROVE  /\ MessageTracked(r)'
               /\ DeliveredIsKept(r)'
               /\ (call[r] = "accepted" => report[r] = "delivered")'
    BY <1>3, FlushOwnReport DEF Flush, MessageTracked, DeliveredIsKept, Pending
  <2>4. QED BY <2>1, <2>2, <2>3
<1>4. ASSUME NEW r \in Requests, Serve(t, r)
      PROVE  ProducerInv'
  BY <1>4 DEF Serve, MessageTracked, DeliveredIsKept, RefusedForOwnFailure
<1>5. QED
  BY <1>1, <1>2, <1>3, <1>4 DEF Thread

\* The steps of the producer's thread and the network.
LEMMA NetworkInv ==
  ASSUME ProducerInv,
         NEW r \in Requests, Transmit(r) \/ Arrive(r) \/ Acknowledge(r) \/ Expire(r)
  PROVE  ProducerInv'
<1> USE ProducerAssumption
    DEF ProducerInv, TypeOK, Answers, Results, MessageTracked, DeliveredIsKept,
        RefusedForOwnFailure
<1>1. CASE Transmit(r)
  BY <1>1 DEF Transmit
<1>2. CASE Arrive(r)
  BY <1>2 DEF Arrive
<1>3. CASE Acknowledge(r)
  BY <1>3 DEF Acknowledge, Settle
<1>4. CASE Expire(r)
  BY <1>4 DEF Expire, Settle
<1>5. QED
  BY <1>1, <1>2, <1>3, <1>4

\* The end of the process.
LEMMA CrashInv == ProducerInv /\ Crash => ProducerInv'
  BY ProducerAssumption DEF ProducerInv, TypeOK, Answers, Results, MessageTracked,
     DeliveredIsKept, RefusedForOwnFailure, Crash

\* ProducerInv is inductive: messages are tracked from produce to the report, and
\* "delivered" is said only of events in the topic.
THEOREM ProducerIsInvariant == Spec => []ProducerInv
<1>1. ProducerInv /\ [Next]_vars => ProducerInv'
  <2> SUFFICES ASSUME ProducerInv, [Next]_vars PROVE ProducerInv'
    OBVIOUS
  <2>1. CASE UNCHANGED vars
    BY <2>1 DEF vars, ProducerInv, TypeOK, MessageTracked, DeliveredIsKept,
       RefusedForOwnFailure
  <2>2. QED
    BY <2>1, ThreadInv, NetworkInv, CrashInv DEF Next
<1>2. QED
  BY InitInv, <1>1, PTL DEF Spec

\* A request answered 503 after flush failed itself, however many other requests
\* failed while its thread waited for them and served their reports.
THEOREM RefusedAlone == Spec => []RefusedForOwnFailure
<1>1. ProducerInv => RefusedForOwnFailure
  BY DEF ProducerInv
<1>2. QED
  BY <1>1, ProducerIsInvariant, PTL

--------------------------------------------------------------------------------
\* Each step of the threads, the network or the process is one of the contract.
LEMMA StepKeepsContract == ProducerInv /\ [Next]_vars => [Contract!Next]_(Contract!vars)
<1> SUFFICES ASSUME ProducerInv, [Next]_vars
             PROVE  Contract!Next \/ UNCHANGED Contract!vars
  BY DEF Contract!vars
<1> DEFINE answer == [r \in Requests |-> AnswerOf(r)]
<1> USE DEF Contract!vars, Contract!Next, ProducerInv, TypeOK, Answers, Results
<1>1. ASSUME NEW t \in Requests, Produce(t)
      PROVE  UNCHANGED Contract!vars
  BY <1>1 DEF Produce, AnswerOf
<1>2. ASSUME NEW t \in Requests, ProduceFull(t)
      PROVE  Contract!Refuse(t)
  BY <1>2 DEF ProduceFull, AnswerOf, Contract!Refuse
<1>3. ASSUME NEW t \in Requests, Flush(t)
      PROVE  Contract!Accept(t) \/ Contract!Refuse(t)
  <2>1. CASE report[t] = "delivered"
    BY <1>3, <2>1, FlushOwnReport DEF Flush, AnswerOf, Contract!Accept, DeliveredIsKept
  <2>2. CASE report[t] = "failed"
    BY <1>3, <2>2, FlushOwnReport DEF Flush, AnswerOf, Contract!Refuse
  <2>3. QED BY <1>3, <2>1, <2>2, FlushOwnReport
<1>4. ASSUME NEW t \in Requests, NEW r \in Requests, Serve(t, r)
      PROVE  UNCHANGED Contract!vars
  BY <1>4 DEF Serve, AnswerOf
<1>5. ASSUME NEW r \in Requests, Arrive(r)
      PROVE  Contract!Keep(r)
  BY <1>5 DEF Arrive, AnswerOf, Contract!Keep
<1>6. ASSUME NEW r \in Requests, Transmit(r) \/ Acknowledge(r) \/ Expire(r)
      PROVE  UNCHANGED Contract!vars
  BY <1>6 DEF Transmit, Acknowledge, Expire, Settle, AnswerOf
<1>7. ASSUME Crash
      PROVE  Contract!Abandon({r \in Requests : call[r] = "flush"})
  BY <1>7 DEF Crash, AnswerOf, Contract!Abandon
<1>8. CASE UNCHANGED vars
  BY <1>8 DEF vars, AnswerOf
<1>9. QED
  BY <1>1, <1>2, <1>3, <1>4, <1>5, <1>6, <1>7, <1>8 DEF Next, Thread

\* publish_event on a shared producer keeps the promise of PublishContract: 202
\* only for what the topic has, one answer for each request.
THEOREM KeepsPublishContract == Spec => ContractSpec
<1>1. Init => Contract!Init
  BY DEF Init, Contract!Init, AnswerOf
<1>2. QED
  BY <1>1, StepKeepsContract, ProducerIsInvariant, PTL DEF Spec, ContractSpec, Contract!Spec

================================================================================
