---------------------------- MODULE SharedProducer -----------------------------
(***************************************************************************)
(* create_event on the API's thread pool: many requests publish at the     *)
(* same time through one Producer.  publish_event adds its message to the  *)
(* producer's queue and calls flush, which returns when the whole queue is *)
(* empty, not when this message is delivered; and the thread that finds a  *)
(* delivery report runs the callback of whichever request it belongs to.   *)
(* EventPipeline takes publish_event as one step; here it is shown to keep *)
(* the promise that step makes (PublishContract).                          *)
(*                                                                         *)
(* The queue, its delivery timeout and its resending are the client        *)
(* library's (external), with the settings of kafka_client.py.             *)
(***************************************************************************)
EXTENDS Naturals, FiniteSets

CONSTANTS
    Requests,    \* requests to POST /events, each on a thread of its own
    QueueLimit,  \* messages the producer holds before produce raises BufferError
    MaxSends,    \* bound on the copies sent, resent ones included
    MaxCrashes   \* bound on the ends of the API process

ASSUME ProducerAssumption ==
    /\ QueueLimit \in Nat
    /\ MaxSends \in Nat
    /\ MaxCrashes \in Nat

VARIABLES
    call,     \* where publish_event is for each request, or its answer
    report,   \* acknowledged and delivery_error, the variables of its closure
    message,  \* its message in the producer: queued, or a report to serve
    sends,    \* copies sent so far
    wire,     \* copies on their way to the broker
    acks,     \* acknowledgements on their way back
    kept,     \* copies of each event in raw-events
    crashes

vars == <<call, report, message, sends, wire, acks, kept, crashes>>

\* "accepted" is 202; "refused" (a KafkaPublishError after flush) and "full"
\* (BufferError) are 503; "gone" is a request whose process ended.
Answers == {"accepted", "refused", "full", "gone"}

Results == {"delivered", "failed"}

TypeOK ==
    /\ call \in [Requests -> {"produce", "flush"} \cup Answers]
    /\ report \in [Requests -> {"none"} \cup Results]
    /\ message \in [Requests -> {"none", "queued"} \cup Results]
    /\ sends \in 0..MaxSends
    /\ wire \subseteq Requests
    /\ acks \subseteq Requests
    /\ kept \in [Requests -> Nat]
    /\ crashes \in 0..MaxCrashes

Init ==
    /\ call = [r \in Requests |-> "produce"]
    /\ report = [r \in Requests |-> "none"]
    /\ message = [r \in Requests |-> "none"]
    /\ sends = 0
    /\ wire = {}
    /\ acks = {}
    /\ kept = [r \in Requests |-> 0]
    /\ crashes = 0

--------------------------------------------------------------------------------
(***************************************************************************)
(* publish_event, on the thread of request r.                              *)
(***************************************************************************)
\* What len(producer) counts: every thread's messages, reports included.
Pending == {r \in Requests : message[r] # "none"}

Produce(r) ==
    /\ call[r] = "produce"
    /\ Cardinality(Pending) < QueueLimit
    /\ message' = [message EXCEPT ![r] = "queued"]
    /\ call' = [call EXCEPT ![r] = "flush"]
    /\ UNCHANGED <<report, sends, wire, acks, kept, crashes>>

\* BufferError.
ProduceFull(r) ==
    /\ call[r] = "produce"
    /\ Cardinality(Pending) >= QueueLimit
    /\ call' = [call EXCEPT ![r] = "full"]
    /\ UNCHANGED <<report, message, sends, wire, acks, kept, crashes>>

\* A thread in flush serves the report of r: its on_delivery is called.
Serve(t, r) ==
    /\ call[t] = "flush"
    /\ message[r] \in Results
    /\ report' = [report EXCEPT ![r] = message[r]]
    /\ message' = [message EXCEPT ![r] = "none"]
    /\ UNCHANGED <<call, sends, wire, acks, kept, crashes>>

\* Mutant: a delivery report is taken for a success.
OutcomeAcknowledged(r) ==
    IF Pending = {} /\ report[r] # "none" THEN "accepted" ELSE "refused"

\* The checks after flush: remaining, acknowledged, delivery_error.
Outcome(r) ==
    IF Pending = {} /\ report[r] = "delivered" THEN "accepted" ELSE "refused"

\* Mutant: flush gives up after a time.
FlushTimed(r) ==
    /\ call[r] = "flush"
    /\ call' = [call EXCEPT ![r] = Outcome(r)]
    /\ UNCHANGED <<report, message, sends, wire, acks, kept, crashes>>

\* flush without a timeout returns when nothing of any thread is left.
Flush(r) ==
    /\ call[r] = "flush"
    /\ Pending = {}
    /\ call' = [call EXCEPT ![r] = Outcome(r)]
    /\ UNCHANGED <<report, message, sends, wire, acks, kept, crashes>>

--------------------------------------------------------------------------------
(***************************************************************************)
(* The producer's own thread, and the network.                             *)
(***************************************************************************)
\* A message is sent, or sent again when no acknowledgement came.  A copy or an
\* acknowledgement that is lost is one that stays on its way.
Transmit(r) ==
    /\ message[r] = "queued"
    /\ sends < MaxSends
    /\ sends' = sends + 1
    /\ wire' = wire \cup {r}
    /\ UNCHANGED <<call, report, message, acks, kept, crashes>>

\* The broker keeps the copy, also one of a request given up long ago; it does
\* not tell copies apart (enable.idempotence is not set).
Arrive(r) ==
    /\ r \in wire
    /\ wire' = wire \ {r}
    /\ kept' = [kept EXCEPT ![r] = @ + 1]
    /\ acks' = IF message[r] = "queued" THEN acks \cup {r} ELSE acks
    /\ UNCHANGED <<call, report, message, sends, crashes>>

\* The message has its delivery report.
Settle(r, result) ==
    /\ message[r] = "queued"
    /\ message' = [message EXCEPT ![r] = result]
    /\ acks' = acks \ {r}
    /\ UNCHANGED <<call, report, sends, wire, kept, crashes>>

Acknowledge(r) == r \in acks /\ Settle(r, "delivered")

\* Mutant: delivery.timeout.ms is not set.
ExpireNever(r) == FALSE

\* delivery.timeout.ms is over, whatever became of the copies.
Expire(r) == Settle(r, "failed")

\* The API process ends, and its queue with it; what is on the wire is not.
Crash ==
    /\ crashes < MaxCrashes
    /\ crashes' = crashes + 1
    /\ call' = [r \in Requests |-> IF call[r] = "flush" THEN "gone" ELSE call[r]]
    /\ message' = [r \in Requests |-> "none"]
    /\ acks' = {}
    /\ UNCHANGED <<report, sends, wire, kept>>

--------------------------------------------------------------------------------
\* What the thread of t does once its message is in the queue.
Thread(t) == Flush(t) \/ \E r \in Requests : Serve(t, r)

Next ==
    \/ \E r \in Requests :
        \/ Produce(r) \/ ProduceFull(r) \/ Thread(r)
        \/ Transmit(r) \/ Arrive(r) \/ Acknowledge(r) \/ Expire(r)
    \/ Crash

Spec == Init /\ [][Next]_vars

\* Threads run, and the delivery timeout comes; the network owes nothing.
FairSpec == Spec /\ \A r \in Requests : WF_vars(Thread(r)) /\ WF_vars(Expire(r))

--------------------------------------------------------------------------------
\* A 503 after flush is the request's own: its own message failed, not the one
\* of a thread that published at the same time, whose reports this thread serves
\* and whose messages it waits for (kafka_client.py:114-139).
RefusedForOwnFailure ==
    \A r \in Requests : call[r] = "refused" => report[r] = "failed"

\* Every request that published is answered, although it waits for the others,
\* some of which the broker never acknowledges (kafka_client.py:46, 114).
EveryRequestAnswered ==
    \A r \in Requests : (call[r] = "flush") ~> (call[r] \in Answers)

\* The message of a request is in the producer from produce until its report is
\* served, and never again.
MessageTracked(r) ==
    /\ call[r] = "flush" => (message[r] = "none" <=> report[r] # "none")
    /\ call[r] # "flush" => message[r] = "none"
    /\ call[r] \in {"produce", "full"} => report[r] = "none"

\* "delivered" is said only of events the broker has.
DeliveredIsKept(r) ==
    r \in acks \/ message[r] = "delivered" \/ report[r] = "delivered" => kept[r] > 0

\* The inductive invariant behind RefusedForOwnFailure and the contract.
ProducerInv ==
    /\ TypeOK
    /\ \A r \in Requests :
        /\ MessageTracked(r)
        /\ DeliveredIsKept(r)
        /\ call[r] = "accepted" => report[r] = "delivered"
    /\ RefusedForOwnFailure

\* publish_event keeps the promise of PublishContract.
AnswerOf(r) ==
    CASE call[r] \in {"produce", "flush"} -> "none"
      [] call[r] = "accepted" -> "202"
      [] call[r] \in {"refused", "full"} -> "503"
      [] call[r] = "gone" -> "lost"

Contract == INSTANCE PublishContract WITH answer <- [r \in Requests |-> AnswerOf(r)]

ContractSpec == Contract!Spec

================================================================================
