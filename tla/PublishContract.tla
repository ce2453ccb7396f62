---------------------------- MODULE PublishContract ----------------------------
(***************************************************************************)
(* What create_event promises of a request whatever other requests do: 202 *)
(* only for an event the topic has, one answer at most, and nothing taken  *)
(* back.  An event answered 503 may be in the topic, now or later, and an  *)
(* event may be in it more than once.                                      *)
(***************************************************************************)
EXTENDS Naturals

CONSTANTS Requests

VARIABLES
    kept,    \* the copies of each request's event in raw-events
    answer   \* of each request

vars == <<kept, answer>>

Init ==
    /\ kept = [r \in Requests |-> 0]
    /\ answer = [r \in Requests |-> "none"]

Keep(r) ==
    /\ kept' = [kept EXCEPT ![r] = @ + 1]
    /\ UNCHANGED answer

Accept(r) ==
    /\ answer[r] = "none"
    /\ kept[r] > 0
    /\ answer' = [answer EXCEPT ![r] = "202"]
    /\ UNCHANGED kept

Refuse(r) ==
    /\ answer[r] = "none"
    /\ answer' = [answer EXCEPT ![r] = "503"]
    /\ UNCHANGED kept

\* The server ends: these requests never get an answer.
Abandon(some) ==
    /\ \A r \in some : answer[r] = "none"
    /\ answer' = [r \in Requests |-> IF r \in some THEN "lost" ELSE answer[r]]
    /\ UNCHANGED kept

Next ==
    \/ \E r \in Requests : Keep(r) \/ Accept(r) \/ Refuse(r)
    \/ \E some \in SUBSET Requests : Abandon(some)

Spec == Init /\ [][Next]_vars

================================================================================
