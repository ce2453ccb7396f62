------------------------------ MODULE EventLedger ------------------------------
(***************************************************************************)
(* What the pipeline promises about each event, whatever processes,        *)
(* topics and mappings there are: an event is waiting while some record of *)
(* it has no outcome yet, it stops waiting only with an outcome, and an    *)
(* outcome is never taken back.  Delivery is at least once: an event with  *)
(* an outcome may wait again.                                              *)
(***************************************************************************)
CONSTANTS Events, Rows, NoRow

VARIABLES
    accepted,  \* events whose client was told 202
    waiting,   \* events with a record still to be handled
    row,       \* the row stored for each event
    rejected   \* events on failed-events

vars == <<accepted, waiting, row, rejected>>

Init ==
    /\ accepted = {}
    /\ waiting = {}
    /\ row = [e \in Events |-> NoRow]
    /\ rejected = {}

HasOutcome(e) == row[e] # NoRow \/ e \in rejected

\* The API published the event, and the client knows or does not.
Receive(e) ==
    /\ waiting' = waiting \cup {e}
    /\ accepted' \in {accepted, accepted \cup {e}}
    /\ UNCHANGED <<row, rejected>>

\* An event gets its row, once; later attempts change nothing.
Store(e) ==
    /\ e \in waiting \/ HasOutcome(e)
    /\ row[e] = NoRow
    /\ row' \in {[row EXCEPT ![e] = r] : r \in Rows}
    /\ waiting' \in {waiting, waiting \ {e}}
    /\ UNCHANGED <<accepted, rejected>>

Fail(e) ==
    /\ e \in waiting \/ HasOutcome(e)
    /\ rejected' = rejected \cup {e}
    /\ waiting' \in {waiting, waiting \ {e}}
    /\ UNCHANGED <<accepted, row>>

\* A record of an event that has its outcome is handled, or comes up again.
Repeat(e) ==
    /\ HasOutcome(e)
    /\ waiting' \in {waiting \cup {e}, waiting \ {e}}
    /\ UNCHANGED <<accepted, row, rejected>>

Next == \E e \in Events : Receive(e) \/ Store(e) \/ Fail(e) \/ Repeat(e)

Spec == Init /\ [][Next]_vars

================================================================================
