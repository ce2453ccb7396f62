----------------------------- MODULE DriftContract -----------------------------
(***************************************************************************)
(* What the rest of the pipeline relies on when a record of schema-drift   *)
(* is handled, however often it is delivered and whatever the AI answers:  *)
(* a mapping is saved once, only if it is acceptable; the event goes back  *)
(* to raw-events only under a mapping and to failed-events only without    *)
(* one; the record is committed only after one of the two.                 *)
(***************************************************************************)
CONSTANTS
    Mappings, NoMapping,
    Acceptable   \* mappings that may be saved for this event

VARIABLES
    eligible,   \* the payload may be shown to the AI
    mapping,    \* the mapping of the event's case
    published,  \* topics the event was published to
    committed   \* the record's offset is committed

vars == <<eligible, mapping, published, committed>>

Init ==
    /\ eligible \in BOOLEAN
    /\ mapping = NoMapping
    /\ published = {}
    /\ committed = FALSE

SaveMapping ==
    /\ eligible
    /\ mapping = NoMapping
    /\ mapping' \in Acceptable
    /\ UNCHANGED <<eligible, published, committed>>

SendBack ==
    /\ mapping # NoMapping
    /\ published' = published \cup {"raw-events"}
    /\ UNCHANGED <<eligible, mapping, committed>>

Fail ==
    /\ mapping = NoMapping
    /\ published' = published \cup {"failed-events"}
    /\ UNCHANGED <<eligible, mapping, committed>>

Commit ==
    /\ published # {}
    /\ committed' = TRUE
    /\ UNCHANGED <<eligible, mapping, published>>

Next == ~ committed /\ (SaveMapping \/ SendBack \/ Fail \/ Commit)

Spec == Init /\ [][Next]_vars

================================================================================
