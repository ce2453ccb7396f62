------------------------------ MODULE Deployment -------------------------------
(***************************************************************************)
(* What every component of the pipeline shares: the events, the cases they *)
(* belong to, and the processes that handle them.                          *)
(***************************************************************************)

CONSTANTS
    Events,        \* usage events, one per event_id
    Cases,         \* case ids: source plus fingerprint of the payload
    CaseOf,        \* the case id of each event
    RawWorkers,    \* processes of the group raw-event-consumer
    DriftWorkers,  \* processes of the group schema-drift-consumer
    Null

Workers == RawWorkers \cup DriftWorkers

ASSUME DeploymentAssumption ==
    /\ CaseOf \in [Events -> Cases]
    /\ RawWorkers \cap DriftWorkers = {}
    /\ Null \notin Workers

================================================================================
