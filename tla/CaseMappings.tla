----------------------------- MODULE CaseMappings ------------------------------
(***************************************************************************)
(* What a case id promises: the mapping stored for a case was written for  *)
(* one payload (or for the signature of a predefined mapping) and is then  *)
(* applied to every payload with the same fingerprint.  Events of one      *)
(* source arrive one after the other; a mapping is the path its copy       *)
(* operation reads.                                                        *)
(***************************************************************************)
EXTENDS Fingerprint, FiniteSets

CONSTANTS
    Signatures,  \* signatures a predefined mapping may declare: sets of entries
    MaxMappings  \* bound on the mappings, a predefined one included

\* SchemaSignatureEntry, within the bounds: the payloads have its names and depth.
Entries == {e \in [path : Seq(STRING), type : Types] : PositionOf(e.path) \in Positions}

ASSUME SignaturesAssumption == \A s \in Signatures : \A e \in s : e \in Entries

VARIABLES
    mappings,   \* records of a case, its copy path, and the type found there
    declared,   \* the signature of the predefined mapping, {} without one
    event,      \* the payload being handled, <<>> without one
    status      \* of its handling: idle, lookup or drift

vars == <<mappings, declared, event, status>>

\* load_predefined_mappings: at most one mapping, whose copy path is in its
\* signature; the fingerprint is that of the declared entries.
Init ==
    /\ event = <<>>
    /\ status = "idle"
    /\ \/ mappings = {} /\ declared = {}
       \/ /\ declared \in {s \in Signatures : SignatureValid(s)}
          /\ \E e \in declared :
                 mappings = {[case |-> FingerprintOf(Listed(declared)),
                              path |-> e.path, type |-> e.type]}

MappingOf(payload) == {m \in mappings : m.case = FingerprintOf(SchemaPaths(payload))}

--------------------------------------------------------------------------------
\* create_event, then the lookup of its case by process_raw_message.
Submit(payload) ==
    /\ status = "idle"
    /\ event' = payload
    /\ status' = "lookup"
    /\ UNCHANGED <<mappings, declared>>

\* The event is stored or on failed-events.
Finish ==
    /\ event' = <<>>
    /\ status' = "idle"
    /\ UNCHANGED declared

\* The mapping of the case is applied, and finds its field or not.
ApplyStored ==
    /\ status = "lookup"
    /\ MappingOf(event) # {}
    /\ Finish
    /\ UNCHANGED mappings

\* No mapping: to schema-drift.
Miss ==
    /\ status = "lookup"
    /\ MappingOf(event) = {}
    /\ status' = "drift"
    /\ UNCHANGED <<mappings, declared, event>>

\* The AI proposes one of the available paths; the structure check and the final
\* application to the event let it pass.
Generate(path) ==
    /\ status = "drift"
    /\ path \in PathsIn(SchemaPaths(event))
    /\ CopyPathValid(path)
    /\ Resolve(event, path) # "missing"
    /\ Cardinality(mappings) < MaxMappings
    /\ mappings' = mappings \cup
           {[case |-> FingerprintOf(SchemaPaths(event)), path |-> path,
             type |-> Resolve(event, path)]}
    /\ Finish

\* No proposal passes.
GenerateFails ==
    /\ status = "drift"
    /\ Finish
    /\ UNCHANGED mappings

Next ==
    \/ \E p \in Payloads : Submit(p)
    \/ Miss
    \/ ApplyStored
    \/ \E path \in PathsIn(SchemaPaths(event)) : Generate(path)
    \/ GenerateFails

Spec == Init /\ [][Next]_vars

--------------------------------------------------------------------------------
\* The mapping of a case finds its field, with the type it was written for, in
\* every event of the case: a mapping checked against one event fits the others
\* (drift_consumer.py:62), and a predefined one, checked against its signature
\* only (mappings.py:99-107), fits the events it is looked up for.  It needs
\* field names without dots: {a: {b: 1}} and {a: {}, "a.b": 1} share a fingerprint.
MappingFitsItsCase ==
    status = "lookup" =>
        \A m \in MappingOf(event) : Resolve(event, m.path) = m.type

\* A predefined mapping that passes validation is not dead: some payload has its
\* fingerprint (mappings.py:89-97).
PredefinedIsReachable ==
    declared # {} /\ status = "idle" =>
        \E p \in Payloads : FingerprintOf(SchemaPaths(p)) = FingerprintOf(Listed(declared))

\* The inductive invariant behind both: whatever a mapping was written for, its
\* case says which type is found at its path.
CaseInv ==
    /\ status \in {"idle", "lookup", "drift"}
    /\ status # "idle" => event \in Payloads
    /\ declared # {} => declared \in Signatures /\ SignatureValid(declared)
    /\ \A m \in mappings : m.path \in DOMAIN m.case /\ m.case[m.path] = <<m.type>>

================================================================================
