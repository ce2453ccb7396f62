----------------------------- MODULE ApplyMapping ------------------------------
(***************************************************************************)
(* What happens to one event of a mapped case: apply_mapping runs the      *)
(* operations of each target, adds the identity fields and validates the   *)
(* result, then repository.save converts it for the table.  Operations     *)
(* are steps, so that the state after each is visible.                     *)
(***************************************************************************)
EXTENDS MappingValues, FiniteSets

CONSTANTS
    Kind,        \* the kind of each property of the normalized event schema
    Payloads,    \* payloads: functions from paths to values
    Mappings,    \* [static, fields]: a function, and a sequence of [target, path, ops]
    ColumnMax    \* amounts from here on do not fit their column

Protected == {"event_id", "case_id", "source"}

\* The properties without the identity fields, by what schema and table want:
\* an amount, an optional text, a text that may be absent but not null (unit), a
\* required text (usage_type), a time.
Kinds == {"amount", "text", "label", "required", "time"}

\* One field of a mapping: the path it copies and what it does then.
FieldMappings == [target : STRING, path : STRING, ops : Seq(MappingOperations)]

\* A mapping: one way to compute each target (reject_duplicate_targets).
IsRuntimeMapping(m) ==
    /\ m.static \in [DOMAIN m.static -> Values]
    /\ m.fields \in Seq(FieldMappings)
    /\ \A i \in DOMAIN m.fields : m.fields[i].target \notin DOMAIN m.static
    /\ \A i, j \in DOMAIN m.fields : m.fields[i].target = m.fields[j].target => i = j

ASSUME ApplyAssumption ==
    /\ \A t \in DOMAIN Kind : Kind[t] \in Kinds
    /\ Protected \cap DOMAIN Kind = {}
    /\ \A p \in Payloads : \A k \in DOMAIN p : p[k] \in Values
    /\ \A m \in Mappings : IsRuntimeMapping(m)
    /\ ColumnMax \in Nat

VARIABLES
    payload,     \* of the event
    mapping,     \* the mapping of its case
    field,       \* the field being computed
    done,        \* the operations done of it
    value,       \* the current value
    normalized,  \* the result so far
    status

vars == <<payload, mapping, field, done, value, normalized, status>>

\* "invalid" is a MappingEngineError, "raises" any other exception of the
\* engine, "refused" an exception of repository.save.
Ends == {"stored", "invalid", "raises", "refused"}

Init ==
    /\ payload \in Payloads
    /\ mapping \in Mappings
    /\ field = 1
    /\ done = 0
    /\ value = NullValue
    /\ normalized = mapping.static
    /\ status = "check"

Fields == DOMAIN mapping.fields

Targets == {mapping.fields[i].target : i \in Fields}

\* Mutant: the static fields are not looked at.
CheckFieldsOnly ==
    /\ status = "check"
    /\ status' = IF Protected \cap Targets # {} THEN "invalid" ELSE "copy"
    /\ UNCHANGED <<payload, mapping, field, done, value, normalized>>

\* _check_mapping_targets.
CheckTargets ==
    /\ status = "check"
    /\ status' = IF Protected \cap (Targets \cup DOMAIN mapping.static) # {}
                 THEN "invalid" ELSE "copy"
    /\ UNCHANGED <<payload, mapping, field, done, value, normalized>>

\* Mutant: the operations of a field are counted on from those of the last one.
CopyCountsOn ==
    /\ status = "copy"
    /\ field \in Fields
    /\ \/ /\ mapping.fields[field].path \notin DOMAIN payload
          /\ status' = "invalid"
          /\ UNCHANGED value
       \/ /\ mapping.fields[field].path \in DOMAIN payload
          /\ value' = payload[mapping.fields[field].path]
          /\ status' = "operate"
    /\ UNCHANGED <<payload, mapping, field, done, normalized>>

\* The first operation of a field copies.
Copy ==
    /\ status = "copy"
    /\ field \in Fields
    /\ done' = 0
    /\ \/ /\ mapping.fields[field].path \notin DOMAIN payload
          /\ status' = "invalid"
          /\ UNCHANGED value
       \/ /\ mapping.fields[field].path \in DOMAIN payload
          /\ value' = payload[mapping.fields[field].path]
          /\ status' = "operate"
    /\ UNCHANGED <<payload, mapping, field, normalized>>

\* The others cast and multiply.
Operate ==
    /\ status = "operate"
    /\ done < Len(mapping.fields[field].ops)
    /\ done' = done + 1
    /\ value' = Apply(mapping.fields[field].ops[done + 1], value)
    /\ status' = CASE value'.type = "failure" -> "invalid"
                   [] value'.type = "overflow" -> "raises"
                   [] OTHER -> "operate"
    /\ UNCHANGED <<payload, mapping, field, normalized>>

\* The field has its value.
Assign ==
    /\ status = "operate"
    /\ done = Len(mapping.fields[field].ops)
    /\ LET target == mapping.fields[field].target IN
       normalized' = [t \in DOMAIN normalized \cup {target} |->
                         IF t = target THEN value ELSE normalized[t]]
    /\ field' = field + 1
    /\ status' = "copy"
    /\ UNCHANGED <<payload, mapping, done, value>>

\* Mutant: the minimum of amounts is not in the schema.
SchemaAcceptsNegative(kind, v) ==
    CASE kind = "amount" -> v.type \in {"null", "integer", "number"}
      [] kind = "text"   -> v.type \in {"string", "null"}
      [] kind = "time"   -> v = NullValue \/ (v.type = "string" /\ v.text \in {"instant", "edge"})
      [] OTHER           -> v.type = "string"

\* The normalized event schema: its minimum lets infinity and NaN pass, its
\* date-time format lets the "edge" times pass that Python does not read.
SchemaAccepts(kind, v) ==
    CASE kind = "amount" -> v = NullValue \/ (v.type \in {"integer", "number"} /\ v.of >= 0)
      [] kind = "text"   -> v.type \in {"string", "null"}
      [] kind = "time"   -> v = NullValue \/ (v.type = "string" /\ v.text \in {"instant", "edge"})
      [] OTHER           -> v.type = "string"

\* What validate accepts.
IsNormalized(row) ==
    /\ DOMAIN row \subseteq DOMAIN Kind
    /\ \A t \in DOMAIN Kind : Kind[t] = "required" => t \in DOMAIN row
    /\ \A t \in DOMAIN row : SchemaAccepts(Kind[t], row[t])

Validate ==
    /\ status = "copy"
    /\ field \notin Fields
    /\ status' = IF IsNormalized(normalized) THEN "save" ELSE "invalid"
    /\ UNCHANGED <<payload, mapping, field, done, value, normalized>>

\* PostgreSQL takes no NUL character in a text or in the JSON of raw_payload.
Printable(v) == v.type = "string" => v.text # "nul"

\* The converters of repository.py and the columns of models.py.
ColumnAccepts(kind, v) ==
    CASE kind = "amount"   -> v = NullValue \/ (Finite(v) /\ Halves(v) < 2 * ColumnMax)
      [] kind = "required" -> v.text # "blank" /\ Printable(v)
      [] kind = "time"     -> v = NullValue \/ v.text = "instant"
      [] OTHER             -> Printable(v)

\* What the table takes: a row, with the payload it was made from.
IsStorable(row, raw) ==
    /\ \A t \in DOMAIN row : ColumnAccepts(Kind[t], row[t])
    /\ \A p \in DOMAIN raw : Printable(raw[p])

\* repository.save for an event without a row.
Save ==
    /\ status = "save"
    /\ status' = IF IsStorable(normalized, payload) THEN "stored" ELSE "refused"
    /\ UNCHANGED <<payload, mapping, field, done, value, normalized>>

Finished == status \in Ends /\ UNCHANGED vars

Next == CheckTargets \/ Copy \/ Operate \/ Assign \/ Validate \/ Save \/ Finished

Spec == Init /\ [][Next]_vars

--------------------------------------------------------------------------------
(***************************************************************************)
(* What the steps compute, as a function of the payload and the mapping.   *)
(***************************************************************************)
\* The value of a field after the copy and after each operation.
Results(p, f) ==
    LET result[n \in 0..Len(f.ops)] ==
            IF n = 0 THEN p[f.path] ELSE Apply(f.ops[n], result[n - 1])
    IN  result

First(S) == CHOOSE i \in S : \A j \in S : i <= j

\* "ok", or how the first operation that fails ends apply_mapping.
FieldEnd(p, f) ==
    IF f.path \notin DOMAIN p THEN "invalid"
    ELSE LET results == Results(p, f)
             failing == {n \in 0..Len(f.ops) : results[n] \in {Failure, Overflow}}
         IN  IF failing = {} THEN "ok"
             ELSE IF results[First(failing)] = Failure THEN "invalid" ELSE "raises"

\* The static fields, and for each target the value of its field.
RowOf(p, m) ==
    [t \in DOMAIN m.static \cup {m.fields[i].target : i \in DOMAIN m.fields} |->
        IF t \in DOMAIN m.static THEN m.static[t]
        ELSE LET f == m.fields[CHOOSE i \in DOMAIN m.fields : m.fields[i].target = t]
             IN  Results(p, f)[Len(f.ops)]]

\* How handling an event without a row ends.  The order of the fields matters
\* only where one of them fails: the first that does decides.
Outcome(p, m) ==
    LET targets == {m.fields[i].target : i \in DOMAIN m.fields}
        failing == {i \in DOMAIN m.fields : FieldEnd(p, m.fields[i]) # "ok"}
    IN  IF Protected \cap (targets \cup DOMAIN m.static) # {} THEN "invalid"
        ELSE IF failing # {} THEN FieldEnd(p, m.fields[First(failing)])
        ELSE IF ~ IsNormalized(RowOf(p, m)) THEN "invalid"
        ELSE IF ~ IsStorable(RowOf(p, m), p) THEN "refused" ELSE "stored"

\* apply_mapping is a pure function of the event and the mapping, nothing left
\* from another field counts (_run_operations, mapping_engine.py:141-159): an event
\* that is delivered again ends as it did, with the same row.  That is what lets
\* the pipeline take the outcome for a constant.
OutcomeIsFunction ==
    /\ status \in Ends => status = Outcome(payload, mapping)
    /\ status = "stored" => normalized = RowOf(payload, mapping)

--------------------------------------------------------------------------------
\* What a mapping makes of an event is typed by the event's structure: whatever
\* the values, an operation fails or gives the type the payload's types say, so
\* the events of a case never put values of different types in one column
\* (casting.py:19-69, mapping_engine.py:192-205).  The operations done, seen on
\* types alone, lead from the type of the payload's value to that of the result.
TypesFollowStructure ==
    status = "operate" => LET f == mapping.fields[field] IN
        \E results \in [1..done -> Scalars] :
            LET Type(i) == IF i = 0 THEN payload[f.path].type ELSE results[i] IN
            /\ \A i \in 1..done : Type(i) = ResultType(Type(i - 1), f.ops[i])
            /\ value.type = Type(done)

\* A value written as text and cast back is the same value: predefined mappings
\* that go through "string" lose nothing (casting.py:19-69).
TextRoundTrip ==
    status = "operate" /\ value.type \in Scalars /\ (value.type = "number" => Finite(value)) =>
        Cast(Cast(value, "string"), value.type) = value

\* A row holds finite amounts, none of them negative, that fit their columns,
\* times with a zone, and no blank required text: between them the schema and the
\* converters leave no gap (normalized_event_schema.json, repository.py:91-158).
RowsAreClean ==
    status = "stored" => \A t \in DOMAIN normalized : LET v == normalized[t] IN
        /\ Kind[t] = "amount" /\ v # NullValue => Finite(v) /\ Halves(v) \in 0..(2 * ColumnMax - 1)
        /\ Kind[t] = "time" /\ v # NullValue => v.text = "instant"
        /\ Kind[t] \in {"required", "label"} => v.type = "string"
        /\ Kind[t] = "required" => v.text # "blank"

\* A stored row has exactly the static fields and the targets of its mapping, and
\* no identity field among them: what a mapping sets cannot replace the event's
\* identity (mapping_engine.py:82-95, 131-139).
RowIsComplete ==
    status \in {"save", "stored"} =>
        /\ DOMAIN normalized = DOMAIN mapping.static \cup Targets
        /\ DOMAIN normalized \cap Protected = {}

\* The event and the mapping are those of the call.
InputsAreFixed == payload \in Payloads /\ mapping \in Mappings

\* Every value the engine works with is a JSON value until an operation fails, and
\* a field is worked on with its own operations.
TypeOK ==
    /\ field \in 1..(Len(mapping.fields) + 1)
    /\ done \in Nat
    /\ status \in {"check", "copy", "operate", "save"} \cup Ends
    /\ status \notin {"invalid", "raises"} => value \in Values
    /\ normalized \in [DOMAIN normalized -> Values]

\* What is computed so far, by the fields done: each target has its value, and
\* nothing else but the static fields is set.
ResultIsPartial ==
    DOMAIN normalized = DOMAIN mapping.static \cup {mapping.fields[i].target : i \in 1..(field - 1)}

\* The fields done gave what the function says, and so did the operations done of
\* the field at work.
ComputedSoFar ==
    /\ \A t \in DOMAIN mapping.static : normalized[t] = mapping.static[t]
    /\ \A i \in 1..(field - 1) : LET f == mapping.fields[i] IN
        /\ FieldEnd(payload, f) = "ok"
        /\ normalized[f.target] = Results(payload, f)[Len(f.ops)]
    /\ status = "operate" => LET results == Results(payload, mapping.fields[field]) IN
        /\ value = results[done]
        /\ \A n \in 0..done : results[n] \notin {Failure, Overflow}

\* The inductive invariant behind OutcomeIsFunction.
OutcomeInv ==
    /\ status \notin Ends => ComputedSoFar
    /\ status = "save" => IsNormalized(normalized)
    /\ OutcomeIsFunction

\* The inductive invariant behind RowsAreClean: the value at work belongs to the
\* field at work, and what passed the schema and the converters is unchanged.
ApplyInv ==
    /\ TypeOK
    /\ ResultIsPartial
    /\ status = "operate" =>
        /\ field \in Fields
        /\ mapping.fields[field].path \in DOMAIN payload
        /\ done <= Len(mapping.fields[field].ops)
    /\ TypesFollowStructure
    /\ status \notin {"check", "invalid"} =>
           Protected \cap (Targets \cup DOMAIN mapping.static) = {}
    /\ status \in {"save", "stored"} =>
        /\ field \notin Fields
        /\ DOMAIN normalized \subseteq DOMAIN Kind
        /\ \A t \in DOMAIN normalized : SchemaAccepts(Kind[t], normalized[t])
    /\ status = "stored" => \A t \in DOMAIN normalized : ColumnAccepts(Kind[t], normalized[t])

================================================================================
