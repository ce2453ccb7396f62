----------------------------- MODULE MappingValues -----------------------------
(***************************************************************************)
(* JSON values as the mapping engine sees them, and the operations on them *)
(* in app/normalization/casting.py and mapping_engine.py.                  *)
(*                                                                         *)
(* A value is its JSON type and what the operations tell apart.  Integers  *)
(* are unbounded, as Python's; floats are counted in halves up to          *)
(* FloatMax, with an infinity on each side and a NaN (0.5 is 1, 1.0 is 2). *)
(* A string is one of the kinds of text the casts and checks distinguish,  *)
(* with the number it spells if it does.                                   *)
(***************************************************************************)
EXTENDS Integers, Sequences

CONSTANTS FloatMax  \* the largest float, in units; integers go on beyond it

ASSUME FloatAssumption == FloatMax \in Nat

Infinity == 2 * FloatMax + 1
NaN == 2 * FloatMax + 2

Int_(n) == [type |-> "integer", of |-> n]
Float(halves) == [type |-> "number", of |-> halves]
Bool(n) == [type |-> "boolean", of |-> n]
Text(kind, n) == [type |-> "string", text |-> kind, of |-> n]
NullValue == [type |-> "null"]

\* A MappingOperationError, and the OverflowError no handler expects.
Failure == [type |-> "failure"]
Overflow == [type |-> "overflow"]

\* The texts that spell an integer, in units; one that spells a finite float, in
\* halves; and the others, which spell no number.
IntegerTexts == {"integer", "padded", "loose"}
OtherTexts == {"nonfinite", "true", "false", "instant", "edge", "blank", "nul", "word"}

FiniteHalves == (-2 * FloatMax)..(2 * FloatMax)

Scalars == {"string", "integer", "number", "boolean"}

\* The values of JSON.
Values ==
    [type : {"integer"}, of : Int]
        \cup [type : {"number"}, of : FiniteHalves \cup {Infinity, -Infinity, NaN}]
        \cup [type : {"boolean"}, of : {0, 1}]
        \cup [type : {"string"}, text : IntegerTexts, of : Int]
        \cup [type : {"string"}, text : {"decimal"}, of : FiniteHalves]
        \cup [type : {"string"}, text : OtherTexts, of : {0}]
        \cup [type : {"null", "object", "array"}]

Finite(v) == v.type = "integer" \/ (v.type = "number" /\ v.of \in FiniteHalves)

InFloatRange(n) == n \in (-FloatMax)..FloatMax

--------------------------------------------------------------------------------
(***************************************************************************)
(* casting.py                                                              *)
(***************************************************************************)
\* Kinds of text: "integer" is what str(n) gives, "padded" has white space
\* around that, "loose" is any other text int() takes ("01", "+1"), "decimal"
\* one only float() takes, "nonfinite" one that float() takes to inf or nan.
CastToString(v) ==
    CASE v.type = "boolean" -> Text(IF v.of = 1 THEN "true" ELSE "false", 0)
      [] v.type = "integer" -> Text("integer", v.of)
      [] v.type = "number"  -> IF Finite(v) THEN Text("decimal", v.of) ELSE Text("nonfinite", 0)
      [] v.type = "string"  -> v

\* Mutant: a boolean is taken for the integer it is in Python.
CastToIntegerOfBoolean(v) ==
    CASE v.type \in {"integer", "boolean"} -> Int_(v.of)
      [] v.type = "number" /\ Finite(v) /\ v.of % 2 = 0 -> Int_(v.of \div 2)
      [] v.type = "string" /\ v.text \in {"integer", "padded"} -> Int_(v.of)
      [] OTHER -> Failure

CastToInteger(v) ==
    CASE v.type = "integer" -> v
      [] v.type = "number" /\ Finite(v) /\ v.of % 2 = 0 -> Int_(v.of \div 2)
      [] v.type = "string" /\ v.text \in {"integer", "padded"} -> Int_(v.of)
      [] OTHER -> Failure

\* Beyond the float range float() raises OverflowError for an integer and gives
\* infinity for a text; both end as a CastValueError.
CastToFloat(v) ==
    CASE v.type = "number" /\ Finite(v) -> v
      [] v.type = "integer" /\ InFloatRange(v.of) -> Float(2 * v.of)
      [] v.type = "string" /\ v.text \in {"integer", "padded", "loose"} /\ InFloatRange(v.of) ->
            Float(2 * v.of)
      [] v.type = "string" /\ v.text = "decimal" -> Float(v.of)
      [] OTHER -> Failure

\* Mutant: only texts and booleans are looked at.
CastToBooleanOfText(v) ==
    CASE v.type = "boolean" -> v
      [] v.type = "string" /\ v.text = "true" -> Bool(1)
      [] OTHER -> Failure

CastToBoolean(v) ==
    CASE v.type = "boolean" -> v
      [] v.type = "string" /\ v.text = "true" -> Bool(1)
      [] v.type = "string" /\ v.text = "false" -> Bool(0)
      [] v.type \in {"integer", "number"} /\ v.of = 0 -> Bool(0)
      [] v = Int_(1) \/ v = Float(2) -> Bool(1)
      [] OTHER -> Failure

\* cast_value.  The cast type "float" is the JSON type "number".
Cast(v, type) ==
    IF v.type \notin Scalars THEN Failure ELSE
    CASE type = "string"  -> CastToString(v)
      [] type = "integer" -> CastToInteger(v)
      [] type = "number"  -> CastToFloat(v)
      [] type = "boolean" -> CastToBoolean(v)

--------------------------------------------------------------------------------
(***************************************************************************)
(* _multiply.  A float product that is too large is infinite, infinity     *)
(* times zero is NaN, and an integer beyond the floats cannot be           *)
(* multiplied by a float.  Float factors are whole numbers here, so that   *)
(* the product is a number of halves.                                      *)
(***************************************************************************)
Clamp(halves) ==
    IF halves > 2 * FloatMax THEN Infinity
    ELSE IF halves < -2 * FloatMax THEN -Infinity ELSE halves

FloatProduct(a, b) ==
    IF NaN \in {a, b} THEN NaN
    ELSE IF {a, b} \cap {Infinity, -Infinity} = {} THEN Clamp((a * b) \div 2)
    ELSE IF 0 \in {a, b} THEN NaN
    ELSE IF (a > 0) = (b > 0) THEN Infinity ELSE -Infinity

Halves(v) == IF v.type = "integer" THEN 2 * v.of ELSE v.of

Multiply(v, by) ==
    IF v.type \notin {"integer", "number"} THEN Failure
    ELSE IF v.type = "integer" /\ by.type = "integer" THEN Int_(v.of * by.of)
    ELSE IF \E n \in {v, by} : n.type = "integer" /\ ~ InFloatRange(n.of) THEN Overflow
    ELSE Float(FloatProduct(Halves(v), Halves(by)))

\* What an operation model accepts: a factor is a finite number.
Factors ==
    [type : {"integer"}, of : Int]
        \cup [type : {"number"}, of : {2 * n : n \in (-FloatMax)..FloatMax}]

MappingOperations ==
    [operation : {"cast"}, to : Scalars] \cup [operation : {"multiply"}, by : Factors]

\* _apply_operation after the copy.
Apply(op, v) == IF op.operation = "cast" THEN Cast(v, op.to) ELSE Multiply(v, op.by)

--------------------------------------------------------------------------------
\* The type an operation gives, from the type alone: "failure" if it cannot
\* succeed.  This is what a fingerprint knows of the payload.
ResultType(type, op) ==
    IF op.operation = "cast"
    THEN IF type \notin Scalars \/ (type = "boolean" /\ op.to \in {"integer", "number"})
         THEN "failure" ELSE op.to
    ELSE IF type \notin {"integer", "number"} THEN "failure"
         ELSE IF "number" \in {type, op.by.type} THEN "number" ELSE "integer"

================================================================================
