-------------------------- MODULE ApplyMappingProofs ---------------------------
(***************************************************************************)
(* Proofs about MappingValues and ApplyMapping: for any payloads, any      *)
(* mappings with any number of fields and operations, and any limits, what *)
(* is stored is clean, typed by the structure of the event, and a function *)
(* of payload and mapping; and a value survives its text.                  *)
(***************************************************************************)
EXTENDS ApplyMapping, WellFoundedInduction, TLAPS

--------------------------------------------------------------------------------
(***************************************************************************)
(* The operations on values.                                               *)
(***************************************************************************)
\* What a value is, by its type.
LEMMA ValueShapes ==
    ASSUME NEW v \in Values
    PROVE  \/ v.type = "integer" /\ v.of \in Int /\ v = Int_(v.of)
           \/ /\ v.type = "number" /\ v = Float(v.of)
              /\ v.of \in FiniteHalves \cup {Infinity, -Infinity, NaN}
           \/ v.type = "boolean" /\ v.of \in {0, 1} /\ v = Bool(v.of)
           \/ /\ v.type = "string" /\ v = Text(v.text, v.of)
              /\ \/ v.text \in IntegerTexts /\ v.of \in Int
                 \/ v.text = "decimal" /\ v.of \in FiniteHalves
                 \/ v.text \in OtherTexts /\ v.of = 0
           \/ v.type \in {"null", "object", "array"}
  BY DEF Values, Int_, Float, Bool, Text

\* The values the operations make.
LEMMA IntegerIsValue ==
    ASSUME NEW n \in Int
    PROVE  Int_(n) \in Values /\ Int_(n).type = "integer" /\ Int_(n).of = n
  BY DEF Values, Int_

LEMMA FloatIsValue ==
    ASSUME NEW h \in FiniteHalves \cup {Infinity, -Infinity, NaN}
    PROVE  Float(h) \in Values /\ Float(h).type = "number" /\ Float(h).of = h
  BY DEF Values, Float

LEMMA BoolIsValue ==
    ASSUME NEW n \in {0, 1}
    PROVE  Bool(n) \in Values /\ Bool(n).type = "boolean" /\ Bool(n).of = n
  BY DEF Values, Bool

LEMMA TextIsValue ==
    ASSUME NEW kind, NEW n,
           \/ kind \in IntegerTexts /\ n \in Int
           \/ kind = "decimal" /\ n \in FiniteHalves
           \/ kind \in OtherTexts /\ n = 0
    PROVE  /\ Text(kind, n) \in Values /\ Text(kind, n).type = "string"
           /\ Text(kind, n).text = kind /\ Text(kind, n).of = n
  BY DEF Values, Text

\* A failure and an overflow are no values.
LEMMA ErrorTypes ==
    /\ Failure.type = "failure" /\ Overflow.type = "overflow"
    /\ \A v \in Values : v.type \notin {"failure", "overflow"}
<1>1. Failure.type = "failure" /\ Overflow.type = "overflow"
  BY DEF Failure, Overflow
<1>2. \A v \in Values : v.type \notin {"failure", "overflow"}
  BY ValueShapes
<1> QED
  BY <1>1, <1>2

\* A result of the type asked for, or a failure.
Gives(result, type) ==
    \/ result = Failure
    \/ result \in Values /\ result.type = type

LEMMA StringCast ==
    ASSUME NEW v \in Values, v.type \in Scalars
    PROVE  CastToString(v) \in Values /\ CastToString(v).type = "string"
<1>1. CASE v.type = "integer"
  BY <1>1, ValueShapes, TextIsValue DEF CastToString, IntegerTexts
<1>2. CASE v.type = "number"
  <2>1. CASE Finite(v)
    <3>1. v.of \in FiniteHalves
      BY <1>2, <2>1 DEF Finite
    <3>2. CastToString(v) = Text("decimal", v.of)
      BY <1>2, <2>1 DEF CastToString
    <3> QED
      BY <3>1, <3>2, TextIsValue
  <2>2. CASE ~ Finite(v)
    <3>1. CastToString(v) = Text("nonfinite", 0)
      BY <1>2, <2>2 DEF CastToString
    <3> QED
      BY <3>1, TextIsValue DEF OtherTexts
  <2> QED
    BY <2>1, <2>2
<1>3. CASE v.type = "boolean"
  <2>1. CastToString(v) = Text(IF v.of = 1 THEN "true" ELSE "false", 0)
    BY <1>3 DEF CastToString
  <2> QED
    BY <2>1, TextIsValue DEF OtherTexts
<1>4. CASE v.type = "string"
  BY <1>4 DEF CastToString
<1> QED
  BY <1>1, <1>2, <1>3, <1>4 DEF Scalars

LEMMA IntegerCast ==
    ASSUME NEW v \in Values
    PROVE  /\ Gives(CastToInteger(v), "integer")
           /\ v.type = "boolean" => CastToInteger(v) = Failure
<1>1. CASE v.type = "integer"
  BY <1>1, ValueShapes DEF CastToInteger, Gives
<1>2. CASE v.type = "number" /\ Finite(v) /\ v.of % 2 = 0
  <2>1. v.of \div 2 \in Int
    BY <1>2, FloatAssumption DEF Finite, FiniteHalves
  <2>2. CastToInteger(v) = Int_(v.of \div 2)
    BY <1>2 DEF CastToInteger
  <2> QED
    BY <1>2, <2>1, <2>2, IntegerIsValue DEF Gives
<1>3. CASE v.type = "string" /\ v.text \in {"integer", "padded"}
  <2>1. v.of \in Int
    BY <1>3, ValueShapes DEF OtherTexts
  <2>2. CastToInteger(v) = Int_(v.of)
    BY <1>3 DEF CastToInteger
  <2> QED
    BY <1>3, <2>1, <2>2, IntegerIsValue DEF Gives
<1>4. CASE /\ v.type # "integer"
           /\ ~ (v.type = "number" /\ Finite(v) /\ v.of % 2 = 0)
           /\ ~ (v.type = "string" /\ v.text \in {"integer", "padded"})
  BY <1>4 DEF CastToInteger, Gives
<1> QED
  BY <1>1, <1>2, <1>3, <1>4

\* An integer in the range of the floats, in halves.
LEMMA DoubleInRange ==
    ASSUME NEW n \in Int, InFloatRange(n)
    PROVE  2 * n \in FiniteHalves
  BY FloatAssumption DEF InFloatRange, FiniteHalves

LEMMA FloatCast ==
    ASSUME NEW v \in Values
    PROVE  /\ Gives(CastToFloat(v), "number")
           /\ v.type = "boolean" => CastToFloat(v) = Failure
<1>1. CASE v.type = "number" /\ Finite(v)
  BY <1>1 DEF CastToFloat, Gives
<1>2. CASE v.type = "integer" /\ InFloatRange(v.of)
  <2>1. CastToFloat(v) = Float(2 * v.of)
    BY <1>2 DEF CastToFloat
  <2>2. 2 * v.of \in FiniteHalves
    BY <1>2, ValueShapes, DoubleInRange
  <2> QED
    BY <1>2, <2>1, <2>2, FloatIsValue DEF Gives
<1>3. CASE v.type = "string" /\ v.text \in {"integer", "padded", "loose"} /\ InFloatRange(v.of)
  <2>1. CastToFloat(v) = Float(2 * v.of)
    BY <1>3 DEF CastToFloat
  <2>2. v.of \in Int
    BY <1>3, ValueShapes DEF OtherTexts
  <2>3. 2 * v.of \in FiniteHalves
    BY <1>3, <2>2, DoubleInRange
  <2> QED
    BY <1>3, <2>1, <2>3, FloatIsValue DEF Gives
<1>4. CASE v.type = "string" /\ v.text = "decimal"
  <2>1. CastToFloat(v) = Float(v.of)
    BY <1>4 DEF CastToFloat
  <2>2. v.of \in FiniteHalves
    BY <1>4, ValueShapes DEF IntegerTexts, OtherTexts
  <2> QED
    BY <1>4, <2>1, <2>2, FloatIsValue DEF Gives
<1>5. CASE /\ ~ (v.type = "number" /\ Finite(v))
           /\ ~ (v.type = "integer" /\ InFloatRange(v.of))
           /\ ~ (v.type = "string" /\ v.text \in {"integer", "padded", "loose"} /\ InFloatRange(v.of))
           /\ ~ (v.type = "string" /\ v.text = "decimal")
  BY <1>5 DEF CastToFloat, Gives
<1> QED
  BY <1>1, <1>2, <1>3, <1>4, <1>5

LEMMA BooleanCast ==
    ASSUME NEW v \in Values
    PROVE  Gives(CastToBoolean(v), "boolean")
<1>1. CASE v.type = "boolean"
  BY <1>1 DEF CastToBoolean, Gives, Int_, Float
<1>2. CASE v.type # "boolean"
  <2>1. CastToBoolean(v) \in {Bool(0), Bool(1), Failure}
    BY <1>2 DEF CastToBoolean
  <2> QED
    BY <2>1, BoolIsValue DEF Gives
<1> QED
  BY <1>1, <1>2

\* A cast gives a value of its type or fails; it fails on what is no scalar, and on
\* a boolean that is to be a number (casting.py:24-49, 73-98).
LEMMA CastGives ==
    ASSUME NEW v \in Values, NEW type \in Scalars
    PROVE  /\ Gives(Cast(v, type), type)
           /\ v.type \notin Scalars => Cast(v, type) = Failure
           /\ v.type = "boolean" /\ type \in {"integer", "number"} => Cast(v, type) = Failure
<1>1. CASE v.type \notin Scalars
  BY <1>1 DEF Cast, Gives, Scalars
<1>2. CASE v.type \in Scalars /\ type = "string"
  BY <1>2, StringCast DEF Cast, Gives
<1>3. CASE v.type \in Scalars /\ type = "integer"
  BY <1>3, IntegerCast DEF Cast
<1>4. CASE v.type \in Scalars /\ type = "number"
  BY <1>4, FloatCast DEF Cast
<1>5. CASE v.type \in Scalars /\ type = "boolean"
  BY <1>5, BooleanCast DEF Cast
<1> QED
  BY <1>1, <1>2, <1>3, <1>4, <1>5 DEF Scalars

\* A value written as text and cast back is the same value: an integer of any size,
\* a finite float, a boolean, a text.
LEMMA CastOfText ==
    ASSUME NEW v \in Values, v.type \in Scalars, v.type = "number" => Finite(v)
    PROVE  Cast(Cast(v, "string"), v.type) = v
<1>1. CASE v.type = "integer"
  <2>1. Cast(v, "string") = Text("integer", v.of) /\ v.of \in Int /\ v = Int_(v.of)
    BY <1>1, ValueShapes DEF Cast, CastToString, Scalars
  <2>2. /\ Text("integer", v.of).type = "string" /\ Text("integer", v.of).text = "integer"
        /\ Text("integer", v.of).of = v.of
    BY DEF Text
  <2>3. Cast(Text("integer", v.of), "integer") = Int_(v.of)
    BY <2>2 DEF Cast, CastToInteger, Scalars
  <2> QED
    BY <1>1, <2>1, <2>3
<1>2. CASE v.type = "number"
  <2>1. Cast(v, "string") = Text("decimal", v.of) /\ v = Float(v.of)
    BY <1>2, ValueShapes DEF Cast, CastToString, Scalars
  <2>2. Text("decimal", v.of).type = "string" /\ Text("decimal", v.of).text = "decimal"
        /\ Text("decimal", v.of).of = v.of
    BY DEF Text
  <2>3. Cast(Text("decimal", v.of), "number") = Float(v.of)
    BY <2>2 DEF Cast, CastToFloat, Scalars
  <2> QED
    BY <1>2, <2>1, <2>3
<1>3. CASE v.type = "boolean"
  <2>1. v.of \in {0, 1} /\ v = Bool(v.of)
    BY <1>3, ValueShapes
  <2>2. Cast(v, "string") = Text(IF v.of = 1 THEN "true" ELSE "false", 0)
    BY <1>3 DEF Cast, CastToString, Scalars
  <2>3. \A kind : Text(kind, 0).type = "string" /\ Text(kind, 0).text = kind
    BY DEF Text
  <2>4. /\ Cast(Text("true", 0), "boolean") = Bool(1)
        /\ Cast(Text("false", 0), "boolean") = Bool(0)
    BY <2>3 DEF Cast, CastToBoolean, Scalars, Int_, Float, Text
  <2> QED
    BY <1>3, <2>1, <2>2, <2>4
<1>4. CASE v.type = "string"
  BY <1>4 DEF Cast, CastToString, Scalars
<1> QED
  BY <1>1, <1>2, <1>3, <1>4 DEF Scalars

\* A factor is a number of JSON.
LEMMA FactorShapes ==
    ASSUME NEW by \in Factors
    PROVE  by.type \in {"integer", "number"} /\ by.of \in Int
<1>1. CASE by \in [type : {"integer"}, of : Int]
  BY <1>1
<1>2. CASE by \in [type : {"number"}, of : {2 * n : n \in (-FloatMax)..FloatMax}]
  <2>1. by.type = "number" /\ by.of \in {2 * n : n \in (-FloatMax)..FloatMax}
    BY <1>2
  <2> QED
    BY <2>1, FloatAssumption
<1> QED
  BY <1>1, <1>2 DEF Factors

\* A number of JSON, in halves.
LEMMA HalvesAreNumbers ==
    ASSUME NEW v \in Values \cup Factors, v.type \in {"integer", "number"}
    PROVE  Halves(v) \in Int
<1>1. v.of \in Int
  <2>1. CASE v \in Factors
    BY <2>1, FactorShapes
  <2>2. CASE v \in Values
    BY <2>2, ValueShapes, FloatAssumption DEF FiniteHalves, Infinity, NaN
  <2> QED
    BY <2>1, <2>2
<1> QED
  BY <1>1 DEF Halves

\* The product of two floats is a float: finite, infinite or no number.
LEMMA ProductIsFloat ==
    ASSUME NEW a \in Int, NEW b \in Int
    PROVE  FloatProduct(a, b) \in FiniteHalves \cup {Infinity, -Infinity, NaN}
<1>1. (a * b) \div 2 \in Int
  <2>1. \A n \in Int : n \div 2 \in Int
    OBVIOUS
  <2>2. a * b \in Int
    OBVIOUS
  <2> QED
    BY <2>1, <2>2
<1>2. \A n \in Int : Clamp(n) \in FiniteHalves \cup {Infinity, -Infinity}
  BY FloatAssumption DEF Clamp, FiniteHalves
<1>3. Clamp((a * b) \div 2) \in FiniteHalves \cup {Infinity, -Infinity}
  BY <1>1, <1>2
<1> QED
  BY <1>3, Zenon DEF FloatProduct

\* A product is an integer of integers and a float otherwise, if the factors fit
\* the floats; what is no number cannot be multiplied (mapping_engine.py:192-205).
LEMMA MultiplyGives ==
    ASSUME NEW v \in Values, NEW by \in Factors
    PROVE  /\ v.type \notin {"integer", "number"} => Multiply(v, by) = Failure
           /\ \/ Multiply(v, by) \in {Failure, Overflow}
              \/ /\ v.type = "integer" /\ by.type = "integer"
                 /\ Gives(Multiply(v, by), "integer")
              \/ /\ v.type \in {"integer", "number"}
                 /\ "number" \in {v.type, by.type}
                 /\ Gives(Multiply(v, by), "number")
<1>1. CASE v.type \notin {"integer", "number"}
  BY <1>1 DEF Multiply
<1>2. CASE v.type = "integer" /\ by.type = "integer"
  <2>1. Multiply(v, by) = Int_(v.of * by.of)
    BY <1>2 DEF Multiply
  <2>2. v.of \in Int /\ by.of \in Int
    BY <1>2, ValueShapes, FactorShapes
  <2>3. v.of * by.of \in Int
    BY <2>2
  <2> QED
    BY <1>2, <2>1, <2>3, IntegerIsValue DEF Gives
<1>3. CASE v.type \in {"integer", "number"} /\ ~ (v.type = "integer" /\ by.type = "integer")
  <2>1. \/ Multiply(v, by) = Overflow
        \/ Multiply(v, by) = Float(FloatProduct(Halves(v), Halves(by)))
    BY <1>3 DEF Multiply
  <2>2. Halves(v) \in Int /\ Halves(by) \in Int
    BY <1>3, HalvesAreNumbers, FactorShapes
  <2>3. Gives(Float(FloatProduct(Halves(v), Halves(by))), "number")
    BY <2>2, ProductIsFloat, FloatIsValue DEF Gives
  <2>4. "number" \in {v.type, by.type}
    BY <1>3, FactorShapes
  <2> QED
    BY <1>3, <2>1, <2>3, <2>4
<1> QED
  BY <1>1, <1>2, <1>3

\* An operation fails, overflows, or gives a value of the type that the type of its
\* operand says; where the types say that it fails, it does.
LEMMA ApplyGives ==
    ASSUME NEW v \in Values, NEW op \in MappingOperations
    PROVE  \/ Apply(op, v) \in {Failure, Overflow}
           \/ /\ Apply(op, v) \in Values
              /\ Apply(op, v).type = ResultType(v.type, op)
              /\ ResultType(v.type, op) \in Scalars
<1>1. CASE op \in [operation : {"cast"}, to : Scalars]
  <2>1. op.operation = "cast" /\ op.to \in Scalars
    BY <1>1
  <2>2. Apply(op, v) = Cast(v, op.to)
    BY <2>1 DEF Apply
  <2>3. /\ Gives(Cast(v, op.to), op.to)
        /\ v.type \notin Scalars => Cast(v, op.to) = Failure
        /\ v.type = "boolean" /\ op.to \in {"integer", "number"} => Cast(v, op.to) = Failure
    BY <2>1, CastGives
  <2> QED
    BY <2>1, <2>2, <2>3 DEF ResultType, Gives
<1>2. CASE op \in [operation : {"multiply"}, by : Factors]
  <2>1. op.operation = "multiply" /\ op.by \in Factors
    BY <1>2
  <2>2. Apply(op, v) = Multiply(v, op.by)
    BY <2>1 DEF Apply
  <2>3. ResultType(v.type, op) =
            IF v.type \notin {"integer", "number"} THEN "failure"
            ELSE IF "number" \in {v.type, op.by.type} THEN "number" ELSE "integer"
    BY <2>1 DEF ResultType
  <2> QED
    BY <2>1, <2>2, <2>3, MultiplyGives DEF Gives, Scalars
<1> QED
  BY <1>1, <1>2 DEF MappingOperations

--------------------------------------------------------------------------------
(***************************************************************************)
(* The steps of apply_mapping and of save.                                 *)
(***************************************************************************)
LEMMA ElementOfSeq ==
    ASSUME NEW S, NEW s \in Seq(S), NEW i \in 1..Len(s)
    PROVE  s[i] \in S
  OBVIOUS

\* What the models of a mapping and of an event say of them.
LEMMA MappingShape ==
    ASSUME InputsAreFixed
    PROVE  /\ Len(mapping.fields) \in Nat
           /\ Fields = 1..Len(mapping.fields)
           /\ \A i \in Fields : mapping.fields[i].ops \in Seq(MappingOperations)
           /\ \A k \in DOMAIN payload : payload[k] \in Values
<1>1. mapping.fields \in Seq(FieldMappings) /\ \A k \in DOMAIN payload : payload[k] \in Values
  BY ApplyAssumption DEF InputsAreFixed, IsRuntimeMapping
<1>2. Len(mapping.fields) \in Nat /\ Fields = 1..Len(mapping.fields)
  BY <1>1 DEF Fields
<1>3. \A i \in Fields : mapping.fields[i] \in FieldMappings
  BY <1>1, <1>2, ElementOfSeq
<1> QED
  BY <1>1, <1>2, <1>3 DEF FieldMappings

LEMMA InitApplies == Init => ApplyInv
<1> SUFFICES ASSUME Init PROVE ApplyInv
  OBVIOUS
<1>1. /\ mapping \in Mappings /\ payload \in Payloads /\ field = 1 /\ done = 0
      /\ value = NullValue /\ normalized = mapping.static /\ status = "check"
  BY DEF Init
<1>2. Len(mapping.fields) \in Nat /\ mapping.static \in [DOMAIN mapping.static -> Values]
  BY <1>1, ApplyAssumption DEF IsRuntimeMapping
<1>3. NullValue \in Values
  BY DEF NullValue, Values
<1>4. TypeOK
  BY <1>1, <1>2, <1>3 DEF TypeOK
<1>5. ResultIsPartial
  BY <1>1 DEF ResultIsPartial
<1> QED
  BY <1>1, <1>4, <1>5 DEF ApplyInv, TypesFollowStructure

\* The targets are checked before anything is computed.
LEMMA CheckTargetsKeeps ==
    ASSUME InputsAreFixed, ApplyInv, CheckTargets
    PROVE  ApplyInv'
<1>1. /\ status' \in {"invalid", "copy"} /\ status = "check"
      /\ UNCHANGED <<payload, mapping, field, done, value, normalized>>
  BY DEF CheckTargets
<1>2. TypeOK' /\ ResultIsPartial'
  BY <1>1 DEF ApplyInv, TypeOK, Ends, ResultIsPartial
<1>3. status' # "invalid" => Protected \cap (Targets \cup DOMAIN mapping.static) = {}
  BY DEF CheckTargets
<1> QED
  BY <1>1, <1>2, <1>3 DEF ApplyInv, TypesFollowStructure, Targets, Fields

\* A copied value has the type of the payload's value, by definition.
LEMMA CopyKeeps ==
    ASSUME InputsAreFixed, ApplyInv, Copy
    PROVE  ApplyInv'
<1>1. /\ status = "copy" /\ field \in Fields /\ done' = 0
      /\ UNCHANGED <<payload, mapping, field, normalized>>
  BY DEF Copy
<1>2. TypeOK
  BY DEF ApplyInv
<1>3. CASE status' = "invalid"
  <2>1. TypeOK'
    BY <1>1, <1>2, <1>3 DEF TypeOK, Ends
  <2> QED
    BY <1>1, <1>3, <2>1 DEF ApplyInv, ResultIsPartial, TypesFollowStructure
<1>4. CASE /\ mapping.fields[field].path \in DOMAIN payload
           /\ value' = payload[mapping.fields[field].path]
           /\ status' = "operate"
  <2>1. value' \in Values
    BY <1>2, <1>4, MappingShape
  <2>2. TypeOK'
    BY <1>1, <1>4, <2>1 DEF ApplyInv, TypeOK
  <2>3. 0 <= Len(mapping.fields[field].ops)
    BY <1>1, <1>2, MappingShape
  <2>4. TypesFollowStructure'
    <3> DEFINE results == [i \in 1..0 |-> "string"]
    <3>1. results \in [1..done' -> Scalars] /\ 1..done' = {}
      BY <1>1
    <3> QED
      BY <1>1, <1>4, <3>1 DEF TypesFollowStructure
  <2> QED
    BY <1>1, <1>4, <2>2, <2>3, <2>4 DEF Targets, ApplyInv, ResultIsPartial, Fields
<1> QED
  BY <1>3, <1>4 DEF Copy

\* An operation extends the types by one.
LEMMA OperateKeeps ==
    ASSUME InputsAreFixed, ApplyInv, Operate
    PROVE  ApplyInv'
<1> DEFINE f == mapping.fields[field]
<1>1. /\ status = "operate" /\ done < Len(f.ops) /\ done' = done + 1
      /\ value' = Apply(f.ops[done + 1], value)
      /\ UNCHANGED <<payload, mapping, field, normalized>>
      /\ status' = CASE value'.type = "failure" -> "invalid"
                     [] value'.type = "overflow" -> "raises"
                     [] OTHER -> "operate"
  BY DEF Operate
<1>2. TypeOK /\ field \in Fields /\ f.path \in DOMAIN payload /\ value \in Values /\ done \in Nat
  BY <1>1 DEF ApplyInv, TypeOK
<1>3. f.ops \in Seq(MappingOperations)
  BY <1>2, MappingShape
<1>4. f.ops[done + 1] \in MappingOperations
  BY <1>1, <1>2, <1>3
<1>5. CASE value' \in {Failure, Overflow}
  <2>1. status' \in {"invalid", "raises"}
    BY <1>1, <1>5, ErrorTypes
  <2> QED
    <3>1. TypeOK'
      BY <1>1, <1>2, <2>1 DEF TypeOK, Ends
    <3>2. ResultIsPartial'
      BY <1>1 DEF ApplyInv, ResultIsPartial
    <3>3. Protected \cap (Targets \cup DOMAIN mapping.static) = {}
      BY <1>1 DEF ApplyInv
    <3> QED
      BY <1>1, <2>1, <3>1, <3>2, <3>3 DEF ApplyInv, TypesFollowStructure, Fields, Targets
<1>6. CASE /\ value' \in Values
           /\ value'.type = ResultType(value.type, f.ops[done + 1])
           /\ value'.type \in Scalars
  <2>1. status' = "operate"
    BY <1>1, <1>6, ErrorTypes DEF Scalars
  <2>2. PICK results \in [1..done -> Scalars] :
            LET Type(i) == IF i = 0 THEN payload[f.path].type ELSE results[i] IN
            /\ \A i \in 1..done : Type(i) = ResultType(Type(i - 1), f.ops[i])
            /\ value.type = Type(done)
    BY <1>1 DEF ApplyInv, TypesFollowStructure
  <2> DEFINE longer == [i \in 1..(done + 1) |-> IF i = done + 1 THEN value'.type ELSE results[i]]
             Type(i) == IF i = 0 THEN payload[f.path].type ELSE results[i]
             Longer(i) == IF i = 0 THEN payload[f.path].type ELSE longer[i]
  <2>3. longer \in [1..(done + 1) -> Scalars]
    BY <1>2, <1>6
  <2>4. \A i \in 0..done : Longer(i) = Type(i)
    BY <1>2
  <2>5. Longer(done + 1) = value'.type
    BY <1>2
  <2>6. ASSUME NEW i \in 1..(done + 1)
        PROVE  Longer(i) = ResultType(Longer(i - 1), f.ops[i])
    <3>1. i - 1 \in 0..done /\ Longer(i - 1) = Type(i - 1)
      BY <1>2, <2>4
    <3>2. CASE i = done + 1
      <4>1. Longer(i - 1) = value.type
        BY <1>2, <2>2, <3>1, <3>2
      <4> HIDE DEF Longer
      <4> QED
        BY <1>6, <2>5, <3>2, <4>1
    <3>3. CASE i # done + 1
      BY <1>2, <2>2, <2>4, <3>1, <3>3
    <3> QED
      BY <3>2, <3>3
  <2>7. TypesFollowStructure'
    <3> HIDE DEF longer
    <3> QED
      BY <1>1, <2>3, <2>5, <2>6 DEF TypesFollowStructure
  <2>8. TypeOK'
    BY <1>1, <1>2, <1>6, <2>1 DEF TypeOK
  <2> QED
    BY <1>1, <1>2, <1>3, <2>1, <2>7, <2>8 DEF Targets, ApplyInv, ResultIsPartial, Fields
<1> QED
  BY <1>2, <1>4, <1>1, <1>5, <1>6, ApplyGives

\* An assignment gives its target the value and leaves the rest.
LEMMA AssignKeeps ==
    ASSUME InputsAreFixed, ApplyInv, Assign
    PROVE  ApplyInv'
<1> DEFINE target == mapping.fields[field].target
<1>1. /\ status = "operate" /\ status' = "copy" /\ field' = field + 1
      /\ normalized' = [t \in DOMAIN normalized \cup {target} |->
                            IF t = target THEN value ELSE normalized[t]]
      /\ UNCHANGED <<payload, mapping, done, value>>
  BY DEF Assign
<1>2. TypeOK /\ field \in Fields /\ value \in Values
  BY <1>1 DEF ApplyInv, TypeOK
<1>3. field \in 1..Len(mapping.fields) /\ Len(mapping.fields) \in Nat
  BY <1>2, MappingShape
<1>4. /\ DOMAIN normalized' = DOMAIN normalized \cup {target}
      /\ normalized'[target] = value
      /\ \A t \in DOMAIN normalized \ {target} : normalized'[t] = normalized[t]
  BY <1>1
<1>5. normalized' \in [DOMAIN normalized' -> Values]
  BY <1>1, <1>2, <1>4 DEF TypeOK
<1>6. TypeOK'
  BY <1>1, <1>2, <1>3, <1>5 DEF TypeOK
<1>7. ResultIsPartial'
  <2>1. 1..(field' - 1) = (1..(field - 1)) \cup {field}
    BY <1>1, <1>3
  <2>2. {mapping.fields[i].target : i \in 1..(field' - 1)}
            = {mapping.fields[i].target : i \in 1..(field - 1)} \cup {target}
    BY <2>1
  <2>3. DOMAIN normalized =
            DOMAIN mapping.static \cup {mapping.fields[i].target : i \in 1..(field - 1)}
    BY DEF ApplyInv, ResultIsPartial
  <2>4. DOMAIN normalized' =
            DOMAIN mapping.static \cup {mapping.fields[i].target : i \in 1..(field' - 1)}
    BY <1>4, <2>2, <2>3
  <2> QED
    BY <1>1, <2>4 DEF ResultIsPartial
<1> QED
  BY <1>1, <1>6, <1>7 DEF Fields, Targets, ApplyInv, TypesFollowStructure

\* Only what the schema accepts is handed to save.
LEMMA ValidateKeeps ==
    ASSUME InputsAreFixed, ApplyInv, Validate
    PROVE  ApplyInv'
<1>1. /\ status = "copy" /\ field \notin Fields /\ status' \in {"save", "invalid"}
      /\ UNCHANGED <<payload, mapping, field, done, value, normalized>>
      /\ status' = "save" =>
             /\ DOMAIN normalized \subseteq DOMAIN Kind
             /\ \A t \in DOMAIN normalized : SchemaAccepts(Kind[t], normalized[t])
  BY DEF Validate, IsNormalized
<1>2. TypeOK'
  BY <1>1 DEF ApplyInv, TypeOK, Ends
<1> QED
  BY <1>1, <1>2 DEF ApplyInv, ResultIsPartial, TypesFollowStructure, Fields, Targets,
                    SchemaAccepts, Halves

\* Only what the columns accept is stored.
LEMMA SaveKeeps ==
    ASSUME InputsAreFixed, ApplyInv, Save
    PROVE  ApplyInv'
<1>1. /\ status = "save" /\ status' \in {"stored", "refused"}
      /\ UNCHANGED <<payload, mapping, field, done, value, normalized>>
      /\ status' = "stored" =>
             \A t \in DOMAIN normalized : ColumnAccepts(Kind[t], normalized[t])
  BY DEF Save, IsStorable
<1>2. TypeOK'
  BY <1>1 DEF ApplyInv, TypeOK, Ends
<1> QED
  BY <1>1, <1>2 DEF ApplyInv, ResultIsPartial, TypesFollowStructure, Fields, Targets

LEMMA InputsStay == Spec => []InputsAreFixed
<1>1. Init => InputsAreFixed
  BY DEF Init, InputsAreFixed
<1>2. InputsAreFixed /\ [Next]_vars => InputsAreFixed'
  BY DEF InputsAreFixed, Next, CheckTargets, Copy, Operate, Assign, Validate, Save, Finished, vars
<1> QED
  BY <1>1, <1>2, PTL DEF Spec

\* The inductive invariant holds in every behaviour.
THEOREM ApplyIsInvariant == Spec => []ApplyInv
<1>1. Init => ApplyInv
  BY InitApplies
<1>2. InputsAreFixed /\ ApplyInv /\ [Next]_vars => ApplyInv'
  <2> SUFFICES ASSUME InputsAreFixed, ApplyInv, [Next]_vars PROVE ApplyInv'
    OBVIOUS
  <2>1. CASE UNCHANGED vars
    BY <2>1 DEF vars, ApplyInv, TypeOK, ResultIsPartial, TypesFollowStructure, Fields, Targets
  <2> QED
    BY <2>1, CheckTargetsKeeps, CopyKeeps, OperateKeeps, AssignKeeps, ValidateKeeps,
       SaveKeeps DEF Next, Finished
<1> QED
  BY <1>1, <1>2, InputsStay, PTL DEF Spec

\* The engine computes with JSON values only: whatever the payload and the
\* operations, no failure and no overflow is taken for a value.
THEOREM EngineTypes == Spec => []TypeOK
<1>1. ApplyInv => TypeOK
  BY DEF ApplyInv
<1> QED
  BY <1>1, ApplyIsInvariant, PTL

\* The type of every result follows from the types of the payload.
THEOREM StructureGivesTypes == Spec => []TypesFollowStructure
<1>1. ApplyInv => TypesFollowStructure
  BY DEF ApplyInv
<1> QED
  BY <1>1, ApplyIsInvariant, PTL

\* No value at work is changed by going through its text.
THEOREM TextLosesNothing == Spec => []TextRoundTrip
<1>1. TypeOK => TextRoundTrip
  <2> SUFFICES ASSUME TypeOK, status = "operate", value.type \in Scalars,
                      value.type = "number" => Finite(value)
               PROVE  Cast(Cast(value, "string"), value.type) = value
    BY DEF TextRoundTrip
  <2>1. value \in Values
    BY DEF TypeOK
  <2> QED
    BY <2>1, CastOfText
<1> QED
  BY <1>1, EngineTypes, PTL

\* A property that the schema and the converters accept is clean.
LEMMA AcceptedIsClean ==
    ASSUME NEW kind \in Kinds, NEW v \in Values,
           SchemaAccepts(kind, v), ColumnAccepts(kind, v)
    PROVE  /\ kind = "amount" /\ v # NullValue =>
                  Finite(v) /\ Halves(v) \in 0..(2 * ColumnMax - 1)
           /\ kind = "time" /\ v # NullValue => v.text = "instant"
           /\ kind \in {"required", "label"} => v.type = "string"
           /\ kind = "required" => v.text # "blank"
<1>1. CASE kind = "amount" /\ v # NullValue
  <2>1. v.type \in {"integer", "number"} /\ v.of >= 0 /\ Finite(v) /\ Halves(v) < 2 * ColumnMax
    BY <1>1 DEF SchemaAccepts, ColumnAccepts
  <2>2. Halves(v) \in Int /\ v.of \in Int
    BY <2>1, HalvesAreNumbers, ValueShapes, FloatAssumption DEF FiniteHalves, Infinity, NaN
  <2>3. Halves(v) >= 0
    BY <2>1, <2>2 DEF Halves
  <2> QED
    BY <1>1, <2>1, <2>2, <2>3, ApplyAssumption
<1>2. CASE kind = "time"
  BY <1>2 DEF ColumnAccepts
<1>3. CASE kind = "required"
  BY <1>3 DEF SchemaAccepts, ColumnAccepts
<1>4. CASE kind = "label"
  BY <1>4 DEF SchemaAccepts
<1> QED
  BY <1>1, <1>2, <1>3, <1>4 DEF Kinds

\* Every row in the table is clean, for every schema of these kinds, every mapping
\* and every payload.
THEOREM StoredRowsAreClean == Spec => []RowsAreClean
<1>1. ApplyInv => RowsAreClean
  <2> SUFFICES ASSUME ApplyInv, status = "stored", NEW t \in DOMAIN normalized
               PROVE  LET v == normalized[t] IN
                      /\ Kind[t] = "amount" /\ v # NullValue =>
                             Finite(v) /\ Halves(v) \in 0..(2 * ColumnMax - 1)
                      /\ Kind[t] = "time" /\ v # NullValue => v.text = "instant"
                      /\ Kind[t] \in {"required", "label"} => v.type = "string"
                      /\ Kind[t] = "required" => v.text # "blank"
    BY DEF RowsAreClean
  <2>1. normalized[t] \in Values /\ Kind[t] \in Kinds
    BY ApplyAssumption DEF ApplyInv, TypeOK
  <2>2. SchemaAccepts(Kind[t], normalized[t]) /\ ColumnAccepts(Kind[t], normalized[t])
    BY DEF ApplyInv
  <2> QED
    BY <2>1, <2>2, AcceptedIsClean
<1> QED
  BY <1>1, ApplyIsInvariant, PTL

\* A stored row is the whole mapping's work, and nothing of the event's identity.
THEOREM StoredRowsAreComplete == Spec => []RowIsComplete
<1>1. InputsAreFixed /\ ApplyInv => RowIsComplete
  <2> SUFFICES ASSUME InputsAreFixed, ApplyInv, status \in {"save", "stored"}
               PROVE  /\ DOMAIN normalized = DOMAIN mapping.static \cup Targets
                      /\ DOMAIN normalized \cap Protected = {}
    BY DEF RowIsComplete
  <2>1. field = Len(mapping.fields) + 1 /\ Fields = 1..Len(mapping.fields)
    BY MappingShape DEF ApplyInv, TypeOK, Fields
  <2>2. 1..(field - 1) = Fields
    BY <2>1, MappingShape DEF ApplyInv
  <2>3. DOMAIN normalized = DOMAIN mapping.static \cup Targets
    BY <2>2 DEF ApplyInv, ResultIsPartial, Targets
  <2>4. Protected \cap (Targets \cup DOMAIN mapping.static) = {}
    BY DEF ApplyInv
  <2> QED
    BY <2>3, <2>4
<1> QED
  BY <1>1, ApplyIsInvariant, InputsStay, PTL

--------------------------------------------------------------------------------
(***************************************************************************)
(* The steps compute a function of the payload and the mapping.            *)
(***************************************************************************)
\* Induction: any set of numbers has a least one.
LEMMA NumbersAreOrdered ==
    \E R : IsWellFoundedOn(R, Nat) /\ \A m, k \in Nat : k < m => <<k, m>> \in R
<1>1. \A m, k \in Nat : k < m => <<k, m>> \in OpToRel(<, Nat)
  BY DEF OpToRel
<1> QED
  BY <1>1, NatLessThanWellFounded, Zenon

LEMMA LeastNumber ==
    ASSUME NEW T \in SUBSET Nat, T # {}
    PROVE  \E m \in T : \A k \in T : m <= k
<1>1. PICK R : IsWellFoundedOn(R, Nat) /\ \A m, k \in Nat : k < m => <<k, m>> \in R
  BY NumbersAreOrdered
<1>2. PICK m \in T : \A k \in T : ~ (<<k, m>> \in R)
  BY <1>1, WFMin
<1>3. \A k \in T : ~ (k < m)
  BY <1>1, <1>2, Zenon
<1> QED
  BY <1>3

\* The recursion over the operations of a field has a solution.
Solves(g, p, f, l) ==
    g = [n \in 0..l |-> IF n = 0 THEN p[f.path] ELSE Apply(f.ops[n], g[n - 1])]

LEMMA ResultsExist ==
    ASSUME NEW f, NEW p, NEW l \in Nat
    PROVE  \E g : Solves(g, p, f, l)
<1> DEFINE Unsolved == {k \in Nat : ~ \E g : Solves(g, p, f, k)}
<1> SUFFICES ASSUME Unsolved # {}
             PROVE  FALSE
  OBVIOUS
<1>1. PICK k \in Unsolved : \A j \in Unsolved : k <= j
  <2> Unsolved \in SUBSET Nat
    OBVIOUS
  <2> HIDE DEF Unsolved
  <2> QED
    BY LeastNumber
<1>2. CASE k = 0
  <2>1. Solves([n \in 0..0 |-> p[f.path]], p, f, 0)
    BY DEF Solves
  <2> QED
    BY <1>2, <2>1
<1>3. CASE k # 0
  <2>1. k - 1 \in Nat /\ k - 1 \notin Unsolved
    <3>1. k \in Nat
      OBVIOUS
    <3> HIDE DEF Unsolved
    <3> QED
      BY <1>1, <1>3, <3>1
  <2>2. PICK g : Solves(g, p, f, k - 1)
    BY <2>1
  <2> DEFINE longer == [n \in 0..k |-> IF n = k THEN Apply(f.ops[k], g[k - 1]) ELSE g[n]]
  <2>3. \A n \in 0..(k - 1) : longer[n] = g[n]
    BY <1>3
  <2>4. \A n \in 0..(k - 1) :
            g[n] = IF n = 0 THEN p[f.path] ELSE Apply(f.ops[n], g[n - 1])
    BY <2>2 DEF Solves
  <2>5. ASSUME NEW n \in 0..k
        PROVE  longer[n] = IF n = 0 THEN p[f.path] ELSE Apply(f.ops[n], longer[n - 1])
    <3>1. n # 0 => n - 1 \in 0..(k - 1) /\ longer[n - 1] = g[n - 1]
      BY <1>1, <2>3
    <3>2. CASE n = k
      BY <1>3, <3>1, <3>2
    <3>3. CASE n # k
      <4>1. n \in 0..(k - 1) /\ longer[n] = g[n]
        BY <1>1, <2>3, <3>3
      <4> HIDE DEF longer
      <4> QED
        BY <2>4, <3>1, <4>1
    <3> QED
      BY <3>2, <3>3
  <2>6. longer =
            [n \in 0..k |-> IF n = 0 THEN p[f.path] ELSE Apply(f.ops[n], longer[n - 1])]
    <3>1. longer = [n \in 0..k |-> longer[n]]
      OBVIOUS
    <3> HIDE DEF longer
    <3> QED
      BY <2>5, <3>1
  <2> HIDE DEF longer
  <2> QED
    BY <1>1, <2>6 DEF Solves
<1> QED
  BY <1>2, <1>3

LEMMA ResultsOfField ==
    ASSUME NEW f, NEW p, Len(f.ops) \in Nat
    PROVE  /\ Results(p, f)[0] = p[f.path]
           /\ \A n \in 1..Len(f.ops) :
                  Results(p, f)[n] = Apply(f.ops[n], Results(p, f)[n - 1])
<1>1. \E g : Solves(g, p, f, Len(f.ops))
  BY ResultsExist
<1>2. Results(p, f) = CHOOSE g : Solves(g, p, f, Len(f.ops))
  BY DEF Results, Solves
<1>3. Solves(Results(p, f), p, f, Len(f.ops))
  BY <1>1, <1>2, Zenon
<1> DEFINE results == Results(p, f)
<1>4. results = [n \in 0..Len(f.ops) |->
                    IF n = 0 THEN p[f.path] ELSE Apply(f.ops[n], results[n - 1])]
  BY <1>3, Zenon DEF Solves
<1>5. /\ results[0] = p[f.path]
      /\ \A n \in 1..Len(f.ops) : results[n] = Apply(f.ops[n], results[n - 1])
  <2> HIDE DEF results
  <2>1. \A n \in 0..Len(f.ops) :
            results[n] = IF n = 0 THEN p[f.path] ELSE Apply(f.ops[n], results[n - 1])
    BY <1>4
  <2>2. 0 \in 0..Len(f.ops) /\ \A n \in 1..Len(f.ops) : n \in 0..Len(f.ops) /\ n # 0
    OBVIOUS
  <2> QED
    BY <2>1, <2>2, Zenon
<1> QED
  BY <1>5, Zenon

LEMMA FirstIsLeast ==
    ASSUME NEW S \in SUBSET Nat, NEW i \in S, \A j \in S : i <= j
    PROVE  First(S) = i
<1>1. First(S) \in S /\ \A j \in S : First(S) <= j
  BY DEF First
<1>2. First(S) \in Nat /\ i \in Nat /\ First(S) <= i /\ i <= First(S)
  BY <1>1
<1> QED
  BY <1>2

\* How a field ends, from its results.
LEMMA FieldSucceeds ==
    ASSUME NEW f, NEW p, f.path \in DOMAIN p, Len(f.ops) \in Nat,
           \A n \in 0..Len(f.ops) : Results(p, f)[n] \notin {Failure, Overflow}
    PROVE  FieldEnd(p, f) = "ok"
<1>1. {n \in 0..Len(f.ops) : Results(p, f)[n] \in {Failure, Overflow}} = {}
  OBVIOUS
<1> QED
  BY <1>1, Zenon DEF FieldEnd

LEMMA FieldFails ==
    ASSUME NEW f, NEW p, f.path \in DOMAIN p, Len(f.ops) \in Nat,
           NEW k \in 0..Len(f.ops), Results(p, f)[k] \in {Failure, Overflow},
           \A n \in 0..(k - 1) : Results(p, f)[n] \notin {Failure, Overflow}
    PROVE  FieldEnd(p, f) = IF Results(p, f)[k] = Failure THEN "invalid" ELSE "raises"
<1> DEFINE failing == {n \in 0..Len(f.ops) : Results(p, f)[n] \in {Failure, Overflow}}
<1>1. k \in failing /\ \A n \in failing : k <= n
  OBVIOUS
<1>2. First(failing) = k
  <2>1. failing \in SUBSET Nat
    OBVIOUS
  <2> HIDE DEF failing
  <2> QED
    BY <1>1, <2>1, FirstIsLeast
<1>3. failing # {}
  BY <1>1
<1>4. FieldEnd(p, f) = IF failing = {} THEN "ok"
                       ELSE IF Results(p, f)[First(failing)] = Failure THEN "invalid" ELSE "raises"
  BY Zenon DEF FieldEnd
<1> HIDE DEF failing
<1> QED
  BY <1>2, <1>3, <1>4

--------------------------------------------------------------------------------
\* A field at work that fails decides how the event ends: those before it did not.
LEMMA FailingFieldDecides ==
    ASSUME InputsAreFixed, ApplyInv, ComputedSoFar, status \in {"copy", "operate"},
           field \in Fields, FieldEnd(payload, mapping.fields[field]) # "ok"
    PROVE  Outcome(payload, mapping) = FieldEnd(payload, mapping.fields[field])
<1> DEFINE failing == {i \in DOMAIN mapping.fields : FieldEnd(payload, mapping.fields[i]) # "ok"}
           targets == {mapping.fields[i].target : i \in DOMAIN mapping.fields}
           row == RowOf(payload, mapping)
<1>1. Fields = DOMAIN mapping.fields /\ Fields \in SUBSET Nat
  BY MappingShape DEF Fields
<1>2. field \in failing /\ \A i \in failing : field <= i
  <2>1. field \in failing
    BY <1>1
  <2>2. ASSUME NEW i \in failing, i < field
        PROVE  FALSE
    <3>1. i \in 1..(field - 1)
      BY <1>1, <2>2, MappingShape
    <3> QED
      BY <3>1 DEF ComputedSoFar
  <2>3. \A i \in failing : i \in Nat
    BY <1>1
  <2> QED
    BY <1>1, <2>1, <2>2, <2>3
<1>3. First(failing) = field /\ failing # {}
  <2>1. failing \in SUBSET Nat
    BY <1>1
  <2> HIDE DEF failing
  <2> QED
    BY <1>2, <2>1, FirstIsLeast
<1>4. Protected \cap (targets \cup DOMAIN mapping.static) = {}
  BY DEF ApplyInv, Targets, Fields
<1>5. Outcome(payload, mapping) =
          IF Protected \cap (targets \cup DOMAIN mapping.static) # {} THEN "invalid"
          ELSE IF failing # {} THEN FieldEnd(payload, mapping.fields[First(failing)])
          ELSE IF ~ IsNormalized(row) THEN "invalid"
          ELSE IF ~ IsStorable(row, payload) THEN "refused" ELSE "stored"
  BY Zenon DEF Outcome
<1> HIDE DEF failing, targets, row
<1> QED
  BY <1>3, <1>4, <1>5

\* With all fields done the result is the row of the function, and no field failed.
LEMMA FinishedRow ==
    ASSUME InputsAreFixed, ApplyInv, ComputedSoFar, status \in {"copy", "save"},
           field \notin Fields
    PROVE  /\ normalized = RowOf(payload, mapping)
           /\ Outcome(payload, mapping) =
                  IF ~ IsNormalized(normalized) THEN "invalid"
                  ELSE IF ~ IsStorable(normalized, payload) THEN "refused" ELSE "stored"
<1> DEFINE failing == {i \in DOMAIN mapping.fields : FieldEnd(payload, mapping.fields[i]) # "ok"}
           targets == {mapping.fields[i].target : i \in DOMAIN mapping.fields}
           row == RowOf(payload, mapping)
           FieldOf(t) == mapping.fields[CHOOSE i \in DOMAIN mapping.fields :
                                            mapping.fields[i].target = t]
           Entry(t) == IF t \in DOMAIN mapping.static THEN mapping.static[t]
                       ELSE Results(payload, FieldOf(t))[Len(FieldOf(t).ops)]
<1>1. /\ Fields = DOMAIN mapping.fields /\ Fields = 1..Len(mapping.fields)
      /\ Len(mapping.fields) \in Nat
  BY MappingShape DEF Fields
<1>2. 1..(field - 1) = Fields
  BY <1>1 DEF ApplyInv, TypeOK
<1>3. \A i \in Fields : /\ FieldEnd(payload, mapping.fields[i]) = "ok"
                        /\ normalized[mapping.fields[i].target] =
                               Results(payload, mapping.fields[i])[Len(mapping.fields[i].ops)]
  BY <1>2 DEF ComputedSoFar
<1>4. /\ normalized = [t \in DOMAIN normalized |-> normalized[t]]
      /\ DOMAIN normalized = DOMAIN mapping.static \cup targets
  <2>1. normalized = [t \in DOMAIN normalized |-> normalized[t]]
    BY DEF ApplyInv, TypeOK
  <2>2. DOMAIN normalized =
            DOMAIN mapping.static \cup {mapping.fields[i].target : i \in 1..(field - 1)}
    BY DEF ApplyInv, ResultIsPartial
  <2> QED
    BY <1>1, <1>2, <2>1, <2>2
<1>5. /\ \A i \in Fields : mapping.fields[i].target \notin DOMAIN mapping.static
      /\ \A i, j \in Fields : mapping.fields[i].target = mapping.fields[j].target => i = j
  BY <1>1, ApplyAssumption DEF InputsAreFixed, IsRuntimeMapping
<1>6. ASSUME NEW t \in DOMAIN normalized
      PROVE  normalized[t] = Entry(t)
  <2>1. CASE t \in DOMAIN mapping.static
    BY <2>1 DEF ComputedSoFar
  <2>2. CASE t \notin DOMAIN mapping.static
    <3> DEFINE i == CHOOSE i \in DOMAIN mapping.fields : mapping.fields[i].target = t
    <3>1. i \in DOMAIN mapping.fields /\ mapping.fields[i].target = t
      BY <1>4, <2>2
    <3>2. FieldOf(t) = mapping.fields[i]
      OBVIOUS
    <3> HIDE DEF i, FieldOf
    <3> QED
      BY <1>1, <1>3, <2>2, <3>1, <3>2
  <2> QED
    BY <2>1, <2>2
<1>7. row = [t \in DOMAIN mapping.static \cup targets |-> Entry(t)]
  BY Zenon DEF RowOf
<1>8. normalized = row
  <2> HIDE DEF row, Entry, targets
  <2> QED
    BY <1>4, <1>6, <1>7
<1>9. Protected \cap (targets \cup DOMAIN mapping.static) = {} /\ failing = {}
  BY <1>1, <1>3 DEF ApplyInv, Targets
<1>10. Outcome(payload, mapping) =
          IF Protected \cap (targets \cup DOMAIN mapping.static) # {} THEN "invalid"
          ELSE IF failing # {} THEN FieldEnd(payload, mapping.fields[First(failing)])
          ELSE IF ~ IsNormalized(row) THEN "invalid"
          ELSE IF ~ IsStorable(row, payload) THEN "refused" ELSE "stored"
  BY Zenon DEF Outcome
<1> HIDE DEF failing, targets, row
<1> QED
  BY <1>8, <1>9, <1>10 DEF row

\* The copy gives the first result of its field, or ends the event.
LEMMA CopyComputes ==
    ASSUME InputsAreFixed, ApplyInv, OutcomeInv, Copy
    PROVE  OutcomeInv'
<1> DEFINE f == mapping.fields[field]
<1>1. /\ status = "copy" /\ field \in Fields /\ done' = 0
      /\ UNCHANGED <<payload, mapping, field, normalized>>
  BY DEF Copy
<1>2. ComputedSoFar /\ Len(f.ops) \in Nat /\ \A k \in DOMAIN payload : payload[k] \in Values
  BY <1>1, MappingShape DEF OutcomeInv, Ends
<1>3. CASE f.path \notin DOMAIN payload /\ status' = "invalid"
  <2>1. FieldEnd(payload, f) = "invalid"
    BY <1>3 DEF FieldEnd
  <2>2. Outcome(payload, mapping) = "invalid"
    BY <1>1, <1>2, <2>1, FailingFieldDecides
  <2> QED
    BY <1>1, <1>3, <2>2 DEF OutcomeInv, OutcomeIsFunction, Ends
<1>4. CASE f.path \in DOMAIN payload /\ value' = payload[f.path] /\ status' = "operate"
  <2>1. value' = Results(payload, f)[0]
    BY <1>2, <1>4, ResultsOfField
  <2>2. Results(payload, f)[0] \notin {Failure, Overflow}
    BY <1>2, <1>4, <2>1, ErrorTypes
  <2>3. \A n \in 0..done' : Results(payload, f)[n] \notin {Failure, Overflow}
    BY <1>1, <2>2
  <2>4. ComputedSoFar'
    BY <1>1, <1>2, <2>1, <2>3 DEF ComputedSoFar
  <2> QED
    BY <1>4, <2>4 DEF OutcomeInv, OutcomeIsFunction, Ends
<1> QED
  BY <1>3, <1>4 DEF Copy

\* Each operation gives the next one, or ends the event as the function has it.
LEMMA OperateComputes ==
    ASSUME InputsAreFixed, ApplyInv, OutcomeInv, Operate
    PROVE  OutcomeInv'
<1> DEFINE f == mapping.fields[field]
           results == Results(payload, f)
<1>1. /\ status = "operate" /\ done < Len(f.ops) /\ done' = done + 1
      /\ value' = Apply(f.ops[done + 1], value)
      /\ UNCHANGED <<payload, mapping, field, normalized>>
      /\ status' = CASE value'.type = "failure" -> "invalid"
                     [] value'.type = "overflow" -> "raises"
                     [] OTHER -> "operate"
  BY DEF Operate
<1>2. /\ field \in Fields /\ f.path \in DOMAIN payload /\ value \in Values /\ done \in Nat
      /\ ComputedSoFar
  BY <1>1 DEF ApplyInv, TypeOK, OutcomeInv, Ends
<1>3. f.ops \in Seq(MappingOperations) /\ Len(f.ops) \in Nat
  BY <1>2, MappingShape
<1>4. /\ value = results[done]
      /\ \A n \in 0..done : results[n] \notin {Failure, Overflow}
  BY <1>1, <1>2 DEF ComputedSoFar
<1>5. value' = results[done + 1]
  <2>1. done + 1 \in 1..Len(f.ops) /\ (done + 1) - 1 = done
    BY <1>1, <1>2, <1>3
  <2>2. results[done + 1] = Apply(f.ops[done + 1], results[(done + 1) - 1])
    BY <1>3, <2>1, ResultsOfField, Zenon
  <2> QED
    BY <1>1, <1>4, <2>1, <2>2
<1>6. \/ value' \in {Failure, Overflow}
      \/ value' \in Values
  <2>1. f.ops[done + 1] \in MappingOperations
    BY <1>1, <1>2, <1>3
  <2> QED
    BY <1>1, <1>2, <2>1, ApplyGives
<1> HIDE DEF results, f
<1>7. CASE value' \in {Failure, Overflow}
  <2>1. status' = (IF value' = Failure THEN "invalid" ELSE "raises")
    BY <1>1, <1>7, ErrorTypes
  <2>2. FieldEnd(payload, f) = IF results[done + 1] = Failure THEN "invalid" ELSE "raises"
    <3>1. done + 1 \in 0..Len(f.ops) /\ (done + 1) - 1 = done
      BY <1>1, <1>2, <1>3
    <3>2. \A n \in 0..((done + 1) - 1) : Results(payload, f)[n] \notin {Failure, Overflow}
      BY <1>4, <3>1 DEF results
    <3>3. Results(payload, f)[done + 1] \in {Failure, Overflow}
      BY <1>5, <1>7 DEF results
    <3> QED
      BY <1>2, <1>3, <3>1, <3>2, <3>3, FieldFails DEF results
  <2>3. Outcome(payload, mapping) = FieldEnd(payload, f)
    BY <1>1, <1>2, <2>2, FailingFieldDecides DEF f
  <2> QED
    BY <1>1, <1>5, <2>1, <2>2, <2>3 DEF OutcomeInv, OutcomeIsFunction, Ends
<1>8. CASE value' \in Values
  <2>1. status' = "operate" /\ value' \notin {Failure, Overflow}
    BY <1>1, <1>8, ErrorTypes
  <2>2. \A n \in 0..(done + 1) : results[n] \notin {Failure, Overflow}
    <3>1. \A n \in 0..(done + 1) : n \in 0..done \/ n = done + 1
      BY <1>2
    <3> QED
      BY <1>4, <1>5, <2>1, <3>1
  <2>3. ComputedSoFar'
    BY <1>1, <1>2, <1>5, <2>2 DEF ComputedSoFar, results, f
  <2> QED
    BY <2>1, <2>3 DEF OutcomeInv, OutcomeIsFunction, Ends
<1> QED
  BY <1>6, <1>7, <1>8

\* A field whose operations are done succeeded, and its target has its last result.
LEMMA AssignComputes ==
    ASSUME InputsAreFixed, ApplyInv, OutcomeInv, Assign
    PROVE  OutcomeInv'
<1> DEFINE f == mapping.fields[field]
<1>1. /\ status = "operate" /\ status' = "copy" /\ field' = field + 1
      /\ done = Len(f.ops)
      /\ normalized' = [t \in DOMAIN normalized \cup {f.target} |->
                            IF t = f.target THEN value ELSE normalized[t]]
      /\ UNCHANGED <<payload, mapping, done, value>>
  BY DEF Assign
<1>2. /\ field \in Fields /\ f.path \in DOMAIN payload /\ Len(f.ops) \in Nat
      /\ field \in 1..Len(mapping.fields) /\ Len(mapping.fields) \in Nat
      /\ Fields = DOMAIN mapping.fields /\ Fields = 1..Len(mapping.fields)
      /\ ComputedSoFar
  BY <1>1, MappingShape DEF ApplyInv, OutcomeInv, Ends, Fields
<1>3. /\ value = Results(payload, f)[Len(f.ops)]
      /\ \A n \in 0..Len(f.ops) : Results(payload, f)[n] \notin {Failure, Overflow}
  BY <1>1, <1>2 DEF ComputedSoFar
<1>4. FieldEnd(payload, f) = "ok"
  BY <1>2, <1>3, FieldSucceeds
<1>5. /\ f.target \notin DOMAIN mapping.static
      /\ \A i \in 1..(field - 1) : mapping.fields[i].target # f.target
  BY <1>2, ApplyAssumption DEF InputsAreFixed, IsRuntimeMapping
<1>6. /\ DOMAIN mapping.static \subseteq DOMAIN normalized
      /\ \A i \in 1..(field - 1) : mapping.fields[i].target \in DOMAIN normalized
  BY DEF ApplyInv, ResultIsPartial
<1>7. /\ normalized'[f.target] = value
      /\ \A t \in DOMAIN normalized : t # f.target => normalized'[t] = normalized[t]
  BY <1>1
<1>8. \A t \in DOMAIN mapping.static : normalized'[t] = mapping.static[t]
  BY <1>2, <1>5, <1>6, <1>7 DEF ComputedSoFar
<1>9. ASSUME NEW i \in 1..field
      PROVE  /\ FieldEnd(payload, mapping.fields[i]) = "ok"
             /\ normalized'[mapping.fields[i].target] =
                    Results(payload, mapping.fields[i])[Len(mapping.fields[i].ops)]
  <2>1. CASE i = field
    BY <1>3, <1>4, <1>7, <2>1
  <2>2. CASE i # field
    <3>1. i \in 1..(field - 1)
      BY <1>2, <2>2
    <3> QED
      BY <1>2, <1>5, <1>6, <1>7, <3>1 DEF ComputedSoFar
  <2> QED
    BY <2>1, <2>2
<1>10. field' - 1 = field
  BY <1>1, <1>2
<1>11. ComputedSoFar'
  BY <1>1, <1>8, <1>9, <1>10 DEF ComputedSoFar
<1> QED
  BY <1>1, <1>11 DEF OutcomeInv, OutcomeIsFunction, Ends

\* The other steps end the event as the function has it, or compute nothing.
LEMMA OutcomeStep ==
    ASSUME InputsAreFixed, ApplyInv, OutcomeInv, [Next]_vars
    PROVE  OutcomeInv'
<1>1. CASE UNCHANGED vars
  BY <1>1 DEF vars, OutcomeInv, OutcomeIsFunction, ComputedSoFar
<1>2. CASE CheckTargets
  <2>1. /\ status = "check" /\ UNCHANGED <<payload, mapping, field, done, value, normalized>>
        /\ status' = IF Protected \cap (Targets \cup DOMAIN mapping.static) # {}
                     THEN "invalid" ELSE "copy"
    BY <1>2 DEF CheckTargets
  <2>2. CASE status' = "invalid"
    <3>1. Protected \cap (Targets \cup DOMAIN mapping.static) # {}
      BY <2>1, <2>2
    <3>2. Outcome(payload, mapping) = "invalid"
      BY <3>1, Zenon DEF Outcome, Targets, Fields
    <3> QED
      BY <2>1, <2>2, <3>2 DEF OutcomeInv, OutcomeIsFunction, Ends
  <2>3. CASE status' = "copy"
    BY <2>1, <2>3 DEF OutcomeInv, OutcomeIsFunction, ComputedSoFar, Ends
  <2> QED
    BY <2>1, <2>2, <2>3
<1>3. CASE Validate
  <2>1. /\ status = "copy" /\ field \notin Fields
        /\ UNCHANGED <<payload, mapping, field, done, value, normalized>>
        /\ status' = IF IsNormalized(normalized) THEN "save" ELSE "invalid"
    BY <1>3 DEF Validate
  <2>2. ComputedSoFar
    BY <2>1 DEF OutcomeInv, Ends
  <2>3. CASE ~ IsNormalized(normalized)
    BY <2>1, <2>2, <2>3, FinishedRow DEF OutcomeInv, OutcomeIsFunction, Ends
  <2>4. CASE IsNormalized(normalized)
    <3>1. ComputedSoFar'
      BY <2>1, <2>2, <2>4 DEF ComputedSoFar
    <3>2. IsNormalized(normalized')
      BY <2>1, <2>4
    <3> QED
      BY <2>1, <2>4, <3>1, <3>2 DEF OutcomeInv, OutcomeIsFunction, Ends
  <2> QED
    BY <2>3, <2>4
<1>4. CASE Save
  <2>1. /\ status = "save"
        /\ UNCHANGED <<payload, mapping, field, done, value, normalized>>
        /\ status' = IF IsStorable(normalized, payload) THEN "stored" ELSE "refused"
    BY <1>4 DEF Save
  <2>2. ComputedSoFar /\ IsNormalized(normalized) /\ field \notin Fields
    BY <2>1 DEF OutcomeInv, ApplyInv, Ends
  <2>3. /\ normalized = RowOf(payload, mapping)
        /\ Outcome(payload, mapping) = IF ~ IsStorable(normalized, payload) THEN "refused" ELSE "stored"
    BY <2>1, <2>2, FinishedRow
  <2> QED
    BY <2>1, <2>3 DEF OutcomeInv, OutcomeIsFunction, Ends
<1> QED
  BY <1>1, <1>2, <1>3, <1>4, CopyComputes, OperateComputes, AssignComputes DEF Next, Finished

\* An event handled with a mapping ends as a function of both says, with the row
\* the function gives: a redelivery, on whatever process, repeats outcome and row.
THEOREM OutcomesAreFunctions == Spec => []OutcomeIsFunction
<1>1. Init => OutcomeInv
  <2> SUFFICES ASSUME Init PROVE OutcomeInv
    OBVIOUS
  <2>1. normalized = mapping.static /\ field = 1 /\ status = "check"
    BY DEF Init
  <2>2. 1..(field - 1) = {}
    BY <2>1
  <2> QED
    BY <2>1, <2>2 DEF OutcomeInv, OutcomeIsFunction, ComputedSoFar, Ends
<1>2. InputsAreFixed /\ ApplyInv /\ OutcomeInv /\ [Next]_vars => OutcomeInv'
  BY OutcomeStep
<1>3. OutcomeInv => OutcomeIsFunction
  BY DEF OutcomeInv
<1> QED
  BY <1>1, <1>2, <1>3, ApplyIsInvariant, InputsStay, PTL DEF Spec

================================================================================
