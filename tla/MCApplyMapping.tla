---------------------------- MODULE MCApplyMapping -----------------------------
(***************************************************************************)
(* Instances of ApplyMapping for TLC: values on both sides of every limit, *)
(* and fields with up to two operations after the copy.                    *)
(***************************************************************************)
EXTENDS ApplyMapping, TLC

Integers_ == {Int_(n) : n \in {-1, 0, 1, 2, 3, 9}}
Floats == {Float(h) : h \in {-2, 0, 1, 2, 5, 8}}
Texts ==
    {Text(k, n) : k \in {"integer", "padded", "loose"}, n \in {0, 1, 9}}
        \cup {Text("decimal", 5)}
        \cup {Text(k, 0) : k \in {"nonfinite", "true", "false", "instant", "edge",
                                  "blank", "nul", "word"}}
Others == {NullValue, Bool(0), Bool(1), [type |-> "object"], [type |-> "array"]}

\* One value in the first field; the second field finds its value, or nothing.
MCPayloads ==
    {"p" :> v : v \in Integers_ \cup Floats \cup Texts \cup Others}
        \cup {"p" :> v @@ "q" :> Text("nul", 0) : v \in {Int_(1), Text("word", 0)}}

Operations ==
    [operation : {"cast"}, to : Scalars]
        \cup [operation : {"multiply"}, by : {Int_(2), Float(4), Float(0)}]

Pipelines == {<<>>} \cup {<<a>> : a \in Operations} \cup {<<a, b>> : a, b \in Operations}

MCKind == [t \in {"quantity", "service", "unit", "usage_type", "usage_start"} |->
    CASE t = "quantity"   -> "amount"
      [] t = "service"    -> "text"
      [] t = "unit"       -> "label"
      [] t = "usage_type" -> "required"
      [] OTHER            -> "time"]

\* One field of every kind, of no kind, or of the identity; two fields, the second
\* of which may fail in its own way; static fields that are missing or protected.
Field(t, ops) == [target |-> t, path |-> "p", ops |-> ops]
Typed == "usage_type" :> Text("word", 0)
NoStatic == [t \in {} |-> NullValue]
MCMappings ==
    {[static |-> Typed, fields |-> <<Field(t, ops)>>] :
        t \in (DOMAIN MCKind \cup {"unknown", "event_id"}) \ {"usage_type"}, ops \in Pipelines}
    \cup {[static |-> NoStatic, fields |-> <<Field(t, ops)>>] :
        t \in {"usage_type", "service"}, ops \in Pipelines}
    \cup {[static |-> ("case_id" :> Text("word", 0)) @@ Typed, fields |-> <<Field("service", <<>>)>>]}
    \cup {[static |-> Typed,
            fields |-> <<Field("service", <<a>>), [target |-> "unit", path |-> "q", ops |-> <<b>>]>>] :
        a, b \in Operations}

================================================================================
