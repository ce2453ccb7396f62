------------------------------ MODULE Fingerprint ------------------------------
(***************************************************************************)
(* app/normalization/fingerprint.py: the signature that decides which      *)
(* events share a case id, and with it a mapping; and the two places where *)
(* a path of the signature is read back, validate_signature_and_targets    *)
(* and _resolve_path.                                                      *)
(*                                                                         *)
(* A field name is the sequence of its dot-separated parts: "usage" is     *)
(* <<"usage">>, "usage.count" is <<"usage", "count">>, the empty name is   *)
(* <<"">>.  A field of a payload is at a position, the names that lead to  *)
(* it, and a payload is the JSON type at each of its positions: recursion  *)
(* into objects in the code is quantification over positions here.         *)
(***************************************************************************)
EXTENDS Naturals, SequencesExt

CONSTANTS
    KeyOrder,   \* the field names that payloads use, in string order
    LeafTypes,  \* the types of values other than objects
    MaxDepth    \* bound on the depth of payloads

ASSUME FingerprintAssumption ==
    /\ \A i, j \in DOMAIN KeyOrder : KeyOrder[i] = KeyOrder[j] => i = j
    /\ MaxDepth \in Nat

Keys == {KeyOrder[i] : i \in DOMAIN KeyOrder}
Types == LeafTypes \cup {"object"}

Positions == UNION {[1..n -> Keys] : n \in 1..MaxDepth}

\* What is inside a field is inside an object.
IsPayload(payload) ==
    \A at \in DOMAIN payload : Len(at) > 1 =>
        Front(at) \in DOMAIN payload /\ payload[Front(at)] = "object"

Payloads == {p \in UNION {[fields -> Types] : fields \in SUBSET Positions} : IsPayload(p)}

Empty == <<"">>

--------------------------------------------------------------------------------
\* Mutant: a nested field is listed under its own name.
JoinIgnoringParent(parent, key) == key

\* The path of a field: an empty parent is dropped ("if parent").
Join(parent, key) == IF parent = Empty THEN key ELSE parent \o key

\* Mutant: add_paths is called for an object without the object's path.
PathOfLastName(at) == Last(at)

\* add_paths passes the path of each object on to its fields.
PathOf(at) ==
    LET path[n \in 1..Len(at)] == Join(IF n = 1 THEN Empty ELSE path[n - 1], at[n])
    IN  path[Len(at)]

SchemaPaths(payload) == [at \in DOMAIN payload |-> [path |-> PathOf(at), type |-> payload[at]]]

PathsIn(entries) == {entries[at].path : at \in DOMAIN entries}

\* The order of add_paths: by name, and each field before its own fields.
Before(a, b) ==
    LET Index(k) == CHOOSE i \in DOMAIN KeyOrder : KeyOrder[i] = k
    IN  \/ IsStrictPrefix(a, b)
        \/ \E n \in DOMAIN a \cap DOMAIN b :
              /\ \A m \in 1..(n - 1) : a[m] = b[m]
              /\ Index(a[n]) < Index(b[n])

\* Fields in that order.
InOrder(fields) ==
    CHOOSE s \in SetToSeqs(fields) :
        \A i, j \in DOMAIN s : i < j => Before(s[i], s[j])

\* The entries sorted by path (the sort is stable, so entries of one path keep
\* their order), up to the collision-free hash.  With the source it is the case.
FingerprintOf(entries) ==
    [p \in PathsIn(entries) |->
        LET same == InOrder({at \in DOMAIN entries : entries[at].path = p})
        IN  [n \in DOMAIN same |-> entries[same[n]].type]]

--------------------------------------------------------------------------------
\* The position a path is read at: one field name for each part.
PositionOf(path) == [n \in DOMAIN path |-> <<path[n]>>]

\* _resolve_path, to the type of what it finds.
Resolve(payload, path) ==
    IF PositionOf(path) \in DOMAIN payload THEN payload[PositionOf(path)] ELSE "missing"

\* CopyOperation.validate_source_path: no empty segment.
CopyPathValid(path) == \A i \in DOMAIN path : path[i] # ""

\* Mutant: a parent need not be listed.
SignatureValidOrphans(signature) ==
    /\ \A e \in signature : CopyPathValid(e.path)
    /\ \A d, e \in signature : d.path = e.path => d = e

\* validate_signature_and_targets on the entries of a predefined mapping.
SignatureValid(signature) ==
    /\ \A e \in signature : CopyPathValid(e.path)
    /\ \A d, e \in signature : d.path = e.path => d = e
    /\ \A e \in signature : \A n \in 1..(Len(e.path) - 1) :
           [path |-> SubSeq(e.path, 1, n), type |-> "object"] \in signature

\* The entries of a valid signature, where a payload has them.
Listed(signature) ==
    [at \in {PositionOf(e.path) : e \in signature} |->
        CHOOSE e \in signature : PositionOf(e.path) = at]

================================================================================
