-------------------------- MODULE CaseMappingsProofs ---------------------------
(***************************************************************************)
(* Proofs about Fingerprint and CaseMappings: for any field names, any     *)
(* depth of payloads, and any signatures.                                  *)
(***************************************************************************)
EXTENDS CaseMappings, WellFoundedInduction, FiniteSetTheorems, TLAPS

\* Induction: the library's theorem about minimal elements is about a set, not
\* about an operator.  Any set of numbers has a least one.
LEMMA NumbersAreOrdered ==
    \E R : IsWellFoundedOn(R, Nat) /\ \A m, k \in Nat : k < m => <<k, m>> \in R
<1>1. \A m, k \in Nat : k < m => <<k, m>> \in OpToRel(<, Nat)
  BY DEF OpToRel
<1> QED
  BY <1>1, NatLessThanWellFounded, Zenon

LEMMA LeastNumber ==
    ASSUME NEW T \in SUBSET Nat, T # {}
    PROVE  \E m \in T : \A k \in T : m <= k
<1>1. PICK R : IsWellFoundedOn(R, Nat) /\ \A m, k \in Nat : k < m => <<k, m>> \in R
  BY NumbersAreOrdered
<1>2. PICK m \in T : \A k \in T : ~ (<<k, m>> \in R)
  BY <1>1, WFMin
<1>3. \A k \in T : ~ (k < m)
  BY <1>1, <1>2, Zenon
<1> QED
  BY <1>3

--------------------------------------------------------------------------------
\* A position of plain names is the one its path is read at.
IsPlain(at) == \A n \in DOMAIN at : at[n] = <<at[n][1]>> /\ at[n][1] # ""

LEMMA PlainPath ==
    ASSUME NEW l \in Nat \ {0}, NEW at, DOMAIN at = 1..l, Len(at) = l, IsPlain(at)
    PROVE  PathOf(at) = [n \in 1..l |-> at[n][1]]
<1> DEFINE Equation(f) ==
               f = [n \in 1..l |-> Join(IF n = 1 THEN Empty ELSE f[n - 1], at[n])]
           Flat == [n \in 1..l |-> [m \in 1..n |-> at[m][1]]]
           path == CHOOSE f : Equation(f)
<1>1. \A n \in 1..l : Flat[n] = Join(IF n = 1 THEN Empty ELSE Flat[n - 1], at[n])
  <2> SUFFICES ASSUME NEW n \in 1..l
               PROVE  Flat[n] = Join(IF n = 1 THEN Empty ELSE Flat[n - 1], at[n])
    OBVIOUS
  <2> 1 \in 1..l
    OBVIOUS
  <2>1. at[n] = <<at[n][1]>> /\ at[1] = <<at[1][1]>> /\ at[1][1] # ""
    BY Zenon DEF IsPlain
  <2>2. CASE n = 1
    <3>1. Flat[1] = <<at[1][1]>>
      OBVIOUS
    <3> QED
      BY <2>1, <2>2, <3>1 DEF Join
  <2>3. CASE n # 1
    <3>1. n - 1 \in 1..l /\ Flat[n - 1] = [m \in 1..(n - 1) |-> at[m][1]]
      BY <2>3
    <3>2. Flat[n - 1] # Empty
      <4>1. Flat[n - 1][1] = at[1][1]
        BY <3>1
      <4>2. Empty[1] = ""
        BY DEF Empty
      <4> QED
        BY <2>1, <4>1, <4>2
    <3>3. Flat[n - 1] \o <<at[n][1]>> = [m \in 1..n |-> at[m][1]]
      BY <2>3, <3>1
    <3> QED
      BY <2>1, <2>3, <3>2, <3>3 DEF Join
  <2> QED
    BY <2>2, <2>3
<1>2. Equation(Flat)
  BY <1>1
<1>3. Equation(path)
  BY <1>2
<1>4. \A n \in 1..l : path[n] = Join(IF n = 1 THEN Empty ELSE path[n - 1], at[n])
  BY <1>3
<1>5. \A n \in 1..l : path[n] = Flat[n]
  <2> DEFINE Differ == {n \in 1..l : path[n] # Flat[n]}
  <2> HIDE DEF path, Flat
  <2> SUFFICES ASSUME Differ # {} PROVE FALSE
    OBVIOUS
  <2> Differ \in SUBSET Nat
    OBVIOUS
  <2>1. PICK n \in Differ : \A k \in Differ : n <= k
    <3> HIDE DEF Differ
    <3> QED
      BY LeastNumber
  <2>2. n # 1 => n - 1 \in 1..l /\ path[n - 1] = Flat[n - 1]
    BY <2>1
  <2> QED
    BY <1>1, <1>4, <2>1, <2>2
<1>6. PathOf(at) = path[l]
  BY DEF PathOf
<1>7. Flat[l] = [n \in 1..l |-> at[n][1]]
  OBVIOUS
<1>8. path[l] = Flat[l]
  <2> HIDE DEF path, Flat
  <2> QED
    BY <1>5
<1> QED
  BY <1>6, <1>7, <1>8, Zenon

--------------------------------------------------------------------------------
\* One field of a path needs no order.
LEMMA OneInOrder ==
    ASSUME NEW x
    PROVE  InOrder({x}) = <<x>>
<1>1. Cardinality({x}) = 1
  BY FS_Singleton
<1>2. <<x>> \in [1..1 -> {x}] /\ \A f \in [1..1 -> {x}] : f = <<x>>
  OBVIOUS
<1>3. \A s : s \in SetToSeqs({x}) <=> s = <<x>>
  BY <1>1, <1>2 DEF SetToSeqs
<1>4. \A i, j \in DOMAIN <<x>> : ~ (i < j)
  OBVIOUS
<1> QED
  BY <1>3, <1>4 DEF InOrder

LEMMA UniquePaths ==
    ASSUME NEW entries, NEW at \in DOMAIN entries,
           \A a, b \in DOMAIN entries : entries[a].path = entries[b].path => a = b
    PROVE  /\ entries[at].path \in DOMAIN FingerprintOf(entries)
           /\ FingerprintOf(entries)[entries[at].path] = <<entries[at].type>>
<1>1. entries[at].path \in PathsIn(entries)
  BY DEF PathsIn
<1>2. {a \in DOMAIN entries : entries[a].path = entries[at].path} = {at}
  OBVIOUS
<1>3. FingerprintOf(entries)[entries[at].path] =
          LET same == InOrder({at}) IN [n \in DOMAIN same |-> entries[same[n]].type]
  BY <1>1, <1>2, Zenon DEF FingerprintOf
<1>4. [n \in DOMAIN <<at>> |-> entries[<<at>>[n]].type] = <<entries[at].type>>
  OBVIOUS
<1>5. FingerprintOf(entries)[entries[at].path] = <<entries[at].type>>
  BY <1>3, <1>4, OneInOrder, Zenon
<1>6. DOMAIN FingerprintOf(entries) = PathsIn(entries)
  BY Zenon DEF FingerprintOf
<1> QED
  BY <1>1, <1>5, <1>6

--------------------------------------------------------------------------------
(***************************************************************************)
(* Names without dots.                                                     *)
(***************************************************************************)
PlainNames == \A k \in Keys : k = <<k[1]>> /\ k[1] # ""

LEMMA PayloadShape ==
    ASSUME NEW p \in Payloads, NEW at \in DOMAIN p
    PROVE  \E l \in Nat \ {0} : at \in [1..l -> Keys]
<1>1. DOMAIN p \subseteq Positions
  BY DEF Payloads
<1> QED
  BY <1>1, FingerprintAssumption DEF Positions

\* The path of a field leads back to its position.
LEMMA PathLeadsBack ==
    ASSUME PlainNames, NEW p \in Payloads, NEW at \in DOMAIN p
    PROVE  PositionOf(PathOf(at)) = at
<1>1. PICK l \in Nat \ {0} : at \in [1..l -> Keys]
  BY PayloadShape
<1>2. IsPlain(at)
  BY <1>1, Zenon DEF PlainNames, IsPlain
<1>3. PathOf(at) = [n \in 1..l |-> at[n][1]]
  BY <1>1, <1>2, PlainPath
<1>4. \A n \in 1..l : at[n] = <<at[n][1]>>
  BY <1>1, <1>2, Zenon DEF IsPlain
<1> QED
  BY <1>1, <1>3, <1>4 DEF PositionOf

\* What the fingerprint of a payload says of a path is what is found there.
LEMMA FingerprintTells ==
    ASSUME PlainNames, NEW p \in Payloads, NEW path \in PathsIn(SchemaPaths(p))
    PROVE  FingerprintOf(SchemaPaths(p))[path] = <<Resolve(p, path)>>
<1>1. PICK at \in DOMAIN p : path = PathOf(at)
  BY DEF PathsIn, SchemaPaths
<1>2. DOMAIN SchemaPaths(p) = DOMAIN p /\ SchemaPaths(p)[at] = [path |-> path, type |-> p[at]]
  BY <1>1 DEF SchemaPaths
<1>3. \A a, b \in DOMAIN p : SchemaPaths(p)[a].path = SchemaPaths(p)[b].path => a = b
  <2>1. \A a \in DOMAIN p : SchemaPaths(p)[a].path = PathOf(a)
    BY DEF SchemaPaths
  <2> QED
    BY <2>1, PathLeadsBack
<1>4. FingerprintOf(SchemaPaths(p))[path] = <<p[at]>>
  BY <1>2, <1>3, UniquePaths
<1>5. Resolve(p, path) = p[at]
  BY <1>1, PathLeadsBack DEF Resolve
<1> QED
  BY <1>4, <1>5

LEMMA FingerprintLists ==
    ASSUME NEW entries
    PROVE  DOMAIN FingerprintOf(entries) = PathsIn(entries)
  BY Zenon DEF FingerprintOf

\* Without dots in names, payloads of one case have the same fields with the same
\* types (calculate_schema_fingerprint): a case is a structure.
THEOREM CaseIsStructure ==
    ASSUME PlainNames, NEW p \in Payloads, NEW q \in Payloads,
           FingerprintOf(SchemaPaths(p)) = FingerprintOf(SchemaPaths(q))
    PROVE  p = q
<1>1. PathsIn(SchemaPaths(p)) = PathsIn(SchemaPaths(q))
  BY FingerprintLists
<1>2. \A r \in Payloads : \A at \in DOMAIN r : PathOf(at) \in PathsIn(SchemaPaths(r))
  BY DEF PathsIn, SchemaPaths
<1>3. \A r \in Payloads : \A path \in PathsIn(SchemaPaths(r)) :
          PositionOf(path) \in DOMAIN r /\ Resolve(r, path) = r[PositionOf(path)]
  BY PathLeadsBack DEF PathsIn, SchemaPaths, Resolve
<1>4. \A at \in DOMAIN p : at \in DOMAIN q
  BY <1>1, <1>2, <1>3, PathLeadsBack
<1>5. \A at \in DOMAIN q : at \in DOMAIN p
  BY <1>1, <1>2, <1>3, PathLeadsBack
<1>6. \A at \in DOMAIN p : p[at] = q[at]
  <2> SUFFICES ASSUME NEW at \in DOMAIN p PROVE p[at] = q[at]
    OBVIOUS
  <2>1. PathOf(at) \in PathsIn(SchemaPaths(p)) /\ PositionOf(PathOf(at)) = at
    BY <1>2, PathLeadsBack
  <2>2. Resolve(p, PathOf(at)) = Resolve(q, PathOf(at))
    BY <1>1, <2>1, FingerprintTells
  <2> QED
    BY <1>1, <1>3, <2>1, <2>2
<1>7. p = [at \in DOMAIN p |-> p[at]] /\ q = [at \in DOMAIN q |-> q[at]]
  BY DEF Payloads
<1> QED
  BY <1>4, <1>5, <1>6, <1>7

--------------------------------------------------------------------------------
(***************************************************************************)
(* Signatures of predefined mappings.                                      *)
(***************************************************************************)
LEMMA PositionsOfPaths ==
    ASSUME NEW c \in Seq(STRING), NEW d \in Seq(STRING), PositionOf(c) = PositionOf(d)
    PROVE  c = d
<1>1. DOMAIN c = DOMAIN d
  BY DEF PositionOf
<1>2. \A n \in DOMAIN c : <<c[n]>> = <<d[n]>>
  BY <1>1, Zenon DEF PositionOf
<1>3. \A n \in DOMAIN c : c[n] = d[n]
  BY <1>2
<1>4. Len(c) = Len(d)
  BY <1>1
<1> QED
  BY <1>3, <1>4

\* A valid signature lists each of its entries once.
LEMMA ListedEntry ==
    ASSUME NEW s \in Signatures, SignatureValid(s), NEW e \in s
    PROVE  /\ PositionOf(e.path) \in DOMAIN Listed(s)
           /\ Listed(s)[PositionOf(e.path)] = e
<1>1. \A d \in s : d \in Entries
  BY SignaturesAssumption
<1>2. \A d \in s : PositionOf(d.path) = PositionOf(e.path) => d = e
  BY <1>1, PositionsOfPaths DEF Entries, SignatureValid
<1>3. (CHOOSE d \in s : PositionOf(d.path) = PositionOf(e.path)) = e
  BY <1>2
<1> QED
  BY <1>3 DEF Listed

LEMMA ListedTells ==
    ASSUME NEW s \in Signatures, SignatureValid(s), NEW e \in s
    PROVE  /\ e.path \in DOMAIN FingerprintOf(Listed(s))
           /\ FingerprintOf(Listed(s))[e.path] = <<e.type>>
<1>1. \A a \in DOMAIN Listed(s) : \E d \in s : a = PositionOf(d.path) /\ Listed(s)[a] = d
  <2>1. \A a \in DOMAIN Listed(s) : \E d \in s : a = PositionOf(d.path)
    BY DEF Listed
  <2> QED
    BY <2>1, ListedEntry
<1>2. \A a, b \in DOMAIN Listed(s) : Listed(s)[a].path = Listed(s)[b].path => a = b
  BY <1>1
<1> QED
  BY <1>2, ListedEntry, UniquePaths

\* The payload that has the fields of a signature and no other.
PayloadOf(s) == [at \in DOMAIN Listed(s) |-> Listed(s)[at].type]

LEMMA ListedShape ==
    ASSUME NEW s \in Signatures, SignatureValid(s), NEW at \in DOMAIN Listed(s)
    PROVE  \E e \in s, l \in Nat \ {0} :
               /\ e \in Entries /\ e.path \in Seq(STRING) /\ Len(e.path) = l
               /\ at = PositionOf(e.path) /\ at \in [1..l -> Keys] /\ at \in Positions
               /\ Listed(s)[at] = e /\ PayloadOf(s)[at] = e.type
<1>1. PICK e \in s : at = PositionOf(e.path)
  BY DEF Listed
<1>2. e \in Entries
  BY SignaturesAssumption
<1>3. e.path \in Seq(STRING) /\ at \in Positions
  BY <1>1, <1>2 DEF Entries
<1>4. PICK l \in Nat \ {0} : at \in [1..l -> Keys]
  BY <1>3, FingerprintAssumption DEF Positions
<1>5. Len(e.path) = l
  BY <1>1, <1>3, <1>4 DEF PositionOf
<1>6. Listed(s)[at] = e /\ PayloadOf(s)[at] = e.type
  BY <1>1, ListedEntry DEF PayloadOf
<1> QED
  BY <1>1, <1>2, <1>3, <1>4, <1>5, <1>6

LEMMA SignatureIsPayload ==
    ASSUME NEW s \in Signatures, SignatureValid(s)
    PROVE  PayloadOf(s) \in Payloads
<1>1. PayloadOf(s) \in [DOMAIN Listed(s) -> Types]
  BY ListedShape DEF PayloadOf, Entries
<1>2. DOMAIN Listed(s) \in SUBSET Positions
  BY ListedShape
<1>3. IsPayload(PayloadOf(s))
  <2> SUFFICES ASSUME NEW at \in DOMAIN Listed(s), Len(at) > 1
               PROVE  /\ Front(at) \in DOMAIN Listed(s)
                      /\ PayloadOf(s)[Front(at)] = "object"
    BY DEF IsPayload, PayloadOf
  <2>1. PICK e \in s, l \in Nat \ {0} :
               /\ e.path \in Seq(STRING) /\ Len(e.path) = l
               /\ at = PositionOf(e.path) /\ at \in [1..l -> Keys]
    BY ListedShape
  <2>2. Len(at) = l /\ l - 1 \in 1..(l - 1)
    BY <2>1
  <2> DEFINE parent == [path |-> SubSeq(e.path, 1, l - 1), type |-> "object"]
  <2>3. parent \in s
    BY <2>1, <2>2, Zenon DEF SignatureValid
  <2>4. PositionOf(parent.path) = Front(at)
    <3>1. SubSeq(e.path, 1, l - 1) = [n \in 1..(l - 1) |-> e.path[n]]
      BY <2>1, <2>2
    <3>2. PositionOf(parent.path) = [n \in 1..(l - 1) |-> <<e.path[n]>>]
      BY <3>1 DEF PositionOf
    <3>3. at \in Seq(Keys) /\ \A n \in 1..l : at[n] = <<e.path[n]>>
      <4>1. DOMAIN at = 1..l /\ DOMAIN e.path = 1..l
        BY <2>1
      <4>2. \A n \in 1..l : at[n] = <<e.path[n]>>
        BY <2>1, <4>1, Zenon DEF PositionOf
      <4> QED
        BY <2>1, <4>2
    <3>4. SubSeq(at, 1, l - 1) = [n \in 1..(l - 1) |-> <<e.path[n]>>]
      BY <2>2, <3>3
    <3> QED
      BY <2>2, <3>2, <3>4 DEF Front
  <2>5. Front(at) \in DOMAIN Listed(s) /\ Listed(s)[Front(at)] = parent
    <3> HIDE DEF parent
    <3> QED
      BY <2>3, <2>4, ListedEntry
  <2> QED
    BY <2>5 DEF PayloadOf
<1> QED
  BY <1>1, <1>2, <1>3 DEF Payloads

\* calculate_schema_fingerprint of that payload and
\* calculate_schema_fingerprint_from_signature of the signature are the same.
LEMMA SignatureHasItsPaths ==
    ASSUME NEW s \in Signatures, SignatureValid(s)
    PROVE  SchemaPaths(PayloadOf(s)) = Listed(s)
<1>1. \A at \in DOMAIN Listed(s) :
          Listed(s)[at] = [path |-> PathOf(at), type |-> PayloadOf(s)[at]]
  <2> SUFFICES ASSUME NEW at \in DOMAIN Listed(s)
               PROVE  Listed(s)[at] = [path |-> PathOf(at), type |-> PayloadOf(s)[at]]
    OBVIOUS
  <2>1. PICK e \in s, l \in Nat \ {0} :
               /\ e \in Entries /\ e.path \in Seq(STRING) /\ Len(e.path) = l
               /\ at = PositionOf(e.path) /\ at \in [1..l -> Keys]
               /\ Listed(s)[at] = e /\ PayloadOf(s)[at] = e.type
    BY ListedShape
  <2>2. DOMAIN at = 1..l /\ Len(at) = l /\ DOMAIN e.path = 1..l
    BY <2>1
  <2>3. \A n \in 1..l : at[n] = <<e.path[n]>>
    BY <2>1, <2>2, Zenon DEF PositionOf
  <2>4. \A n \in 1..l : at[n][1] = e.path[n]
    BY <2>3
  <2>5. \A n \in 1..l : e.path[n] # ""
    BY <2>1, <2>2, Zenon DEF SignatureValid, CopyPathValid
  <2>6. IsPlain(at)
    BY <2>2, <2>3, <2>4, <2>5, Zenon DEF IsPlain
  <2>7. PathOf(at) = [n \in 1..l |-> at[n][1]]
    BY <2>2, <2>6, PlainPath
  <2>8. PathOf(at) = e.path
    BY <2>1, <2>2, <2>4, <2>7
  <2>9. e = [path |-> e.path, type |-> e.type]
    BY <2>1 DEF Entries
  <2> QED
    BY <2>1, <2>8, <2>9
<1>2. Listed(s) = [at \in DOMAIN Listed(s) |-> Listed(s)[at]]
  BY DEF Listed
<1> QED
  BY <1>1, <1>2, Zenon DEF SchemaPaths, PayloadOf

--------------------------------------------------------------------------------
LEMMA CaseInit == Init => CaseInv
<1> SUFFICES ASSUME Init PROVE CaseInv
  OBVIOUS
<1>1. \A m \in mappings : m.path \in DOMAIN m.case /\ m.case[m.path] = <<m.type>>
  BY ListedTells DEF Init
<1> QED
  BY <1>1 DEF Init, CaseInv

LEMMA CaseStep == PlainNames /\ CaseInv /\ [Next]_vars => CaseInv'
<1> SUFFICES ASSUME PlainNames, CaseInv, [Next]_vars PROVE CaseInv'
  OBVIOUS
<1>1. ASSUME NEW p \in Payloads, Submit(p) PROVE CaseInv'
  BY <1>1 DEF CaseInv, Submit
<1>2. CASE Miss
  BY <1>2 DEF CaseInv, Miss
<1>3. CASE ApplyStored
  BY <1>3 DEF CaseInv, ApplyStored, Finish
<1>4. ASSUME NEW path \in PathsIn(SchemaPaths(event)), Generate(path) PROVE CaseInv'
  <2>1. event \in Payloads
    BY <1>4 DEF CaseInv, Generate
  <2>2. /\ path \in DOMAIN FingerprintOf(SchemaPaths(event))
        /\ FingerprintOf(SchemaPaths(event))[path] = <<Resolve(event, path)>>
    BY <2>1, FingerprintLists, FingerprintTells
  <2> QED
    BY <1>4, <2>2 DEF CaseInv, Generate, Finish
<1>5. CASE GenerateFails
  BY <1>5 DEF CaseInv, GenerateFails, Finish
<1>6. CASE UNCHANGED vars
  BY <1>6 DEF CaseInv, vars
<1> QED
  BY <1>1, <1>2, <1>3, <1>4, <1>5, <1>6 DEF Next

\* For field names without dots: what a mapping reads is in the fingerprint of
\* its case, whoever wrote the mapping (generate_mapping, predefined_loader.py).
THEOREM CasesAreInvariant ==
    ASSUME PlainNames
    PROVE  Spec => []CaseInv
<1>1. [Next]_vars /\ CaseInv => CaseInv'
  BY CaseStep
<1> QED
  BY CaseInit, <1>1, PTL DEF Spec

\* For field names without dots: a mapping finds its field, with its type, in
\* every event of its case (apply_mapping, _resolve_path).
THEOREM MappingsFitTheirCases ==
    ASSUME PlainNames
    PROVE  Spec => []MappingFitsItsCase
<1>1. CaseInv => MappingFitsItsCase
  <2> SUFFICES ASSUME CaseInv, status = "lookup", NEW m \in MappingOf(event)
               PROVE  Resolve(event, m.path) = m.type
    BY DEF MappingFitsItsCase
  <2>1. event \in Payloads /\ m \in mappings /\ m.case = FingerprintOf(SchemaPaths(event))
    BY DEF CaseInv, MappingOf
  <2>2. m.path \in PathsIn(SchemaPaths(event)) /\ m.case[m.path] = <<m.type>>
    BY <2>1, FingerprintLists DEF CaseInv
  <2>3. m.case[m.path] = <<Resolve(event, m.path)>>
    BY <2>1, <2>2, FingerprintTells
  <2> QED
    BY <2>2, <2>3
<1> QED
  BY <1>1, CasesAreInvariant, PTL

\* A predefined mapping that passes validate_signature_and_targets is found for
\* some payload, whatever the names of the other payloads.
THEOREM PredefinedAreReachable == Spec => []PredefinedIsReachable
<1> DEFINE Declared == declared # {} => declared \in Signatures /\ SignatureValid(declared)
<1>1. Init => Declared
  BY DEF Init
<1>2. Declared /\ [Next]_vars => Declared'
  BY DEF Next, vars, Submit, Miss, ApplyStored, Generate, GenerateFails, Finish
<1>3. Declared => PredefinedIsReachable
  BY SignatureIsPayload, SignatureHasItsPaths DEF PredefinedIsReachable
<1> QED
  BY <1>1, <1>2, <1>3, PTL DEF Spec

================================================================================
