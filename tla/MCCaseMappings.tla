---------------------------- MODULE MCCaseMappings -----------------------------
(***************************************************************************)
(* An instance of CaseMappings for TLC: two plain field names, payloads    *)
(* two levels deep.                                                        *)
(***************************************************************************)
EXTENDS CaseMappings

PlainKeys == << <<"a">>, <<"b">> >>

\* Every set of entries over four paths, two of them nested.
SmallSignatures == SUBSET
    ([path : {<<"a">>, <<"b">>}, type : LeafTypes \cup {"object"}]
        \cup [path : {<<"a", "b">>, <<"b", "b">>}, type : LeafTypes])

================================================================================
