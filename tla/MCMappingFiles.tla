----------------------------- MODULE MCMappingFiles -----------------------------
(***************************************************************************)
(* An instance of MappingFiles for TLC: two processes, a predefined case   *)
(* and one that is not, two mappings.                                      *)
(***************************************************************************)
EXTENDS MappingFiles, TLC

CONSTANTS e1, c1, c2, m1, m2, d1, d2

AnyCase == e1 :> c1

PredefinedSecond == c2 :> m2

\* Empty, or with what the last deployment left.
OldDisks == {NoMappings, c1 :> Null @@ c2 :> m1}

================================================================================
