---------------------------- MODULE MCEventPipeline ----------------------------
(***************************************************************************)
(* Instances of EventPipeline for TLC: at most three events of two cases,  *)
(* one of them with a predefined mapping in some runs, and two mappings.   *)
(***************************************************************************)
EXTENDS EventPipeline, TLC

CONSTANTS e1, e2, e3, c1, c2, m1, m2, r1, r2, d1, d2, pr1, pr2, pd1, pd2

\* Two events of one case, that has no predefined mapping.
SameCase == [e \in Events |-> c1]

\* One event of each case.
OwnCase == (e1 :> c1) @@ (e2 :> c2)

KeyByCase == (c1 :> pd1) @@ (c2 :> pd2)
KeyToFirst == [c \in Cases |-> pd1]

NoPredefined == [c \in {} |-> m1]
PredefinedSecond == c2 :> m2

EmptyDisk == {[c \in Cases |-> Null]}
\* The last deployment left a generated mapping for the now predefined case.
OldDisk == {c1 :> Null @@ c2 :> m1}

\* Nothing names a drift consumer: an instance with several is symmetric.
DriftSymmetry == Permutations(DriftWorkers)

\* m1 applies to the first event only.
SharedMapping == [e \in Events |-> [m \in Mappings |->
    IF e # e1 /\ m = m1 THEN "invalid" ELSE "ok"]]

\* Both mappings apply to both events.
EitherMapping == [e \in Events |-> [m \in Mappings |-> "ok"]]

\* Every normalized event is one the database refuses.
NoneStorable == [e \in Events |-> [m \in Mappings |-> "unstorable"]]

\* Every outcome of apply_mapping: the first event stops at one mapping, the
\* others at both.
EveryOutcome == [e \in Events |->
    IF e = e1 THEN (m1 :> "ok" @@ m2 :> "raises")
              ELSE (m1 :> "raises" @@ m2 :> "unstorable")]

\* The safety run takes a crash or an eviction, not both in one behaviour.
OneFault == crashes + evictions <= 1

================================================================================
