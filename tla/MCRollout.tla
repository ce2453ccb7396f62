------------------------------- MODULE MCRollout -------------------------------
(***************************************************************************)
(* Instances of Rollout for TLC: three releases, of which the second makes *)
(* a case predefined and the third drops one and changes the other.        *)
(***************************************************************************)
EXTENDS Rollout, TLC

CONSTANTS api, r1, d1, d2, c1, c2, m1, m2

NoEvents == [e \in {} |-> c1]

MCReleases ==
    << (c1 :> Null) @@ (c2 :> m1), (c1 :> m1) @@ (c2 :> m1), (c1 :> m2) @@ (c2 :> Null) >>

NoPredefined == [c \in {} |-> m1]

EmptyDisk == {[c \in Cases |-> Null]}

================================================================================
