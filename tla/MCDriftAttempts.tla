---------------------------- MODULE MCDriftAttempts ----------------------------
(***************************************************************************)
(* An instance of DriftAttempts for TLC: one answer for each way an answer *)
(* of the mapping model can fail, two that pass every check, the three     *)
(* attempts of the configuration.                                          *)
(***************************************************************************)
EXTENDS DriftAttempts

CONSTANTS good, other, static, elsewhere, keyword, misfit, overflow, noise

MCProposals == Answers \ {noise}

MCTargetsOf == [m \in Proposals |->
    IF m = static THEN {"resource", "unit"} ELSE {"resource"}]

MCPathsOf == [m \in Proposals |->
    CASE m = elsewhere -> {"payload.gone"}
      [] m = other -> {"source"}
      [] OTHER -> {"payload.model"}]

MCResult == [m \in Proposals |->
    CASE m = misfit -> "invalid"
      [] m = overflow -> "raises"
      [] OTHER -> "ok"]

MCSchemaTargets == {"resource", "unit"} \cup Protected

================================================================================
