--------------------------- MODULE MCSharedProducer ----------------------------
(***************************************************************************)
(* An instance of SharedProducer for TLC: three requests, a queue that two *)
(* of them fill.                                                           *)
(***************************************************************************)
EXTENDS SharedProducer

================================================================================
