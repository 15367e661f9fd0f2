--------------------------- MODULE MCAlertPipeline ---------------------------
(***************************************************************************)
(* Instance of AlertPipeline for TLC: every fingerprint is of one type and *)
(* coin, as the position alerts of several whales on one coin are.         *)
(***************************************************************************)
EXTENDS AlertPipeline

MCGroup == [f \in Fingerprints |-> "large_position:BTC"]
=============================================================================
