---------------------------- MODULE MCCandleFeed ----------------------------
(***************************************************************************)
(* Instance of CandleFeed for TLC.                                         *)
(***************************************************************************)
EXTENDS CandleFeed
=============================================================================
