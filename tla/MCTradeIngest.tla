---------------------------- MODULE MCTradeIngest ----------------------------
(***************************************************************************)
(* Instance of TradeIngest for TLC.                                        *)
(***************************************************************************)
EXTENDS TradeIngest
=============================================================================
