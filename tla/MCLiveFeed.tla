----------------------------- MODULE MCLiveFeed -----------------------------
(***************************************************************************)
(* Instance of LiveFeed for TLC.                                           *)
(***************************************************************************)
EXTENDS LiveFeed
=============================================================================
