--------------------------- MODULE MCWhalePositions ---------------------------
(***************************************************************************)
(* WhalePositions for TLC: a whale on three dexes, so that the dexes it was *)
(* seen trading on are not all; two traders that are polled in batches of   *)
(* one, in an interval of as many ticks as there are traders.               *)
(***************************************************************************)
EXTENDS WhalePositions

CONSTANTS w1, s1, s2
MCWhales == <<w1>>
MCTraders == <<s1, s2>>
MCInterval == [tracker |-> 1, census |-> 2]
MCBatch == [tracker |-> 1, census |-> 1]
===============================================================================
