------------------------------ MODULE MCStreams ------------------------------
(* Two native coins and one HIP-3 coin over two trade connections. *)
EXTENDS Streams

CONSTANTS n1, n2, x1

MCAllCoins == <<n1, n2, x1>>
MCNativeCoins == {n1, n2}
=============================================================================
