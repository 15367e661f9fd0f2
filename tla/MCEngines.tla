------------------------------ MODULE MCEngines ------------------------------
(***************************************************************************)
(* The engines' own state machines share no variable, so one run checks    *)
(* them side by side: part is the one that moves, the others rest in one   *)
(* of their initial states.  Discovery: each coin has a stream task of its *)
(* own, btc is native and gold is listed on a HIP-3 dex.                   *)
(***************************************************************************)
EXTENDS WhaleDiscovery, VolumeWindow, Detectors, TLC

CONSTANTS btc, gold, dex1, t1, t2, k1, k2

MCSymmetry == Permutations(Addr) \union Permutations(Trader)
MCDexOf == (btc :> NoDex) @@ (gold :> dex1)
MCCoinsOf == (t1 :> {btc}) @@ (t2 :> {gold})
MCChangeWindows == <<1, 2>>
MCKeysOf == [d \in {"oi", "liquidation", "pre_move", "funding", "tracker"} |->
                IF d \in {"pre_move", "funding"} THEN {k1} ELSE {k1, k2}]

VARIABLE part

vars == <<part, discoveryVars, windowVars, detectorVars>>

MCInit ==
    /\ DiscoveryInit /\ WindowInit /\ DetectorInit
    /\ part \in {"discovery", "window", "detectors"}
    /\ part # "discovery" => stored = {}
    /\ part # "detectors" => detector = "oi"

MCNext ==
    /\ UNCHANGED part
    /\ \/ /\ part = "discovery" /\ DiscoveryNext
          /\ UNCHANGED <<windowVars, detectorVars>>
       \/ /\ part = "window" /\ WindowNext
          /\ UNCHANGED <<discoveryVars, detectorVars>>
       \/ /\ part = "detectors" /\ DetectorNext
          /\ UNCHANGED <<discoveryVars, windowVars>>

MCSpec == MCInit /\ [][MCNext]_vars
==============================================================================
