----------------------------- MODULE VolumeWindow -----------------------------
(***************************************************************************)
(* SlidingVolumeWindow as its two owners use it: WhaleDiscovery, which     *)
(* also counts per coin, and PositionCensus, which caps the number of      *)
(* traders it keeps a total for.  A trade is kept with its age; its        *)
(* timestamp comes from the exchange, so trades of different streams are   *)
(* appended out of order.  MaxTrades bounds the window TLC follows.        *)
(***************************************************************************)
EXTENDS Naturals, Sequences, FiniteSets, FiniteSetsExt, Functions, SequencesExt

CONSTANTS Trader, WindowCoin,
          Lookback,      \* the window, in time units
          MaxDelay,      \* how old a trade may be when it arrives
          MaxTraders,    \* census_max_addresses
          MaxTrades

ASSUME WindowAssumption ==
    {Lookback, MaxDelay, MaxTraders, MaxTrades} \subseteq Nat /\ MaxDelay <= Lookback

VARIABLES
    window,       \* _trades: a sequence of [age, sides, coin, size]
    addressVolume,       \* address_volume; 0 stands for a missing key
    coinVolume,   \* coin_address_volume
    evicted       \* history: traders the cap removed, until their trades are gone

windowVars == <<window, addressVolume, coinVolume, evicted>>

WindowInit ==
    /\ window = <<>>
    /\ addressVolume = [a \in Trader |-> 0]
    /\ coinVolume = [a \in Trader |-> [c \in WindowCoin |-> 0]]
    /\ evicted = {}

-----------------------------------------------------------------------------
(* What the trades of a sequence contribute to a trader, on some coins. *)
Traded(trades, a, coins) ==
    LET mine == {i \in DOMAIN trades : a \in trades[i].sides /\ trades[i].coin \in coins}
    IN  SumFunctionOnSet([i \in DOMAIN trades |-> trades[i].size], mine)

Less(v, amount) == IF v > amount THEN v - amount ELSE 0

Listed(vol) == {a \in Trader : vol[a] > 0}

AddTrade(trade) ==
    /\ window' = Append(window, trade)
    /\ coinVolume' = [a \in Trader |-> [c \in WindowCoin |->
                        coinVolume[a][c] + Traded(<<trade>>, a, {c})]]

(* The census keeps the traders with the largest totals, once there are more
   than twice as many as it may keep.                                      *)
Kept(vol) ==
    IF Cardinality(Listed(vol)) <= 2 * MaxTraders THEN {Listed(vol)}
    ELSE {k \in kSubset(MaxTraders, Listed(vol)) :
            \A a \in k, b \in Listed(vol) \ k : vol[a] >= vol[b]}

OnTradeWindow(trade) ==
    LET vol == [a \in Trader |-> addressVolume[a] + Traded(<<trade>>, a, WindowCoin)]
    IN  /\ Len(window) < MaxTrades
        /\ AddTrade(trade)
        /\ \E k \in Kept(vol) :
             /\ addressVolume' = [a \in Trader |-> IF a \in k THEN vol[a] ELSE 0]
             /\ evicted' = evicted \union (Listed(vol) \ k)

(* Pruning stops at the first trade that is young enough, even if an older
   one follows it.                                                         *)
Expired(trades) ==
    LET kept == {i \in DOMAIN trades : trades[i].age <= Lookback}
    IN  IF kept = {} THEN Len(trades) ELSE Min(kept) - 1

\* Mutant of Prune: every expired trade leaves, the leading ones are counted.
PruneAll ==
    LET gone == SubSeq(window, 1, Expired(window))
        left == SelectSeq(window, LAMBDA t : t.age <= Lookback)
    IN  /\ window' = left
        /\ addressVolume' = [a \in Trader |-> Less(addressVolume[a], Traded(gone, a, WindowCoin))]
        /\ coinVolume' = [a \in Trader |-> [c \in WindowCoin |->
                            Less(coinVolume[a][c], Traded(gone, a, {c}))]]
        /\ evicted' = {a \in evicted : Traded(left, a, WindowCoin) > 0}

Prune ==
    LET gone == SubSeq(window, 1, Expired(window))
        left == SubSeq(window, Len(gone) + 1, Len(window))
    IN  /\ window' = left
        /\ addressVolume' = [a \in Trader |-> Less(addressVolume[a], Traded(gone, a, WindowCoin))]
        /\ coinVolume' = [a \in Trader |-> [c \in WindowCoin |->
                            Less(coinVolume[a][c], Traded(gone, a, {c}))]]
        /\ evicted' = {a \in evicted : Traded(left, a, WindowCoin) > 0}

Age ==
    /\ window' = [i \in DOMAIN window |->
                    [window[i] EXCEPT !.age = Min({@ + 1, Lookback + 1})]]
    /\ UNCHANGED <<addressVolume, coinVolume, evicted>>

WindowNext ==
    \/ \E s \in SUBSET Trader, c \in WindowCoin, n \in 1..2, d \in 0..MaxDelay :
         /\ Cardinality(s) <= 2
         /\ OnTradeWindow([age |-> d, sides |-> s, coin |-> c, size |-> n])
    \/ Prune \/ Age

WindowSpec == WindowInit /\ [][WindowNext]_windowVars

-----------------------------------------------------------------------------
(* The totals and the retained trades agree although pruning subtracts from
   totals the cap may have removed: a total is never more than the trades in
   the window, and exactly that for a trader the cap has not evicted; the
   per-coin totals are always exact (_volume_window.py:99-131).            *)
TotalsMatchWindow ==
    \A a \in Trader :
        /\ addressVolume[a] <= Traded(window, a, WindowCoin)
        /\ a \notin evicted => addressVolume[a] = Traded(window, a, WindowCoin)
        /\ \A c \in WindowCoin : coinVolume[a][c] = Traded(window, a, {c})
=============================================================================
