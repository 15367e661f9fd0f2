---------------------------- MODULE WhaleDiscovery ----------------------------
(***************************************************************************)
(* How an address becomes a tracked whale: WhaleDiscovery and the part of  *)
(* WhaleTrackerEngine around it, fed by several trade-stream tasks, one    *)
(* tick loop and the HTTP endpoints that add and remove whales.  The set   *)
(* in memory (_tracked) and the table tracked_addresses are written at     *)
(* different times, with an await between them.                            *)
(*                                                                         *)
(* A volume is counted in units over all coins.  How the sliding window    *)
(* loses old trades is VolumeWindow's subject: here a tick may take any    *)
(* part of a volume away; and whether the volume on one coin is a large    *)
(* enough part of that coin's open interest is left open.  A restart       *)
(* forgets everything but the table, so every table is an initial state.   *)
(* MaxVolume bounds the volumes.                                           *)
(***************************************************************************)
EXTENDS Naturals, Sequences, FiniteSets, FiniteSetsExt, Functions

CONSTANTS Addr, NoAddr, Coin, Task,
          CoinsOf,      \* the coins a stream task subscribes to
          DexOf,        \* the HIP-3 dex of a coin, NoDex for a native one
          NoDex,
          Threshold,    \* whale_volume_threshold_usd
          MaxTracked,   \* max_tracked_addresses
          MaxVolume

ASSUME DiscoveryAssumption ==
    /\ NoAddr \notin Addr
    /\ {Threshold, MaxTracked} \subseteq Nat \ {0}
    /\ MaxVolume \in Nat

VARIABLES
    volume,     \* _window.address_volume
    tracked,    \* _tracked
    profile,    \* _whale_active_dexes; {} stands for a missing key
    task,       \* per stream task: the trade it awaits an insert for
    tick,       \* stage of WhaleTrackerEngine.tick and the rows it read
    stored,     \* table tracked_addresses
    excused     \* history: addresses that left _tracked, or were never looked at

memory == <<volume, tracked, profile>>
discoveryVars == <<memory, task, tick, stored, excused>>

Idle == [at |-> "idle", left |-> <<>>, sides |-> {}, coin |-> NoDex]
TickIdle == [at |-> "idle", rows |-> {}]
Nothing == [a \in Addr |-> {}]

DiscoveryInit ==
    /\ volume = [a \in Addr |-> 0]
    /\ tracked = {} /\ profile = Nothing
    /\ task = [t \in Task |-> Idle]
    /\ tick = TickIdle
    /\ stored \in SUBSET Addr
    /\ excused = {}

-----------------------------------------------------------------------------
(* The addresses that a look at both sides may promote: each one with enough
   volume, and any other with volume for its share of the open interest.   *)
Promotions(vol, sides) ==
    LET new == {a \in sides \ tracked : vol[a] > 0}
        big == {a \in new : vol[a] >= Threshold}
    IN  {big \union some : some \in SUBSET (new \ big)}

(* The engine's profile step, reached only when discovery did not raise. *)
EndTrade(t, sides, c) ==
    LET added == [a \in Addr |-> IF a \in sides /\ DexOf[c] # NoDex
                                 THEN {DexOf[c]} ELSE {}]
    IN  /\ profile' = [a \in Addr |-> profile[a] \union added[a]]
        /\ task' = [task EXCEPT ![t] = Idle]

\* Mutant of Examine: every hit is remembered at once, one is inserted.
ExamineAll(t, left, sides, c, vol) ==
    \E promoted \in Promotions(vol, Range(left) \ {NoAddr}) :
        LET hits == {i \in DOMAIN left : left[i] \in promoted}
            next == SubSeq(left, Min(hits), Len(left))
        IN  IF hits = {} THEN EndTrade(t, sides, c) /\ UNCHANGED tracked
            ELSE /\ tracked' = tracked \union promoted
                 /\ task' = [task EXCEPT ![t] = [at |-> "insert", left |-> next,
                                                sides |-> sides, coin |-> c]]
                 /\ UNCHANGED profile

(* The loop over buyer and seller, up to the next address to insert: it is
   in _tracked before its insert is awaited.                               *)
Examine(t, left, sides, c, vol) ==
    \E promoted \in Promotions(vol, Range(left) \ {NoAddr}) :
        LET hits == {i \in DOMAIN left : left[i] \in promoted}
            next == SubSeq(left, Min(hits), Len(left))
        IN  IF hits = {} THEN EndTrade(t, sides, c) /\ UNCHANGED tracked
            ELSE /\ tracked' = tracked \union {Head(next)}
                 /\ task' = [task EXCEPT ![t] = [at |-> "insert", left |-> next,
                                                sides |-> sides, coin |-> c]]
                 /\ UNCHANGED profile

OnTrade(t, buyer, seller, c) ==
    LET sides == {buyer, seller} \ {NoAddr}
        vol == [a \in Addr |-> volume[a] + IF a \in sides THEN 1 ELSE 0]
    IN  /\ task[t].at = "idle"
        /\ \A a \in sides : volume[a] < MaxVolume
        /\ volume' = vol
        /\ Examine(t, <<buyer, seller>>, sides, c, vol)
        /\ UNCHANGED <<tick, stored, excused>>

InsertDone(t) ==
    LET j == task[t]
    IN  /\ j.at = "insert"
        /\ stored' = stored \union {Head(j.left)}
        /\ excused' = excused \ ({Head(j.left)} \intersect tracked)
        /\ Examine(t, Tail(j.left), j.sides, j.coin, volume)
        /\ UNCHANGED <<volume, tick>>

(* The exception leaves on_trade: the other side is not examined, the
   address stays in _tracked.                                              *)
InsertFails(t) ==
    LET j == task[t]
    IN  /\ j.at = "insert"
        /\ excused' = excused \union {j.left[i] : i \in DOMAIN j.left}
        /\ task' = [task EXCEPT ![t] = Idle]
        /\ UNCHANGED <<memory, tick, stored>>

-----------------------------------------------------------------------------
(* cap_tracked keeps the addresses with the largest volumes. *)
Capped(vol) ==
    IF Cardinality(tracked) <= MaxTracked THEN {tracked}
    ELSE {k \in kSubset(MaxTracked, tracked) :
            \A a \in k, b \in tracked \ k : vol[a] >= vol[b]}

Pruned == {vol \in [Addr -> 0..MaxVolume] : \A a \in Addr : vol[a] <= volume[a]}

TickStart ==
    /\ tick.at = "idle"
    /\ \E vol \in Pruned : \E k \in Capped(vol) :
         /\ volume' = vol
         /\ tracked' = k
         /\ excused' = excused \union (tracked \ k)
    /\ tick' = [at |-> "read", rows |-> {}]
    /\ UNCHANGED <<profile, task, stored>>

TickRead ==
    /\ tick.at = "read"
    /\ tick' = [at |-> "merge", rows |-> stored]
    /\ UNCHANGED <<memory, task, stored, excused>>

TickReadFails ==
    /\ tick.at = "read"
    /\ tick' = TickIdle
    /\ UNCHANGED <<memory, task, stored, excused>>

\* Mutant of TickMerge: the database's set replaces the one in memory.
TickMergeReplaces ==
    /\ tick.at = "merge"
    /\ tracked' = tick.rows
    /\ profile' = [a \in Addr |-> IF a \in tick.rows THEN profile[a] ELSE {}]
    /\ excused' = excused \ (tick.rows \intersect stored)
    /\ tick' = TickIdle
    /\ UNCHANGED <<volume, task, stored>>

\* Mutant of TickMerge: the profiles are filtered before the union.
TickMergeProfileFirst ==
    LET merged == tracked \union tick.rows
    IN  /\ tick.at = "merge"
        /\ tracked' = merged
        /\ profile' = [a \in Addr |-> IF a \in tracked THEN profile[a] ELSE {}]
        /\ excused' = excused \ (tick.rows \intersect stored)
        /\ tick' = TickIdle
        /\ UNCHANGED <<volume, task, stored>>

(* The union is taken after the await, then the profiles follow it. *)
TickMerge ==
    LET merged == tracked \union tick.rows
    IN  /\ tick.at = "merge"
        /\ tracked' = merged
        /\ profile' = [a \in Addr |-> IF a \in merged THEN profile[a] ELSE {}]
        /\ excused' = excused \ (tick.rows \intersect stored)
        /\ tick' = TickIdle
        /\ UNCHANGED <<volume, task, stored>>

-----------------------------------------------------------------------------
AddWhale(a) ==
    /\ stored' = stored \union {a}
    /\ UNCHANGED <<memory, task, tick, excused>>

(* The running process keeps the address until a cap. *)
RemoveWhale(a) ==
    /\ stored' = stored \ {a}
    /\ excused' = excused \union ({a} \intersect stored)
    /\ UNCHANGED <<memory, task, tick>>

Tick == TickStart \/ TickRead \/ TickMerge

DiscoveryNext ==
    \/ \E t \in Task, b, s \in Addr \union {NoAddr} : \E c \in CoinsOf[t] :
          b # s /\ OnTrade(t, b, s, c)
    \/ \E t \in Task : InsertDone(t) \/ InsertFails(t)
    \/ Tick \/ TickReadFails
    \/ \E a \in Addr : AddWhale(a) \/ RemoveWhale(a)

DiscoverySpec == DiscoveryInit /\ [][DiscoveryNext]_discoveryVars

-----------------------------------------------------------------------------
Waiting == UNION {{task[t].left[i] : i \in DOMAIN task[t].left} : t \in Task}

(* Whatever trade tasks, ticks and failures interleave, an address whose
   volume is over the threshold is tracked, or an examination of it is under
   way, unless the cap, a failed insert or a removal excuses it: no discovery
   made while the tick awaits the database is lost (whale_tracker.py:86-88). *)
NoWhaleMissed ==
    \A a \in Addr : volume[a] >= Threshold =>
        a \in tracked \union Waiting \union excused

(* Memory is never ahead of the table for good: a tracked address is stored,
   or its insert is under way, or a failure or removal explains its absence
   (whale_discovery.py:54-60).                                             *)
TrackedIsStored ==
    tracked \subseteq stored \union excused \union tick.rows \union
        {Head(task[t].left) : t \in {u \in Task : task[u].at = "insert"}}

(* No step takes a dex out of the profile of an address that is tracked
   after it, so the filter of a tracked address's polls only grows
   (whale_tracker.py:96-101).                                              *)
TrackedKeepsProfile ==
    [][\A a \in tracked' : profile[a] \subseteq profile'[a]]_discoveryVars
=============================================================================
