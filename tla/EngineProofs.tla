----------------------------- MODULE EngineProofs -----------------------------
(***************************************************************************)
(* Proofs about the engines: WhaleDiscovery, for every set of addresses    *)
(* and every number of stream tasks, Detectors, for every set of keys, and *)
(* VolumeWindow, for every sequence of trades.                             *)
(***************************************************************************)
EXTENDS WhaleDiscovery, VolumeWindow, Detectors, DataLemmas

(***************************************************************************)
(* WhaleDiscovery.  The history variable excused is what makes the two     *)
(* invariants depend on each other: an insert that ends takes an address   *)
(* out of it, which is sound only because the address is then stored.      *)
(***************************************************************************)
Side == Addr \union {NoAddr}
AnyCoin == {NoDex} \union UNION {CoinsOf[t] : t \in Task}
AnyDex == {NoDex} \union {DexOf[c] : c \in AnyCoin}
TradeTask == [at : {"idle", "insert"}, left : Seq(Side), sides : SUBSET Addr,
              coin : AnyCoin]

DiscoveryTypeOK ==
    /\ volume \in [Addr -> Nat]
    /\ tracked \subseteq Addr
    /\ profile \in [Addr -> SUBSET AnyDex]
    /\ task \in [Task -> TradeTask]
    /\ tick \in [at : {"idle", "read", "merge"}, rows : SUBSET Addr]
    /\ stored \subseteq Addr
    /\ excused \subseteq Side

\* An idle task holds no trade; one that inserts has the address first in its
\* list, and the address is in _tracked unless the cap has removed it.
TasksHold ==
    \A t \in Task :
        /\ task[t].at = "idle" => task[t].left = <<>>
        /\ task[t].at = "insert" => /\ task[t].left # <<>>
                                    /\ Head(task[t].left) \in Addr
                                    /\ Head(task[t].left) \in tracked \union excused

\* The rows a tick has read are still stored, or were removed since.
RowsHold ==
    /\ tick.at # "merge" => tick.rows = {}
    /\ tick.rows \subseteq stored \union excused

DiscoveryInv ==
    /\ DiscoveryTypeOK /\ TasksHold /\ RowsHold
    /\ NoWhaleMissed /\ TrackedIsStored

\* What the loop over the sides of a trade does: an address over the threshold is
\* tracked afterwards or still in the list, and only the first of that list is new.
Examined(t, left, vol) ==
    /\ task' \in [Task -> TradeTask]
    /\ \A u \in Task : u # t => task'[u] = task[u]
    /\ task'[t].at = "idle" => task'[t].left = <<>> /\ tracked' = tracked
    /\ task'[t].at = "insert" => /\ task'[t].left # <<>>
                                 /\ Head(task'[t].left) \in Addr
                                 /\ tracked' = tracked \union {Head(task'[t].left)}
    /\ \A i \in DOMAIN left :
         left[i] \in Addr /\ vol[left[i]] >= Threshold
           => \/ left[i] \in tracked
              \/ \E j \in DOMAIN task'[t].left : task'[t].left[j] = left[i]

\* Examining a trade's sides writes the first whale among them or ends the trade:
\* no whale among the sides is passed over.
LEMMA ExamineProperties ==
  ASSUME DiscoveryTypeOK, NEW t \in Task, NEW left \in Seq(Side),
         NEW sides \in SUBSET Addr, NEW c \in AnyCoin, NEW vol \in [Addr -> Nat],
         Examine(t, left, sides, c, vol)
  PROVE  Examined(t, left, vol)
<1> DEFINE sidesLeft == Range(left) \ {NoAddr}
<1>1. PICK promoted \in Promotions(vol, sidesLeft) :
        LET hits == {i \in DOMAIN left : left[i] \in promoted}
            next == SubSeq(left, Min(hits), Len(left))
        IN  IF hits = {} THEN EndTrade(t, sides, c) /\ UNCHANGED tracked
            ELSE /\ tracked' = tracked \union {Head(next)}
                 /\ task' = [task EXCEPT ![t] = [at |-> "insert", left |-> next,
                                                sides |-> sides, coin |-> c]]
                 /\ UNCHANGED profile
  BY DEF Examine
<1> DEFINE hits == {i \in DOMAIN left : left[i] \in promoted}
           next == SubSeq(left, Min(hits), Len(left))
<1>2. promoted \subseteq Addr
  BY DiscoveryAssumption DEF Promotions, Range, Side
<1>3. \A i \in DOMAIN left :
        left[i] \in Addr /\ vol[left[i]] >= Threshold =>
          left[i] \in tracked \/ i \in hits
  <2> SUFFICES ASSUME NEW i \in DOMAIN left, left[i] \in Addr,
                      vol[left[i]] >= Threshold, left[i] \notin tracked
               PROVE  left[i] \in promoted
    OBVIOUS
  <2>1. left[i] \in sidesLeft BY DiscoveryAssumption DEF Range
  <2>2. vol[left[i]] > 0 BY DiscoveryAssumption
  <2> QED BY <2>1, <2>2 DEF Promotions
<1>4. CASE hits = {}
  <2>1. EndTrade(t, sides, c) /\ tracked' = tracked BY <1>1, <1>4
  <2>2. task' = [task EXCEPT ![t] = Idle] BY <2>1 DEF EndTrade
  <2>3. Idle \in TradeTask BY EmptySeq DEF Idle, AnyCoin, TradeTask
  <2> QED BY <1>3, <1>4, <2>1, <2>2, <2>3 DEF Idle, DiscoveryTypeOK, Examined
<1>5. CASE hits # {}
  <2>1. /\ hits \subseteq 1..Len(left) /\ DOMAIN left = 1..Len(left)
        /\ Len(left) \in Nat
    BY LenProperties
  <2>2. Min(hits) \in hits /\ \A i \in hits : Min(hits) <= i
    <3>1. hits \in SUBSET Nat BY <2>1
    <3> QED BY <1>5, <3>1, MinProperties
  <2> DEFINE m == Min(hits)
  <2> HIDE DEF m
  <2>3. m \in hits /\ m \in 1..Len(left) /\ \A i \in hits : m <= i
    BY <2>1, <2>2 DEF m
  <2>4. next = SubSeq(left, m, Len(left)) BY DEF m
  <2>5. /\ next \in Seq(Side) /\ Len(next) = Len(left) - m + 1
        /\ DOMAIN next = 1..(Len(left) - m + 1)
        /\ \A j \in 1..(Len(left) - m + 1) : next[j] = left[m + j - 1]
    <3>1. m \in 1..(Len(left) + 1) BY <2>1, <2>3
    <3> QED BY <2>4, <3>1, DropProperties
  <2> HIDE DEF next
  <2>6. next # <<>> /\ Head(next) = left[m]
    BY <2>1, <2>3, <2>5
  <2>7. Head(next) \in Addr BY <1>2, <2>3, <2>6
  <2>8. \A i \in hits : next[i - m + 1] = left[i] /\ i - m + 1 \in DOMAIN next
    BY <2>1, <2>3, <2>5
  <2>9. /\ tracked' = tracked \union {Head(next)}
        /\ task' = [task EXCEPT ![t] = [at |-> "insert", left |-> next,
                                        sides |-> sides, coin |-> c]]
    BY <1>1, <1>5 DEF next
  <2>10. [at |-> "insert", left |-> next, sides |-> sides, coin |-> c] \in TradeTask
    BY <2>5 DEF TradeTask
  <2>11. /\ task' \in [Task -> TradeTask]
         /\ \A u \in Task : u # t => task'[u] = task[u]
         /\ task'[t].left = next /\ task'[t].at = "insert"
    BY <2>9, <2>10 DEF DiscoveryTypeOK
  <2> QED BY <1>3, <2>6, <2>7, <2>8, <2>9, <2>11 DEF Examined
<1> QED BY <1>4, <1>5

\* The two invariants over a step that examines the sides of a trade: task t held
\* nothing, or held an address whose insert has ended.
LEMMA ExamineStep ==
  ASSUME DiscoveryInv, NEW t \in Task, NEW left \in Seq(Side),
         NEW sides \in SUBSET Addr, NEW c \in AnyCoin, NEW vol \in [Addr -> Nat],
         Examine(t, left, sides, c, vol), volume' = vol, UNCHANGED tick,
         \A a \in Addr : vol[a] >= Threshold =>
           \/ volume[a] >= Threshold
           \/ \E i \in DOMAIN left : left[i] = a,
         stored \subseteq stored', stored' \subseteq Addr, excused' \subseteq excused,
         excused \ excused' \subseteq stored' \intersect tracked,
         \A i \in DOMAIN task[t].left :
           \/ \E j \in DOMAIN left : left[j] = task[t].left[i]
           \/ task[t].left[i] \in tracked \union excused',
         task[t].at = "insert" => Head(task[t].left) \in stored'
  PROVE  TasksHold' /\ RowsHold' /\ NoWhaleMissed' /\ TrackedIsStored'
<1>0. DiscoveryTypeOK BY DEF DiscoveryInv
<1>1. Examined(t, left, vol) BY <1>0, ExamineProperties
<1> USE DEF DiscoveryInv, Examined, TradeTask
<1>2. task'[t].at \in {"idle", "insert"} BY <1>1
<1>3. tracked \subseteq tracked' BY <1>1, <1>2
<1>4. TasksHold'
  <2> SUFFICES ASSUME NEW u \in Task
               PROVE  /\ task'[u].at = "idle" => task'[u].left = <<>>
                      /\ task'[u].at = "insert" =>
                           /\ task'[u].left # <<>>
                           /\ Head(task'[u].left) \in Addr
                           /\ Head(task'[u].left) \in tracked' \union excused'
    BY DEF TasksHold
  <2>1. CASE u = t BY <1>1, <2>1
  <2>2. CASE u # t BY <1>1, <1>3, <2>2 DEF TasksHold
  <2> QED BY <2>1, <2>2
<1>5. RowsHold' BY DEF RowsHold
<1>6. NoWhaleMissed'
  <2> SUFFICES ASSUME NEW a \in Addr, vol[a] >= Threshold, a \notin tracked',
                      a \notin excused'
               PROVE  \E u \in Task : \E i \in DOMAIN task'[u].left :
                        task'[u].left[i] = a
    BY DEF NoWhaleMissed, Waiting
  <2>1. a \notin tracked /\ a \notin excused BY <1>3
  <2>2. CASE \E i \in DOMAIN left : left[i] = a BY <1>1, <2>1, <2>2
  <2>3. CASE ~ \E i \in DOMAIN left : left[i] = a
    <3>1. volume[a] >= Threshold BY <2>3
    <3>2. PICK u \in Task : \E i \in DOMAIN task[u].left : task[u].left[i] = a
      BY <2>1, <3>1 DEF NoWhaleMissed, Waiting
    <3>3. u # t BY <2>1, <2>3, <3>2
    <3> QED BY <1>1, <3>2, <3>3
  <2> QED BY <2>2, <2>3
<1>7. TrackedIsStored'
  <2> DEFINE heads == {Head(task[u].left) : u \in {v \in Task : task[v].at = "insert"}}
             heads2 == {Head(task'[u].left) : u \in {v \in Task : task'[v].at = "insert"}}
  <2> SUFFICES ASSUME NEW a \in tracked', a \notin stored', a \notin excused',
                      a \notin tick.rows
               PROVE  a \in heads2
    BY DEF TrackedIsStored
  <2>1. CASE a \in tracked
    <3>1. a \in heads BY <2>1 DEF TrackedIsStored
    <3>2. PICK u \in Task : task[u].at = "insert" /\ a = Head(task[u].left)
      BY <3>1
    <3>3. u # t BY <3>2
    <3> QED BY <1>1, <3>2, <3>3
  <2>2. CASE a \notin tracked BY <1>1, <1>2, <2>2
  <2> QED BY <2>1, <2>2
<1> QED BY <1>4, <1>5, <1>6, <1>7

\* The types after such a step: the profiles gain dexes.
LEMMA ExamineTypes ==
  ASSUME DiscoveryTypeOK, NEW t \in Task, NEW left \in Seq(Side),
         NEW sides \in SUBSET Addr, NEW c \in AnyCoin, NEW vol \in [Addr -> Nat],
         Examine(t, left, sides, c, vol)
  PROVE  /\ tracked \subseteq tracked' /\ tracked' \subseteq Addr
         /\ profile' \in [Addr -> SUBSET AnyDex]
         /\ \A a \in Addr : profile[a] \subseteq profile'[a]
<1>1. Examined(t, left, vol) BY ExamineProperties
<1>2. tracked \subseteq tracked' /\ tracked' \subseteq Addr
  BY <1>1 DEF DiscoveryTypeOK, Examined, TradeTask
<1>3. EndTrade(t, sides, c) \/ UNCHANGED profile BY DEF Examine
<1>4. CASE UNCHANGED profile BY <1>2, <1>4 DEF DiscoveryTypeOK
<1>5. CASE EndTrade(t, sides, c)
  <2> DEFINE added == [a \in Addr |-> IF a \in sides /\ DexOf[c] # NoDex
                                      THEN {DexOf[c]} ELSE {}]
  <2>1. profile' = [a \in Addr |-> profile[a] \union added[a]]
    BY <1>5 DEF EndTrade
  <2>2. \A a \in Addr : added[a] \in SUBSET AnyDex BY DEF AnyDex
  <2> HIDE DEF added
  <2> QED BY <1>2, <2>1, <2>2 DEF DiscoveryTypeOK
<1> QED BY <1>3, <1>4, <1>5

\* A trade arrives: its volume is counted and both sides are examined.
LEMMA OnTradeStep ==
  ASSUME DiscoveryInv, NEW t \in Task, NEW b \in Side, NEW r \in Side,
         NEW c \in CoinsOf[t], OnTrade(t, b, r, c)
  PROVE  DiscoveryInv'
<1> DEFINE sides == {b, r} \ {NoAddr}
           vol == [a \in Addr |-> volume[a] + IF a \in sides THEN 1 ELSE 0]
           left == <<b, r>>
<1>1. /\ task[t].at = "idle" /\ volume' = vol /\ UNCHANGED <<tick, stored, excused>>
      /\ Examine(t, left, sides, c, vol)
  BY DEF OnTrade
<1>2. /\ left \in Seq(Side) /\ sides \in SUBSET Addr /\ c \in AnyCoin
      /\ \A a \in sides : \E i \in DOMAIN left : left[i] = a
  BY DEF Side, AnyCoin
<1>3. vol \in [Addr -> Nat] BY DEF DiscoveryInv, DiscoveryTypeOK
<1>4. \A a \in Addr : vol[a] >= Threshold =>
        volume[a] >= Threshold \/ \E i \in DOMAIN left : left[i] = a
  <2> SUFFICES ASSUME NEW a \in Addr, vol[a] >= Threshold, a \notin sides
               PROVE  volume[a] >= Threshold
    BY <1>2
  <2> QED BY DEF DiscoveryInv, DiscoveryTypeOK
<1>5. task[t].left = <<>> BY <1>1 DEF DiscoveryInv, TasksHold
<1>6. DiscoveryTypeOK BY DEF DiscoveryInv
<1> HIDE DEF left, sides, vol
<1>7. Examined(t, left, vol) BY <1>1, <1>2, <1>3, <1>6, ExamineProperties
<1>8. /\ tracked' \subseteq Addr /\ profile' \in [Addr -> SUBSET AnyDex]
  BY <1>1, <1>2, <1>3, <1>6, ExamineTypes
<1>9. DiscoveryTypeOK' BY <1>1, <1>3, <1>6, <1>7, <1>8 DEF DiscoveryTypeOK, Examined
<1>10. TasksHold' /\ RowsHold' /\ NoWhaleMissed' /\ TrackedIsStored'
  <2>1. /\ stored \subseteq stored' /\ stored' \subseteq Addr
        /\ excused' \subseteq excused
        /\ excused \ excused' \subseteq stored' \intersect tracked
    BY <1>1, <1>6 DEF DiscoveryTypeOK
  <2>2. \A i \in DOMAIN task[t].left :
           \/ \E j \in DOMAIN left : left[j] = task[t].left[i]
           \/ task[t].left[i] \in tracked \union excused'
    BY <1>5
  <2>3. task[t].at # "insert" BY <1>1
  <2> QED BY <1>1, <1>2, <1>3, <1>4, <2>1, <2>2, <2>3, ExamineStep
<1> QED BY <1>9, <1>10 DEF DiscoveryInv

\* An insert ends and the rest of its trade is examined.
LEMMA InsertDoneStep ==
  ASSUME DiscoveryInv, NEW t \in Task, InsertDone(t)
  PROVE  DiscoveryInv'
<1> DEFINE j == task[t]
           left == Tail(j.left)
<1>1. /\ j.at = "insert"
      /\ stored' = stored \union {Head(j.left)}
      /\ excused' = excused \ ({Head(j.left)} \intersect tracked)
      /\ Examine(t, left, j.sides, j.coin, volume)
      /\ UNCHANGED <<volume, tick>>
  BY DEF InsertDone
<1>2. DiscoveryTypeOK BY DEF DiscoveryInv
<1>3. j \in TradeTask BY <1>2 DEF DiscoveryTypeOK
<1>4. /\ j.left \in Seq(Side) /\ j.left # <<>>
      /\ Head(j.left) \in Addr /\ Head(j.left) \in tracked \union excused
  BY <1>1, <1>3 DEF DiscoveryInv, TasksHold, TradeTask
<1>5. /\ left \in Seq(Side) /\ Head(j.left) = j.left[1]
      /\ \A i \in DOMAIN j.left : i # 1 =>
           i - 1 \in DOMAIN left /\ left[i - 1] = j.left[i]
  BY <1>4
<1>6. /\ j.sides \in SUBSET Addr /\ j.coin \in AnyCoin /\ volume \in [Addr -> Nat]
  BY <1>2, <1>3 DEF TradeTask, DiscoveryTypeOK
<1> HIDE DEF left
<1>7. Examined(t, left, volume) BY <1>1, <1>2, <1>5, <1>6, ExamineProperties
<1>8. /\ tracked' \subseteq Addr /\ profile' \in [Addr -> SUBSET AnyDex]
  BY <1>1, <1>2, <1>5, <1>6, ExamineTypes
<1>9. DiscoveryTypeOK'
  BY <1>1, <1>2, <1>4, <1>7, <1>8 DEF DiscoveryTypeOK, Examined
<1>10. TasksHold' /\ RowsHold' /\ NoWhaleMissed' /\ TrackedIsStored'
  <2>1. /\ stored \subseteq stored' /\ stored' \subseteq Addr
        /\ excused' \subseteq excused
        /\ excused \ excused' \subseteq stored' \intersect tracked
        /\ Head(j.left) \in stored'
    BY <1>1, <1>2, <1>4 DEF DiscoveryTypeOK
  <2>2. \A i \in DOMAIN j.left :
           \/ \E k \in DOMAIN left : left[k] = j.left[i]
           \/ j.left[i] \in tracked \union excused'
    <3> SUFFICES ASSUME NEW i \in DOMAIN j.left
                 PROVE  \/ \E k \in DOMAIN left : left[k] = j.left[i]
                        \/ j.left[i] \in tracked \union excused'
      OBVIOUS
    <3>1. CASE i = 1 BY <1>1, <1>4, <1>5, <3>1
    <3>2. CASE i # 1 BY <1>5, <3>2
    <3> QED BY <3>1, <3>2
  <2>3. \A a \in Addr : volume[a] >= Threshold =>
          volume[a] >= Threshold \/ \E i \in DOMAIN left : left[i] = a
    OBVIOUS
  <2>4. volume' = volume /\ UNCHANGED tick BY <1>1
  <2> QED BY <1>1, <1>5, <1>6, <2>1, <2>2, <2>3, <2>4, ExamineStep
<1> QED BY <1>9, <1>10 DEF DiscoveryInv

\* An insert raises: what its trade still held is excused.
LEMMA InsertFailsStep ==
  ASSUME DiscoveryInv, NEW t \in Task, InsertFails(t)
  PROVE  DiscoveryInv'
<1> DEFINE j == task[t]
<1>1. /\ j.at = "insert"
      /\ excused' = excused \union {j.left[i] : i \in DOMAIN j.left}
      /\ task' = [task EXCEPT ![t] = Idle]
      /\ UNCHANGED <<volume, tracked, profile, tick, stored>>
  BY DEF InsertFails, memory
<1> USE DEF DiscoveryInv, DiscoveryTypeOK
<1>2. j \in TradeTask OBVIOUS
<1>3. /\ j.left \in Seq(Side) /\ j.left # <<>>
      /\ \A i \in DOMAIN j.left : j.left[i] \in Side
      /\ 1 \in DOMAIN j.left /\ Head(j.left) = j.left[1]
  BY <1>1, <1>2 DEF TradeTask, TasksHold
<1>4. Idle \in TradeTask BY EmptySeq DEF Idle, AnyCoin, TradeTask
<1>5. DiscoveryTypeOK' BY <1>1, <1>3, <1>4
<1>6. task' = [task EXCEPT ![t] = Idle] /\ task \in [Task -> TradeTask] BY <1>1
<1> HIDE DEF DiscoveryTypeOK
<1>7. TasksHold'
  <2> SUFFICES ASSUME NEW u \in Task
               PROVE  /\ task'[u].at = "idle" => task'[u].left = <<>>
                      /\ task'[u].at = "insert" =>
                           /\ task'[u].left # <<>>
                           /\ Head(task'[u].left) \in Addr
                           /\ Head(task'[u].left) \in tracked' \union excused'
    BY DEF TasksHold
  <2>1. CASE u = t BY <1>6, <2>1 DEF Idle
  <2>2. CASE u # t BY <1>1, <1>6, <2>2 DEF TasksHold
  <2> QED BY <2>1, <2>2
<1>8. RowsHold' BY <1>1 DEF RowsHold
<1>9. NoWhaleMissed'
  <2> SUFFICES ASSUME NEW a \in Addr, volume[a] >= Threshold, a \notin tracked,
                      a \notin excused'
               PROVE  \E u \in Task : \E i \in DOMAIN task'[u].left :
                        task'[u].left[i] = a
    BY <1>1 DEF NoWhaleMissed, Waiting
  <2>1. PICK u \in Task : \E i \in DOMAIN task[u].left : task[u].left[i] = a
    BY <1>1 DEF NoWhaleMissed, Waiting
  <2>2. u # t BY <1>1, <2>1
  <2> QED BY <1>6, <2>1, <2>2
<1>10. TrackedIsStored'
  <2> DEFINE heads2 == {Head(task'[u].left) : u \in {v \in Task : task'[v].at = "insert"}}
  <2> SUFFICES ASSUME NEW a \in tracked, a \notin stored, a \notin excused',
                      a \notin tick.rows
               PROVE  a \in heads2
    BY <1>1 DEF TrackedIsStored
  <2>1. PICK u \in Task : task[u].at = "insert" /\ a = Head(task[u].left)
    BY <1>1 DEF TrackedIsStored
  <2>2. u # t BY <1>1, <1>3, <2>1
  <2> QED BY <1>6, <2>1, <2>2
<1> QED BY <1>5, <1>7, <1>8, <1>9, <1>10

\* The tick prunes the window and caps the set: volumes only fall.
LEMMA TickStartStep ==
  ASSUME DiscoveryInv, TickStart PROVE DiscoveryInv'
<1>1. PICK vol \in Pruned : \E k \in Capped(vol) :
         /\ volume' = vol
         /\ tracked' = k
         /\ excused' = excused \union (tracked \ k)
  BY DEF TickStart
<1>2. PICK k \in Capped(vol) :
         volume' = vol /\ tracked' = k /\ excused' = excused \union (tracked \ k)
  BY <1>1
<1>3. /\ tick.at = "idle" /\ tick' = [at |-> "read", rows |-> {}]
      /\ UNCHANGED <<profile, task, stored>>
  BY DEF TickStart
<1>4. k \subseteq tracked
  <2>1. CASE Cardinality(tracked) <= MaxTracked BY <2>1 DEF Capped
  <2>2. CASE ~(Cardinality(tracked) <= MaxTracked)
    BY <2>2 DEF Capped, kSubset
  <2> QED BY <2>1, <2>2
<1> USE DEF DiscoveryInv, DiscoveryTypeOK
<1>5. /\ vol \in [Addr -> Nat] /\ \A a \in Addr : vol[a] <= volume[a]
  BY DiscoveryAssumption DEF Pruned
<1>6. DiscoveryTypeOK'
  BY <1>2, <1>3, <1>4, <1>5 DEF Side
<1>7. TasksHold' BY <1>2, <1>3 DEF TasksHold
<1>8. RowsHold' BY <1>2, <1>3 DEF RowsHold
<1>9. NoWhaleMissed'
  <2> SUFFICES ASSUME NEW a \in Addr, vol[a] >= Threshold
               PROVE  a \in tracked' \union Waiting \union excused'
    BY <1>2, <1>3 DEF NoWhaleMissed, Waiting
  <2>1. volume[a] >= Threshold BY <1>5, DiscoveryAssumption
  <2>2. a \in tracked \union Waiting \union excused BY <2>1 DEF NoWhaleMissed
  <2> QED BY <1>2, <2>2
<1>10. TrackedIsStored'
  BY <1>2, <1>3, <1>4 DEF TrackedIsStored, RowsHold
<1> QED BY <1>6, <1>7, <1>8, <1>9, <1>10

\* The tick reads the table, or fails to.
LEMMA TickReadStep ==
  ASSUME DiscoveryInv, TickRead \/ TickReadFails PROVE DiscoveryInv'
<1>1. /\ tick.at = "read"
      /\ \/ tick' = [at |-> "merge", rows |-> stored]
         \/ tick' = [at |-> "idle", rows |-> {}]
      /\ UNCHANGED <<volume, tracked, profile, task, stored, excused>>
  BY DEF TickRead, TickReadFails, TickIdle, memory
<1> USE DEF DiscoveryInv, DiscoveryTypeOK
<1>2. DiscoveryTypeOK' BY <1>1
<1>3. TasksHold' BY <1>1 DEF TasksHold
<1>4. RowsHold' BY <1>1 DEF RowsHold
<1>5. NoWhaleMissed' BY <1>1 DEF NoWhaleMissed, Waiting
<1>6. TrackedIsStored'
  <2>1. tick.rows = {} BY <1>1 DEF RowsHold
  <2> QED BY <1>1, <2>1 DEF TrackedIsStored
<1> QED BY <1>2, <1>3, <1>4, <1>5, <1>6

\* The tick takes the union of the rows and the set in memory.
LEMMA TickMergeStep ==
  ASSUME DiscoveryInv, TickMerge PROVE DiscoveryInv'
<1>1. /\ tick.at = "merge" /\ tracked' = tracked \union tick.rows
      /\ profile' = [a \in Addr |-> IF a \in tracked \union tick.rows
                                    THEN profile[a] ELSE {}]
      /\ excused' = excused \ (tick.rows \intersect stored)
      /\ tick' = [at |-> "idle", rows |-> {}]
      /\ UNCHANGED <<volume, task, stored>>
  BY DEF TickMerge, TickIdle
<1> USE DEF DiscoveryInv, DiscoveryTypeOK
<1>2. DiscoveryTypeOK' BY <1>1
<1>3. TasksHold' BY <1>1 DEF TasksHold
<1>4. RowsHold' BY <1>1 DEF RowsHold
<1>5. NoWhaleMissed' BY <1>1 DEF NoWhaleMissed, Waiting
<1>6. TrackedIsStored' BY <1>1 DEF TrackedIsStored, RowsHold
<1> QED BY <1>2, <1>3, <1>4, <1>5, <1>6

\* The endpoints write the table only.
LEMMA EndpointStep ==
  ASSUME DiscoveryInv, NEW a \in Addr, AddWhale(a) \/ RemoveWhale(a)
  PROVE  DiscoveryInv'
<1>1. /\ \/ stored' = stored \union {a} /\ excused' = excused
         \/ stored' = stored \ {a} /\ excused' = excused \union ({a} \intersect stored)
      /\ UNCHANGED <<volume, tracked, profile, task, tick>>
  BY DEF AddWhale, RemoveWhale, memory
<1> USE DEF DiscoveryInv, DiscoveryTypeOK
<1>2. DiscoveryTypeOK' BY <1>1 DEF Side
<1>3. TasksHold' BY <1>1 DEF TasksHold
<1>4. RowsHold' BY <1>1 DEF RowsHold
<1>5. NoWhaleMissed' BY <1>1 DEF NoWhaleMissed, Waiting
<1>6. TrackedIsStored' BY <1>1 DEF TrackedIsStored
<1> QED BY <1>2, <1>3, <1>4, <1>5, <1>6

\* A start forgets everything but the table.
LEMMA DiscoveryStart ==
  ASSUME DiscoveryInit PROVE DiscoveryInv
<1> USE DEF DiscoveryInit, Idle, TickIdle, Nothing
<1>1. DiscoveryTypeOK
  <2>1. Idle \in TradeTask BY EmptySeq DEF TradeTask, AnyCoin
  <2> HIDE DEF Idle
  <2> QED BY <2>1 DEF DiscoveryTypeOK
<1>2. TasksHold BY DEF TasksHold
<1>3. RowsHold BY DEF RowsHold
<1>4. NoWhaleMissed BY DiscoveryAssumption DEF NoWhaleMissed
<1>5. TrackedIsStored BY DEF TrackedIsStored
<1> QED BY <1>1, <1>2, <1>3, <1>4, <1>5 DEF DiscoveryInv

\* Every step of the specification keeps the inductive invariant.
LEMMA DiscoveryStep ==
  ASSUME DiscoveryInv, [DiscoveryNext]_discoveryVars PROVE DiscoveryInv'
<1>1. CASE UNCHANGED discoveryVars
  BY <1>1 DEF discoveryVars, memory, DiscoveryInv, DiscoveryTypeOK, TasksHold,
              RowsHold, NoWhaleMissed, Waiting, TrackedIsStored
<1>2. CASE \E t \in Task, b, s \in Side : \E c \in CoinsOf[t] : OnTrade(t, b, s, c)
  BY <1>2, OnTradeStep
<1>3. CASE \E t \in Task : InsertDone(t) \/ InsertFails(t)
  BY <1>3, InsertDoneStep, InsertFailsStep
<1>4. CASE Tick \/ TickReadFails
  BY <1>4, TickStartStep, TickReadStep, TickMergeStep DEF Tick
<1>5. CASE \E a \in Addr : AddWhale(a) \/ RemoveWhale(a)
  BY <1>5, EndpointStep
<1> QED BY <1>1, <1>2, <1>3, <1>4, <1>5 DEF DiscoveryNext, Side

\* The inductive invariant holds in every reachable state.
LEMMA DiscoveryInvariant == DiscoverySpec => []DiscoveryInv
<1>1. DiscoveryInit => DiscoveryInv BY DiscoveryStart
<1>2. DiscoveryInv /\ [DiscoveryNext]_discoveryVars => DiscoveryInv'
  BY DiscoveryStep
<1> QED BY <1>1, <1>2, PTL DEF DiscoverySpec

\* No address over the threshold is missed, whatever the interleaving of trade
\* tasks, ticks, failures and endpoints (whale_tracker.py:86-88).
THEOREM NoWhaleIsMissed == DiscoverySpec => []NoWhaleMissed
<1>1. DiscoveryInv => NoWhaleMissed BY DEF DiscoveryInv
<1> QED BY <1>1, DiscoveryInvariant, PTL

\* Memory is ahead of the table only during an insert, or with an excuse
\* (whale_discovery.py:54-60).
THEOREM MemoryFollowsTable == DiscoverySpec => []TrackedIsStored
<1>1. DiscoveryInv => TrackedIsStored BY DEF DiscoveryInv
<1> QED BY <1>1, DiscoveryInvariant, PTL

\* No step takes a dex from the profile of an address that is tracked after it.
LEMMA ProfileStep ==
  ASSUME DiscoveryInv, [DiscoveryNext]_discoveryVars
  PROVE  \A a \in tracked' : profile[a] \subseteq profile'[a]
<1>0. DiscoveryTypeOK /\ tracked' \subseteq Addr
  BY DiscoveryStep DEF DiscoveryInv, DiscoveryTypeOK
<1>1. CASE UNCHANGED profile BY <1>1
<1>2. CASE \E t \in Task, b, s \in Side : \E c \in CoinsOf[t] : OnTrade(t, b, s, c)
  <2>0. PICK t \in Task, b, s \in Side : \E c \in CoinsOf[t] : OnTrade(t, b, s, c)
    BY <1>2
  <2>1. PICK c \in CoinsOf[t] : OnTrade(t, b, s, c) BY <2>0
  <2> DEFINE sides == {b, s} \ {NoAddr}
             vol == [a \in Addr |-> volume[a] + IF a \in sides THEN 1 ELSE 0]
             left == <<b, s>>
  <2>2. Examine(t, left, sides, c, vol) BY <2>1 DEF OnTrade
  <2>3. left \in Seq(Side) /\ sides \in SUBSET Addr /\ c \in AnyCoin
    BY DEF Side, AnyCoin
  <2>4. vol \in [Addr -> Nat] BY <1>0 DEF DiscoveryTypeOK
  <2> HIDE DEF left, sides, vol
  <2> QED BY <1>0, <2>2, <2>3, <2>4, ExamineTypes
<1>3. CASE \E t \in Task : InsertDone(t)
  <2>1. PICK t \in Task : InsertDone(t) BY <1>3
  <2> DEFINE j == task[t]
             left == Tail(j.left)
  <2>2. j.at = "insert" /\ Examine(t, left, j.sides, j.coin, volume)
    BY <2>1 DEF InsertDone
  <2>3. j \in TradeTask /\ volume \in [Addr -> Nat] BY <1>0 DEF DiscoveryTypeOK
  <2>4. j.left \in Seq(Side) /\ j.left # <<>>
    BY <2>2, <2>3 DEF DiscoveryInv, TasksHold, TradeTask
  <2>5. left \in Seq(Side) /\ j.sides \in SUBSET Addr /\ j.coin \in AnyCoin
    BY <2>3, <2>4 DEF TradeTask
  <2> HIDE DEF left
  <2> QED BY <1>0, <2>2, <2>3, <2>5, ExamineTypes
<1>4. CASE TickMerge BY <1>0, <1>4 DEF TickMerge
<1> QED
  BY <1>1, <1>2, <1>3, <1>4
  DEF DiscoveryNext, Tick, TickStart, TickRead, TickReadFails, InsertFails, AddWhale,
      RemoveWhale, Side, memory, discoveryVars

\* The dexes a tracked address is polled on are never forgotten
\* (whale_tracker.py:96-101).
THEOREM ProfilesAreKept == DiscoverySpec => TrackedKeepsProfile
<1>1. DiscoveryInv /\ [DiscoveryNext]_discoveryVars =>
        [\A a \in tracked' : profile[a] \subseteq profile'[a]]_discoveryVars
  BY ProfileStep
<1> QED BY <1>1, DiscoveryInvariant, PTL DEF DiscoverySpec, TrackedKeepsProfile

(***************************************************************************)
(* Detectors.  A marked key is in the list of the tick until the tick ends *)
(* one way or the other; so a tick that starts, or replaces the list, must *)
(* do so with an empty one.                                                *)
(***************************************************************************)
Scan == [at : {"idle", "rows", "books", "keys", "query"}, left : SUBSET Key,
         key : Key \union {"none"}, window : Nat, found : SUBSET Key]

DetectorTypeOK ==
    /\ detector \in DOMAIN KeysOf
    /\ lastAlert \in [Key -> Nat]
    /\ scan \in Scan

\* Between ticks, before the rows are read, and before an engine that judges all
\* its keys at once has done so, nothing is found yet.
FoundIsFresh ==
    /\ scan.at = "query" => scan.key \in Key
    /\ scan.at \in {"idle", "rows"} => scan.found = {}
    /\ detector \in {"pre_move", "funding"} =>
         scan.at \in {"idle", "keys"} /\ (scan.left # {} => scan.found = {})

DetectorInv == DetectorTypeOK /\ FoundIsFresh /\ SuppressedMeansSent

\* Every step of a tick, of a handler and of the clock keeps the invariant.
LEMMA DetectorStep ==
  ASSUME DetectorInv, [DetectorNext]_detectorVars PROVE DetectorInv'
<1> USE DEF DetectorInv, DetectorTypeOK, FoundIsFresh, SuppressedMeansSent, Cooling
<1>1. CASE UNCHANGED <<detector, lastAlert, scan, sent, lost>> BY <1>1
<1>2. CASE DetectorTick
  <2>1. /\ scan.at = "idle" /\ UNCHANGED <<detector, lastAlert, sent, lost>>
        /\ \E keys \in SUBSET Key :
             scan' = [at |-> IF detector = "liquidation" THEN "rows" ELSE "keys",
                      left |-> keys, key |-> "none", window |-> 0, found |-> {}]
    BY <1>2, DetectorAssumption DEF DetectorTick, NoMarks, NoScan
  <2> QED BY <2>1 DEF Scan
<1>3. CASE \E k \in Key : Examines(k)
  <2>1. PICK k \in Key : Examines(k) BY <1>3
  <2>2. /\ detector \in {"oi", "tracker"} /\ scan.at = "keys"
        /\ UNCHANGED <<detector, lastAlert, sent, lost>>
        /\ \/ scan' = [scan EXCEPT !.at = "keys", !.left = @ \ {k}]
           \/ scan' = [scan EXCEPT !.at = "query", !.key = k, !.window = 1]
    BY <2>1 DEF Examines, Skips, BeginsQuery, NoMarks
  <2>3. scan' \in Scan /\ scan'.found = scan.found /\ scan'.at \in {"keys", "query"}
        /\ (scan'.at = "query" => scan'.key \in Key)
    <3>1. CASE scan' = [scan EXCEPT !.at = "keys", !.left = @ \ {k}]
      BY <3>1 DEF Scan
    <3>2. CASE scan' = [scan EXCEPT !.at = "query", !.key = k, !.window = 1]
      BY <3>2 DEF Scan
    <3> QED BY <2>2, <3>1, <3>2
  <2> QED BY <2>2, <2>3
<1>4. CASE NoAlert
  <2>1. /\ scan.at = "query" /\ UNCHANGED <<detector, lastAlert, sent, lost>>
        /\ \/ scan' = [scan EXCEPT !.window = @ + 1]
           \/ scan' = [scan EXCEPT !.at = "keys", !.left = @ \ {scan.key}]
    BY <1>4 DEF NoAlert, NextWindow, Skips, NoMarks
  <2>2. scan' \in Scan /\ scan'.found = scan.found /\ scan'.at \in {"keys", "query"}
        /\ scan'.key \in Key /\ detector \notin {"pre_move", "funding"}
    <3>1. CASE scan' = [scan EXCEPT !.window = @ + 1] BY <2>1, <3>1 DEF Scan
    <3>2. CASE scan' = [scan EXCEPT !.at = "keys", !.left = @ \ {scan.key}]
      BY <2>1, <3>2 DEF Scan
    <3> QED BY <2>1, <3>1, <3>2
  <2> QED BY <2>1, <2>2
<1>5. CASE Alerts
  <2>1. /\ scan.at = "query" /\ UNCHANGED detector
        /\ scan' = [scan EXCEPT !.at = "keys", !.left = @ \ {scan.key},
                                !.found = @ \union {scan.key}]
        /\ lastAlert' = [k \in Key |-> IF k \in {scan.key} THEN 0 ELSE lastAlert[k]]
        /\ sent' = sent \ {scan.key} /\ lost' = lost \ {scan.key}
    BY <1>5 DEF Alerts, Finds, Marks
  <2> QED BY <2>1 DEF Scan
<1>6. CASE QueryFails
  BY <1>6 DEF QueryFails, NoScan, Scan
<1>7. CASE JudgesAtOnce
  <2>1. /\ scan.at = "keys" /\ scan.left # {} /\ UNCHANGED detector
        /\ detector \in {"pre_move", "funding"}
        /\ \E keys \in SUBSET scan.left :
             /\ scan' = [scan EXCEPT !.left = {}, !.found = keys]
             /\ lastAlert' = [k \in Key |-> IF k \in keys THEN 0 ELSE lastAlert[k]]
             /\ sent' = sent \ keys /\ lost' = lost \ keys
    BY <1>7 DEF JudgesAtOnce, Marks
  <2>2. PICK keys \in SUBSET scan.left :
             /\ scan' = [scan EXCEPT !.left = {}, !.found = keys]
             /\ lastAlert' = [k \in Key |-> IF k \in keys THEN 0 ELSE lastAlert[k]]
             /\ sent' = sent \ keys /\ lost' = lost \ keys
    BY <2>1
  <2>3. scan' \in Scan /\ scan'.found = keys /\ scan'.at = "keys" /\ scan'.left = {}
        /\ scan.found = {}
    BY <2>1, <2>2 DEF Scan
  <2> QED BY <2>1, <2>2, <2>3
<1>8. CASE ReadsRows
  <2>1. /\ scan.at = "rows" /\ UNCHANGED <<detector, lastAlert, sent, lost>>
        /\ \/ \E near \in SUBSET scan.left :
               scan' = [scan EXCEPT !.at = "books", !.left = near]
           \/ scan' = [at |-> "idle", left |-> {}, key |-> "none", window |-> 0,
                       found |-> {}]
    BY <1>8 DEF ReadsRows, NoMarks, NoScan
  <2>2. scan' \in Scan /\ scan'.found = {} /\ scan'.at \in {"idle", "books"}
    <3>1. CASE \E near \in SUBSET scan.left :
                 scan' = [scan EXCEPT !.at = "books", !.left = near]
      BY <2>1, <3>1 DEF Scan
    <3>2. CASE scan' = [at |-> "idle", left |-> {}, key |-> "none", window |-> 0,
                        found |-> {}]
      BY <3>2 DEF Scan
    <3> QED BY <2>1, <3>1, <3>2
  <2>3. detector \notin {"pre_move", "funding"} /\ scan.found = {} BY <2>1
  <2> QED BY <2>1, <2>2, <2>3
<1>9. CASE BooksArrive
  <2>1. /\ scan.at = "books" /\ UNCHANGED detector
        /\ scan' = [scan EXCEPT !.at = "keys", !.left = @ \ scan.left,
                                !.found = @ \union scan.left]
        /\ lastAlert' = [k \in Key |-> IF k \in scan.left THEN 0 ELSE lastAlert[k]]
        /\ sent' = sent \ scan.left /\ lost' = lost \ scan.left
    BY <1>9 DEF BooksArrive, Finds, Marks
  <2> QED BY <2>1 DEF Scan
<1>10. CASE TickReturns
  BY <1>10 DEF TickReturns, NoScan, Scan
<1>11. CASE DetectorAges
  <2>1. /\ UNCHANGED <<detector, scan, sent, lost>>
        /\ lastAlert' = [k \in Key |-> IF lastAlert[k] < DetectorCooldown
                                      THEN lastAlert[k] + 1 ELSE lastAlert[k]]
    BY <1>11 DEF DetectorAges
  <2>2. DetectorCooldown \in Nat BY DetectorAssumption
  <2> QED BY <2>1, <2>2
<1> QED
  BY <1>1, <1>2, <1>3, <1>4, <1>5, <1>6, <1>7, <1>8, <1>9, <1>10, <1>11
  DEF DetectorNext, OnAssetUpdate, OnTradeDeal, detectorVars

\* A cooldown silences only a key whose alert was returned, is in the running tick,
\* or was lost with a tick that raised (oi_concentration.py:104-126).
THEOREM CooldownsAreExplained == DetectorSpec => []SuppressedMeansSent
<1>1. DetectorInit => DetectorInv
  BY DetectorAssumption DEF DetectorInit, NoScan, Scan, DetectorInv, DetectorTypeOK,
     FoundIsFresh, SuppressedMeansSent, Cooling
<1>2. DetectorInv /\ [DetectorNext]_detectorVars => DetectorInv' BY DetectorStep
<1>3. DetectorInv => SuppressedMeansSent BY DEF DetectorInv
<1> QED BY <1>1, <1>2, <1>3, PTL DEF DetectorSpec

(***************************************************************************)
(* VolumeWindow.  A total over a window is a sum over positions, and a sum *)
(* over a window that is put together from two parts is the sum of both.   *)
(***************************************************************************)
WindowTrade == [age : Nat, sides : SUBSET Trader, coin : WindowCoin, size : Nat]

WindowTypeOK ==
    /\ window \in Seq(WindowTrade)
    /\ addressVolume \in [Trader -> Nat]
    /\ coinVolume \in [Trader -> [WindowCoin -> Nat]]

WindowInv == WindowTypeOK /\ TotalsMatchWindow

Sizes(trades) == [i \in DOMAIN trades |-> trades[i].size]
Mine(trades, a, coins) ==
    {i \in DOMAIN trades : a \in trades[i].sides /\ trades[i].coin \in coins}

\* A total is such a sum, and a number.
LEMMA TradedIsSum ==
  ASSUME NEW trades \in Seq(WindowTrade), NEW a, NEW coins
  PROVE  /\ Traded(trades, a, coins) = SumOver(Sizes(trades), Mine(trades, a, coins))
         /\ IsFiniteSet(Mine(trades, a, coins))
         /\ \A i \in DOMAIN trades : Sizes(trades)[i] \in Nat
         /\ Traded(trades, a, coins) \in Nat
<1>1. Traded(trades, a, coins) = SumOver(Sizes(trades), Mine(trades, a, coins))
  BY DEF Traded, SumOver, SumFunctionOnSet, FoldFunctionOnSet, MapThenSumSet,
         Sizes, Mine
<1>2. IsFiniteSet(Mine(trades, a, coins))
  <2>1. DOMAIN trades = 1..Len(trades) /\ Len(trades) \in Nat BY LenProperties
  <2>2. IsFiniteSet(1..Len(trades)) BY <2>1, FS_Interval
  <2>3. Mine(trades, a, coins) \subseteq 1..Len(trades) BY <2>1 DEF Mine
  <2> QED BY <2>2, <2>3, FS_Subset
<1>3. \A i \in DOMAIN trades : Sizes(trades)[i] \in Nat
  <2>1. \A i \in DOMAIN trades : trades[i] \in WindowTrade BY ElementOfSeq, LenProperties
  <2> QED BY <2>1 DEF Sizes, WindowTrade
<1>4. \A i \in Mine(trades, a, coins) : Sizes(trades)[i] \in Nat
  BY <1>3 DEF Mine
<1>5. SumOver(Sizes(trades), Mine(trades, a, coins)) \in Nat
  BY <1>2, <1>4, SumType
<1> QED BY <1>1, <1>2, <1>3, <1>5

\* A window that is put together from two parts.
Joins(w, s, t) ==
    /\ Len(w) = Len(s) + Len(t)
    /\ \A i \in 1..Len(s) : w[i] = s[i]
    /\ \A i \in 1..Len(t) : w[Len(s) + i] = t[i]

\* The total over trades that consist of two parts.
LEMMA TradedParts ==
  ASSUME NEW w \in Seq(WindowTrade), NEW s \in Seq(WindowTrade),
         NEW t \in Seq(WindowTrade), NEW a, NEW coins,
         Joins(w, s, t)
  PROVE  Traded(w, a, coins) = Traded(s, a, coins) + Traded(t, a, coins)
<1> DEFINE MW == Mine(w, a, coins)
           MS == Mine(s, a, coins)
           MT == Mine(t, a, coins)
           n == Len(s)
           shift == [i \in Nat |-> n + i]
           later == {shift[i] : i \in MT}
<1>1. /\ DOMAIN w = 1..Len(w) /\ DOMAIN s = 1..n /\ DOMAIN t = 1..Len(t)
      /\ n = Len(s) /\ Len(w) = n + Len(t)
      /\ Len(w) \in Nat /\ n \in Nat /\ Len(t) \in Nat
      /\ \A i \in 1..n : w[i] = s[i]
      /\ \A i \in 1..Len(t) : w[n + i] = t[i]
  BY LenProperties DEF Joins
<1>2. /\ Traded(w, a, coins) = SumOver(Sizes(w), MW) /\ IsFiniteSet(MW)
      /\ \A i \in DOMAIN w : Sizes(w)[i] \in Nat
  BY TradedIsSum
<1>3. /\ Traded(s, a, coins) = SumOver(Sizes(s), MS) /\ IsFiniteSet(MS)
      /\ \A i \in DOMAIN s : Sizes(s)[i] \in Nat
  BY TradedIsSum
<1>4. /\ Traded(t, a, coins) = SumOver(Sizes(t), MT) /\ IsFiniteSet(MT)
      /\ \A i \in DOMAIN t : Sizes(t)[i] \in Nat
  BY TradedIsSum
<1>5. MS \subseteq 1..n /\ MT \subseteq 1..Len(t) BY <1>1 DEF Mine
<1> HIDE DEF MW, MS, MT
<1>6. \A i \in MT : /\ i \in Nat /\ shift[i] = n + i /\ n + i \in DOMAIN w
                     /\ n + i > n
  BY <1>1, <1>5
<1> HIDE DEF n, shift
<1>7. MS \intersect later = {}
  <2> SUFFICES ASSUME NEW i \in MT, n + i \in MS PROVE FALSE BY <1>6
  <2>1. n + i \in 1..n BY <1>5
  <2> QED BY <1>1, <1>6, <2>1
<1>8. MW = MS \union later
  <2>1. ASSUME NEW i \in MW PROVE i \in MS \union later
    <3>0. i \in 1..Len(w) /\ a \in w[i].sides /\ w[i].coin \in coins
      BY <1>1, <2>1 DEF MW, Mine
    <3>1. CASE i <= n
      <4>1. i \in DOMAIN s /\ w[i] = s[i] BY <1>1, <3>0, <3>1
      <4>2. i \in MS BY <3>0, <4>1 DEF MS, Mine
      <4> QED BY <4>2
    <3>2. CASE i > n
      <4>1. i - n \in 1..Len(t) /\ n + (i - n) = i BY <1>1, <3>0, <3>2
      <4>2. w[i] = t[i - n] BY <1>1, <4>1
      <4>3. i - n \in MT BY <1>1, <3>0, <4>1, <4>2 DEF MT, Mine
      <4>4. shift[i - n] = i BY <1>6, <4>1, <4>3
      <4> QED BY <4>3, <4>4
    <3> QED BY <1>1, <3>0, <3>1, <3>2
  <2>2. ASSUME NEW i \in MS PROVE i \in MW
    BY <1>1, <1>5, <2>2 DEF MW, MS, Mine
  <2>3. ASSUME NEW i \in MT PROVE shift[i] \in MW
    <3>1. w[n + i] = t[i] BY <1>1, <1>5, <2>3
    <3> QED BY <1>6, <2>3, <3>1 DEF MW, MT, Mine
  <2> QED BY <2>1, <2>2, <2>3
<1>9. SumOver(Sizes(w), MW) = SumOver(Sizes(w), MS \union later)
  BY <1>8, Zenon
<1>10. SumOver(Sizes(w), MS) = SumOver(Sizes(s), MS)
  <2>1. \A i \in MS : Sizes(w)[i] = Sizes(s)[i]
    <3> SUFFICES ASSUME NEW i \in MS PROVE Sizes(w)[i] = Sizes(s)[i] OBVIOUS
    <3>1. i \in DOMAIN s /\ i \in DOMAIN w /\ w[i] = s[i] BY <1>1, <1>5
    <3> QED BY <3>1 DEF Sizes
  <2>2. \A i \in MS : Sizes(s)[i] \in Nat BY <1>1, <1>3, <1>5
  <2> QED BY <1>3, <2>1, <2>2, SumEqual
<1>11. SumOver(Sizes(t), MT) = SumOver(Sizes(w), later)
  <2>1. \A i \in MT : Sizes(w)[shift[i]] = Sizes(t)[i]
    <3> SUFFICES ASSUME NEW i \in MT PROVE Sizes(w)[n + i] = Sizes(t)[i] BY <1>6
    <3>1. i \in 1..Len(t) /\ w[n + i] = t[i] BY <1>1, <1>5
    <3> QED BY <1>1, <1>6, <3>1 DEF Sizes
  <2>2. \A i \in MT : Sizes(t)[i] \in Nat BY <1>1, <1>4, <1>5
  <2>3. \A i, j \in MT : shift[i] = shift[j] => i = j
    <3> SUFFICES ASSUME NEW i \in MT, NEW j \in MT, n + i = n + j PROVE i = j
      BY <1>6
    <3> QED BY <1>1, <1>6
  <2> QED BY <1>4, <2>1, <2>2, <2>3, SumRename
<1>12. SumOver(Sizes(w), MS \union later)
         = SumOver(Sizes(w), MS) + SumOver(Sizes(w), later)
  <2>1. IsFiniteSet(later)
    <3>1. later \subseteq MW BY <1>8
    <3> HIDE DEF later
    <3> QED BY <1>2, <3>1, FS_Subset
  <2>2. \A i \in MS \union later : Sizes(w)[i] \in Nat
    BY <1>2, <1>8 DEF MW, Mine
  <2> HIDE DEF later
  <2> QED BY <1>3, <1>7, <2>1, <2>2, SumUnion
<1> QED BY <1>2, <1>3, <1>4, <1>9, <1>10, <1>11, <1>12

\* The census keeps traders that have a total.
LEMMA KeptProperties ==
  ASSUME NEW vol, NEW k \in Kept(vol)
  PROVE  k \subseteq Listed(vol)
<1>1. CASE Cardinality(Listed(vol)) <= 2 * MaxTraders BY <1>1 DEF Kept
<1>2. CASE ~(Cardinality(Listed(vol)) <= 2 * MaxTraders) BY <1>2 DEF Kept, kSubset
<1> QED BY <1>1, <1>2

\* A trade arrives: what it adds to the totals it adds to the window.
LEMMA WindowTradeStep ==
  ASSUME WindowInv, NEW trade \in WindowTrade, OnTradeWindow(trade)
  PROVE  WindowInv'
<1> DEFINE vol == [a \in Trader |-> addressVolume[a] + Traded(<<trade>>, a, WindowCoin)]
           T(w, a, coins) == Traded(w, a, coins)
           one == <<trade>>
<1>1. PICK k \in Kept(vol) :
        /\ addressVolume' = [a \in Trader |-> IF a \in k THEN vol[a] ELSE 0]
        /\ evicted' = evicted \union (Listed(vol) \ k)
  BY DEF OnTradeWindow
<1>2. /\ window' = Append(window, trade)
      /\ coinVolume' = [a \in Trader |-> [c \in WindowCoin |->
                           coinVolume[a][c] + Traded(one, a, {c})]]
  BY DEF OnTradeWindow, AddTrade
<1>3. /\ window \in Seq(WindowTrade) /\ addressVolume \in [Trader -> Nat]
      /\ coinVolume \in [Trader -> [WindowCoin -> Nat]]
  BY DEF WindowInv, WindowTypeOK
<1>4. one \in Seq(WindowTrade) /\ window' \in Seq(WindowTrade)
  BY <1>2, <1>3
<1> HIDE DEF one
<1>5. ASSUME NEW a, NEW coins
      PROVE  /\ T(window', a, coins) = T(window, a, coins) + T(one, a, coins)
             /\ T(window, a, coins) \in Nat /\ T(one, a, coins) \in Nat
  <2>1. Joins(window', window, one) BY <1>2, <1>3 DEF Joins, one
  <2>2. T(window', a, coins) = T(window, a, coins) + T(one, a, coins)
    BY <1>3, <1>4, <2>1, TradedParts
  <2>3. T(window, a, coins) \in Nat /\ T(one, a, coins) \in Nat
    BY <1>3, <1>4, TradedIsSum
  <2> QED BY <2>2, <2>3
<1>6. k \subseteq Listed(vol) BY KeptProperties
<1>7. \A a \in Trader : /\ vol[a] = addressVolume[a] + T(one, a, WindowCoin)
                        /\ vol[a] \in Nat
  BY <1>3, <1>5 DEF one
<1>8. \A a \in Trader, c \in WindowCoin :
        /\ coinVolume[a][c] \in Nat /\ T(one, a, {c}) \in Nat
        /\ coinVolume'[a][c] = coinVolume[a][c] + T(one, a, {c})
  <2> SUFFICES ASSUME NEW a \in Trader, NEW c \in WindowCoin
               PROVE  /\ coinVolume[a][c] \in Nat /\ T(one, a, {c}) \in Nat
                      /\ coinVolume'[a][c] = coinVolume[a][c] + T(one, a, {c})
    OBVIOUS
  <2>1. coinVolume[a][c] \in Nat /\ T(one, a, {c}) \in Nat BY <1>3, <1>5
  <2>2. coinVolume'[a] = [x \in WindowCoin |-> coinVolume[a][x] + Traded(one, a, {x})]
    BY <1>2
  <2> QED BY <2>1, <2>2
<1>9. coinVolume' \in [Trader -> [WindowCoin -> Nat]]
  <2> SUFFICES ASSUME NEW a \in Trader PROVE coinVolume'[a] \in [WindowCoin -> Nat]
    BY <1>2
  <2>1. coinVolume'[a] = [x \in WindowCoin |-> coinVolume[a][x] + Traded(one, a, {x})]
    BY <1>2
  <2>2. \A x \in WindowCoin : coinVolume[a][x] + Traded(one, a, {x}) \in Nat
    <3> SUFFICES ASSUME NEW x \in WindowCoin
                 PROVE  coinVolume[a][x] + T(one, a, {x}) \in Nat
      OBVIOUS
    <3>1. coinVolume[a][x] \in Nat /\ T(one, a, {x}) \in Nat BY <1>8
    <3> HIDE DEF T
    <3> QED BY <3>1
  <2> QED BY <2>1, <2>2
<1> HIDE DEF vol, T
<1>10. WindowTypeOK' BY <1>1, <1>4, <1>7, <1>9 DEF WindowTypeOK
<1>11. \A a \in Trader :
         /\ addressVolume[a] <= T(window, a, WindowCoin)
         /\ a \notin evicted => addressVolume[a] = T(window, a, WindowCoin)
         /\ \A c \in WindowCoin : coinVolume[a][c] = T(window, a, {c})
  BY DEF WindowInv, TotalsMatchWindow, T
<1>12. ASSUME NEW a \in Trader
       PROVE  /\ addressVolume'[a] <= T(window', a, WindowCoin)
              /\ a \notin evicted' => addressVolume'[a] = T(window', a, WindowCoin)
              /\ \A c \in WindowCoin : coinVolume'[a][c] = T(window', a, {c})
  <2>1. vol[a] <= T(window', a, WindowCoin)
    BY <1>3, <1>5, <1>7, <1>11
  <2>2. a \notin evicted => vol[a] = T(window', a, WindowCoin)
    BY <1>3, <1>5, <1>7, <1>11
  <2>3. \A c \in WindowCoin : coinVolume'[a][c] = T(window', a, {c})
    <3> SUFFICES ASSUME NEW c \in WindowCoin
                 PROVE  coinVolume'[a][c] = T(window', a, {c})
      OBVIOUS
    <3>1. coinVolume'[a][c] = coinVolume[a][c] + T(one, a, {c}) BY <1>8
    <3>2. T(window', a, {c}) = T(window, a, {c}) + T(one, a, {c}) BY <1>5
    <3>3. coinVolume[a][c] = T(window, a, {c}) BY <1>11
    <3> QED BY <3>1, <3>2, <3>3, Zenon
  <2>4. CASE a \in k BY <1>1, <2>1, <2>2, <2>3, <2>4
  <2>5. CASE a \notin k
    <3>1. addressVolume'[a] = 0 BY <1>1, <2>5
    <3>2. 0 <= T(window', a, WindowCoin) BY <1>7, <2>1, <1>5
    <3>3. ASSUME a \notin evicted' PROVE vol[a] = 0
      BY <1>1, <1>7, <2>5, <3>3 DEF Listed
    <3>4. ASSUME a \notin evicted' PROVE a \notin evicted BY <1>1, <3>4
    <3> QED BY <2>2, <2>3, <3>1, <3>2, <3>3, <3>4
  <2> QED BY <2>4, <2>5
<1> QED BY <1>10, <1>12 DEF WindowInv, TotalsMatchWindow, T

\* Pruning takes the same trades from the window and from the totals.
LEMMA PruneStep ==
  ASSUME WindowInv, Prune PROVE WindowInv'
<1> DEFINE E == Expired(window)
           gone == SubSeq(window, 1, E)
           left == SubSeq(window, Len(gone) + 1, Len(window))
           T(w, a, coins) == Traded(w, a, coins)
<1>1. /\ window' = left
      /\ addressVolume' = [a \in Trader |-> Less(addressVolume[a], T(gone, a, WindowCoin))]
      /\ coinVolume' = [a \in Trader |-> [c \in WindowCoin |->
                           Less(coinVolume[a][c], T(gone, a, {c}))]]
      /\ evicted' = {a \in evicted : T(left, a, WindowCoin) > 0}
  BY DEF Prune
<1>2. /\ window \in Seq(WindowTrade) /\ addressVolume \in [Trader -> Nat]
      /\ coinVolume \in [Trader -> [WindowCoin -> Nat]]
      /\ Len(window) \in Nat
  BY LenProperties DEF WindowInv, WindowTypeOK
<1>3. E \in 0..Len(window)
  <2> DEFINE kept == {i \in DOMAIN window : window[i].age <= Lookback}
  <2>1. CASE kept = {}
    <3>1. E = Len(window) BY <2>1 DEF Expired
    <3> HIDE DEF kept, E
    <3> QED BY <1>2, <3>1
  <2>2. CASE kept # {}
    <3>1. kept \in SUBSET Nat /\ kept \subseteq 1..Len(window)
      BY <1>2, LenProperties
    <3>2. Min(kept) \in kept BY <2>2, <3>1, MinProperties
    <3>3. E = Min(kept) - 1 BY <2>2 DEF Expired
    <3>4. Min(kept) \in 1..Len(window) BY <3>1, <3>2
    <3> DEFINE m == Min(kept)
    <3> HIDE DEF kept, E, m
    <3>5. m \in 1..Len(window) /\ E = m - 1 BY <3>3, <3>4 DEF m
    <3> QED BY <1>2, <3>5
  <2> QED BY <2>1, <2>2
<1>4. /\ gone \in Seq(WindowTrade) /\ Len(gone) = E
      /\ \A i \in 1..E : gone[i] = window[i]
  <2> HIDE DEF E
  <2>1. CASE E = 0
    <3>1. gone = <<>> BY <1>2, <2>1
    <3> QED BY <2>1, <3>1, EmptySeq
  <2>2. CASE E # 0
    <3>1. 1 \in 1..(Len(window) + 1) /\ E \in (1 - 1)..Len(window) BY <1>2, <1>3
    <3> QED BY <1>2, <1>3, <2>2, <3>1, SubSeqProperties
  <2> QED BY <2>1, <2>2
<1> HIDE DEF E, gone
<1>5. /\ left \in Seq(WindowTrade) /\ Len(left) = Len(window) - E
      /\ \A i \in 1..Len(left) : window[E + i] = left[i]
  <2>1. E + 1 \in 1..(Len(window) + 1) /\ left = SubSeq(window, E + 1, Len(window))
    BY <1>2, <1>3, <1>4
  <2>2. /\ left \in Seq(WindowTrade) /\ Len(left) = Len(window) - (E + 1) + 1
        /\ \A i \in 1..(Len(window) - (E + 1) + 1) : left[i] = window[(E + 1) + i - 1]
    BY <1>2, <2>1, DropProperties
  <2> HIDE DEF left
  <2>3. Len(left) = Len(window) - E BY <1>2, <1>3, <2>2
  <2>4. ASSUME NEW i \in 1..Len(left) PROVE window[E + i] = left[i]
    <3>1. (E + 1) + i - 1 = E + i /\ i \in 1..(Len(window) - (E + 1) + 1)
      BY <1>2, <1>3, <2>3, <2>4
    <3> QED BY <2>2, <3>1
  <2> QED BY <2>2, <2>3, <2>4
<1> HIDE DEF left
<1>6. ASSUME NEW a, NEW coins
      PROVE  /\ T(window, a, coins) = T(gone, a, coins) + T(left, a, coins)
             /\ T(gone, a, coins) \in Nat /\ T(left, a, coins) \in Nat
  <2>1. Len(window) = Len(gone) + Len(left) BY <1>2, <1>3, <1>4, <1>5
  <2>2. Joins(window, gone, left) BY <1>4, <1>5, <2>1 DEF Joins
  <2>4. T(window, a, coins) = T(gone, a, coins) + T(left, a, coins)
    BY <1>2, <1>4, <1>5, <2>2, TradedParts
  <2>5. T(gone, a, coins) \in Nat /\ T(left, a, coins) \in Nat
    BY <1>4, <1>5, TradedIsSum
  <2> QED BY <2>4, <2>5
<1>7. \A a \in Trader :
        /\ addressVolume[a] <= T(window, a, WindowCoin)
        /\ a \notin evicted => addressVolume[a] = T(window, a, WindowCoin)
        /\ \A c \in WindowCoin : coinVolume[a][c] = T(window, a, {c})
  BY DEF WindowInv, TotalsMatchWindow
<1> HIDE DEF T
<1>8. \A v, amount \in Nat : Less(v, amount) \in Nat BY DEF Less
<1>9. WindowTypeOK' BY <1>1, <1>2, <1>5, <1>6, <1>8 DEF WindowTypeOK
<1>10. ASSUME NEW a \in Trader
       PROVE  /\ addressVolume'[a] <= T(left, a, WindowCoin)
              /\ a \notin evicted' => addressVolume'[a] = T(left, a, WindowCoin)
              /\ \A c \in WindowCoin : coinVolume'[a][c] = T(left, a, {c})
  <2>1. addressVolume'[a] = Less(addressVolume[a], T(gone, a, WindowCoin))
    BY <1>1
  <2>2. addressVolume'[a] <= T(left, a, WindowCoin)
    BY <1>2, <1>6, <1>7, <2>1 DEF Less
  <2>3. ASSUME a \notin evicted' PROVE addressVolume'[a] = T(left, a, WindowCoin)
    <3>1. CASE a \notin evicted BY <1>2, <1>6, <1>7, <2>1, <3>1 DEF Less
    <3>2. CASE a \in evicted
      <4>1. T(left, a, WindowCoin) = 0 BY <1>1, <1>6, <2>3, <3>2
      <4>2. addressVolume'[a] \in Nat BY <1>9 DEF WindowTypeOK
      <4> QED BY <2>2, <4>1, <4>2
    <3> QED BY <3>1, <3>2
  <2>4. ASSUME NEW c \in WindowCoin PROVE coinVolume'[a][c] = T(left, a, {c})
    <3>1. coinVolume'[a][c] = Less(coinVolume[a][c], T(gone, a, {c})) BY <1>1
    <3>2. coinVolume[a][c] = T(gone, a, {c}) + T(left, a, {c}) BY <1>6, <1>7
    <3> QED BY <1>6, <3>1, <3>2 DEF Less
  <2> QED BY <2>2, <2>3, <2>4
<1> QED BY <1>1, <1>9, <1>10 DEF WindowInv, TotalsMatchWindow, T

\* Time passes: the sides, coins and sizes of the trades stay.
LEMMA AgeStep ==
  ASSUME WindowInv, Age PROVE WindowInv'
<1>1. /\ window' = [i \in DOMAIN window |->
                      [window[i] EXCEPT !.age = Min({@ + 1, Lookback + 1})]]
      /\ UNCHANGED <<addressVolume, coinVolume, evicted>>
  BY DEF Age
<1>2. WindowTypeOK BY DEF WindowInv
<1>3. /\ DOMAIN window = 1..Len(window) /\ Len(window) \in Nat
      /\ \A i \in DOMAIN window : window[i] \in WindowTrade
  BY <1>2, LenProperties, ElementOfSeq DEF WindowTypeOK
<1>4. \A n \in Nat : Min({n + 1, Lookback + 1}) \in Nat
  <2> SUFFICES ASSUME NEW n \in Nat PROVE Min({n + 1, Lookback + 1}) \in Nat
    OBVIOUS
  <2>1. {n + 1, Lookback + 1} \in SUBSET Nat BY WindowAssumption
  <2>2. Min({n + 1, Lookback + 1}) \in {n + 1, Lookback + 1}
    BY <2>1, MinProperties
  <2> QED BY <2>1, <2>2
<1>5. \A i \in DOMAIN window :
        /\ window'[i] \in WindowTrade
        /\ window'[i].sides = window[i].sides /\ window'[i].coin = window[i].coin
        /\ window'[i].size = window[i].size
  BY <1>1, <1>3, <1>4 DEF WindowTrade
<1>6. DOMAIN window' = DOMAIN window BY <1>1
<1>7. window' \in Seq(WindowTrade)
  <2>1. window' \in [1..Len(window) -> WindowTrade]
    BY <1>1, <1>3, <1>5
  <2> QED BY <1>3, <2>1, SeqDef
<1>8. WindowTypeOK' BY <1>1, <1>2, <1>7 DEF WindowTypeOK
<1>9. ASSUME NEW a, NEW coins
      PROVE  Traded(window', a, coins) = Traded(window, a, coins)
  <2>1. Mine(window', a, coins) = Mine(window, a, coins)
    BY <1>5, <1>6 DEF Mine
  <2>2. Sizes(window') = Sizes(window) BY <1>5, <1>6 DEF Sizes
  <2>3. Traded(window, a, coins) = SumOver(Sizes(window), Mine(window, a, coins))
    BY <1>2, TradedIsSum DEF WindowTypeOK
  <2>4. Traded(window', a, coins) = SumOver(Sizes(window'), Mine(window', a, coins))
    BY <1>7, TradedIsSum
  <2> QED BY <2>1, <2>2, <2>3, <2>4, Zenon
<1> QED BY <1>1, <1>8, <1>9 DEF WindowInv, TotalsMatchWindow

\* Every total agrees with the trades in the window (_volume_window.py:99-131).
THEOREM TotalsAgree == WindowSpec => []TotalsMatchWindow
<1>1. WindowInit => WindowInv
  <2> SUFFICES ASSUME WindowInit PROVE WindowInv OBVIOUS
  <2>1. WindowTypeOK BY EmptySeq DEF WindowInit, WindowTypeOK
  <2>2. ASSUME NEW a, NEW coins PROVE Traded(window, a, coins) = 0
    <3>1. Mine(window, a, coins) = {} BY DEF Mine, WindowInit
    <3>2. Traded(window, a, coins) = SumOver(Sizes(window), Mine(window, a, coins))
      BY <2>1, TradedIsSum DEF WindowTypeOK
    <3> QED BY <3>1, <3>2, SumEmpty
  <2> QED BY <2>1, <2>2 DEF WindowInit, WindowInv, TotalsMatchWindow
<1>2. WindowInv /\ [WindowNext]_windowVars => WindowInv'
  <2> SUFFICES ASSUME WindowInv, [WindowNext]_windowVars PROVE WindowInv' OBVIOUS
  <2>1. CASE UNCHANGED windowVars
    BY <2>1 DEF windowVars, WindowInv, WindowTypeOK, TotalsMatchWindow
  <2>2. CASE \E s \in SUBSET Trader, c \in WindowCoin, n \in 1..2, d \in 0..MaxDelay :
               OnTradeWindow([age |-> d, sides |-> s, coin |-> c, size |-> n])
    <3>1. \A s \in SUBSET Trader, c \in WindowCoin, n \in 1..2, d \in 0..MaxDelay :
            [age |-> d, sides |-> s, coin |-> c, size |-> n] \in WindowTrade
      BY WindowAssumption DEF WindowTrade
    <3> QED BY <2>2, <3>1, WindowTradeStep
  <2> QED BY <2>1, <2>2, PruneStep, AgeStep DEF WindowNext
<1>3. WindowInv => TotalsMatchWindow BY DEF WindowInv
<1> QED BY <1>1, <1>2, <1>3, PTL DEF WindowSpec

(***************************************************************************)
(* The binary search, on any buffer.                                       *)
(***************************************************************************)
Spans(s) == (0..Len(s)) \X (0..Len(s))

\* What the recursion says of the span between lo and hi.
Bisected(f, s, c, lo, hi) ==
    IF lo >= hi THEN lo
    ELSE IF s[(lo + hi) \div 2 + 1] > c THEN f[<<(lo + hi) \div 2 + 1, hi>>]
    ELSE f[<<lo, (lo + hi) \div 2>>]

Bisection(f, s, c) == f = [r \in Spans(s) |-> Bisected(f, s, c, r[1], r[2])]

\* Each half of a span is a shorter span.
LEMMA Halves ==
  ASSUME NEW n \in Nat, NEW lo \in 0..n, NEW hi \in 0..n, NEW d \in Nat, lo < hi, hi - lo <= d + 1
  PROVE  LET mid == (lo + hi) \div 2 IN
         /\ mid \in 0..n /\ mid + 1 \in 0..n /\ lo <= mid /\ mid < hi
         /\ mid - lo <= d /\ hi - (mid + 1) <= d
<1> DEFINE mid == (lo + hi) \div 2
<1>1. mid \in Nat /\ lo <= mid /\ mid < hi OBVIOUS
<1> HIDE DEF mid
<1> QED BY <1>1 DEF mid

\* A function that obeys the recursion exists.
LEMMA BisectionExists == ASSUME NEW s \in Seq(Nat), NEW c \in Nat PROVE \E f : Bisection(f, s, c)
<1> DEFINE n == Len(s)
           Obeys(g, d) == \A lo, hi \in 0..n : hi - lo <= d => g[<<lo, hi>>] = Bisected(g, s, c, lo, hi)
           N == {d \in Nat : \E g : Obeys(g, d)}
<1>1. n \in Nat OBVIOUS
<1> HIDE DEF n
<1>2. 0 \in N
  <2> DEFINE g == [r \in Spans(s) |-> r[1]]
  <2>1. \A lo, hi \in 0..n : hi - lo <= 0 => g[<<lo, hi>>] = lo /\ lo >= hi
    BY <1>1 DEF Spans, n
  <2> HIDE DEF g
  <2>2. Obeys(g, 0) BY <2>1 DEF Bisected
  <2> HIDE DEF Obeys
  <2> QED BY <2>2
<1>3. ASSUME NEW d \in Nat, d \in N PROVE d + 1 \in N
  <2>1. PICK g : Obeys(g, d) BY <1>3
  <2> DEFINE e == [r \in Spans(s) |-> IF r[2] - r[1] <= d THEN g[r] ELSE Bisected(g, s, c, r[1], r[2])]
  <2>2. ASSUME NEW lo \in 0..n, NEW hi \in 0..n
        PROVE  e[<<lo, hi>>] = IF hi - lo <= d THEN g[<<lo, hi>>] ELSE Bisected(g, s, c, lo, hi)
    BY DEF Spans, n
  <2> HIDE DEF e
  <2>3. ASSUME NEW lo \in 0..n, NEW hi \in 0..n, hi - lo <= d + 1
        PROVE  e[<<lo, hi>>] = Bisected(e, s, c, lo, hi)
    <3>1. Bisected(e, s, c, lo, hi) = Bisected(g, s, c, lo, hi)
      <4>1. CASE lo >= hi BY <4>1 DEF Bisected
      <4>2. CASE lo < hi
        <5> DEFINE mid == (lo + hi) \div 2
        <5>1. /\ mid \in 0..n /\ mid + 1 \in 0..n /\ mid - lo <= d /\ hi - (mid + 1) <= d
          BY <1>1, <2>3, <4>2, Halves
        <5> HIDE DEF mid
        <5>2. e[<<mid + 1, hi>>] = g[<<mid + 1, hi>>] BY <2>2, <5>1
        <5>3. e[<<lo, mid>>] = g[<<lo, mid>>] BY <2>2, <5>1
        <5> QED BY <5>2, <5>3 DEF Bisected, mid
      <4> QED BY <4>1, <4>2
    <3>2. e[<<lo, hi>>] = Bisected(g, s, c, lo, hi)
      <4>1. CASE hi - lo <= d BY <2>1, <2>2, <4>1
      <4>2. CASE ~(hi - lo <= d) BY <2>2, <4>2
      <4> QED BY <4>1, <4>2
    <3> QED BY <3>1, <3>2
  <2>4. Obeys(e, d + 1) BY <2>3
  <2> HIDE DEF Obeys
  <2> QED BY <2>4
<1> HIDE DEF N
<1>4. n \in N BY <1>1, <1>2, <1>3, NatSetInduction
<1>5. PICK g : Obeys(g, n) BY <1>4 DEF N
<1> DEFINE f == [r \in Spans(s) |-> g[r]]
<1>6. \A lo, hi \in 0..n : g[<<lo, hi>>] = Bisected(g, s, c, lo, hi)
  <2>1. \A lo, hi \in 0..n : hi - lo <= n BY <1>1
  <2> QED BY <1>5, <2>1
<1>7. \A lo, hi \in 0..n : f[<<lo, hi>>] = g[<<lo, hi>>] BY DEF Spans, n
<1> HIDE DEF f
<1>8. ASSUME NEW lo \in 0..n, NEW hi \in 0..n PROVE f[<<lo, hi>>] = Bisected(f, s, c, lo, hi)
  <2>1. CASE lo >= hi BY <1>6, <1>7, <2>1 DEF Bisected
  <2>2. CASE lo < hi
    <3> DEFINE mid == (lo + hi) \div 2
    <3>1. mid \in 0..n /\ mid + 1 \in 0..n
      <4>1. hi - lo <= n + 1 BY <1>1
      <4> QED BY <1>1, <2>2, <4>1, Halves
    <3> HIDE DEF mid
    <3>2. f[<<mid + 1, hi>>] = g[<<mid + 1, hi>>] /\ f[<<lo, mid>>] = g[<<lo, mid>>] BY <1>7, <3>1
    <3>3. Bisected(f, s, c, lo, hi) = Bisected(g, s, c, lo, hi) BY <3>2 DEF Bisected, mid
    <3> QED BY <1>6, <1>7, <3>3
  <2> QED BY <2>1, <2>2
<1>9. f = [r \in Spans(s) |-> Bisected(f, s, c, r[1], r[2])]
  <2>1. \A r \in Spans(s) : r[1] \in 0..n /\ r[2] \in 0..n /\ r = <<r[1], r[2]>> BY DEF Spans, n
  <2>2. \A r \in Spans(s) : f[r] = Bisected(f, s, c, r[1], r[2]) BY <1>8, <2>1
  <2>3. f = [r \in Spans(s) |-> f[r]] BY DEF f
  <2> QED BY <2>2, <2>3
<1> QED BY <1>9 DEF Bisection

\* What follows the place that is found is not older than the cutoff, and what precedes
\* it is, also when the buffer is not sorted.
LEMMA BisectProperties ==
  ASSUME NEW s \in Seq(Nat), NEW c \in Nat
  PROVE  /\ BisectLeft(s, c) \in 1..(Len(s) + 1)
         /\ BisectLeft(s, c) <= Len(s) => s[BisectLeft(s, c)] <= c
         /\ BisectLeft(s, c) > 1 => s[BisectLeft(s, c) - 1] > c
<1> DEFINE n == Len(s)
           f == CHOOSE g : Bisection(g, s, c)
           Right(lo, hi) == /\ f[<<lo, hi>>] \in lo..hi
                            /\ f[<<lo, hi>>] < hi => s[f[<<lo, hi>>] + 1] <= c
                            /\ f[<<lo, hi>>] > lo => s[f[<<lo, hi>>]] > c
           N == {d \in Nat : \A lo, hi \in 0..n : lo <= hi /\ hi - lo <= d => Right(lo, hi)}
<1>1. n \in Nat OBVIOUS
<1>2. Bisection(f, s, c) BY BisectionExists
<1>3. BisectLeft(s, c) = f[<<0, n>>] + 1
  BY DEF BisectLeft, Bisection, Bisected, Spans
<1> HIDE DEF f
<1>4. \A lo, hi \in 0..n : f[<<lo, hi>>] = Bisected(f, s, c, lo, hi)
  <2>1. f = [r \in Spans(s) |-> Bisected(f, s, c, r[1], r[2])] BY <1>2 DEF Bisection
  <2>2. \A lo, hi \in 0..n : <<lo, hi>> \in Spans(s) BY DEF Spans, n
  <2> QED BY <2>1, <2>2
<1>5. \A i \in 1..n : s[i] \in Nat BY <1>1
<1> HIDE DEF n
<1>6. ASSUME NEW lo \in 0..n PROVE Right(lo, lo)
  <2>1. lo \in Nat BY <1>1
  <2>2. lo >= lo BY <2>1
  <2>3. Bisected(f, s, c, lo, lo) = lo BY <2>2 DEF Bisected
  <2>4. f[<<lo, lo>>] = Bisected(f, s, c, lo, lo) BY <1>4
  <2> QED BY <2>1, <2>3, <2>4
<1>7. 0 \in N
  <2> HIDE DEF Right
  <2>1. \A lo, hi \in 0..n : lo <= hi /\ hi - lo <= 0 => lo = hi BY <1>1
  <2> QED BY <1>6, <2>1
<1>8. ASSUME NEW d \in Nat, d \in N PROVE d + 1 \in N
  <2> SUFFICES ASSUME NEW lo \in 0..n, NEW hi \in 0..n, lo <= hi, hi - lo <= d + 1
               PROVE  Right(lo, hi)
    OBVIOUS
  <2>1. CASE lo = hi BY <1>6, <2>1
  <2>2. CASE lo # hi
    <3> DEFINE mid == (lo + hi) \div 2
               x == f[<<lo, hi>>]
    <3>1. lo < hi BY <1>1, <2>2
    <3>2. /\ mid \in 0..n /\ mid + 1 \in 0..n /\ lo <= mid /\ mid < hi
          /\ mid - lo <= d /\ hi - (mid + 1) <= d
      BY <1>1, <3>1, Halves
    <3>3. x = IF s[mid + 1] > c THEN f[<<mid + 1, hi>>] ELSE f[<<lo, mid>>]
      BY <1>1, <1>4, <3>1 DEF Bisected
    <3> HIDE DEF mid
    <3>4. s[mid + 1] \in Nat BY <1>1, <1>5, <3>2
    <3>5. CASE s[mid + 1] > c
      <4>1. x = f[<<mid + 1, hi>>] BY <3>3, <3>5
      <4>2. Right(mid + 1, hi) BY <1>1, <1>8, <3>2
      <4>3. x \in (mid + 1)..hi /\ (x < hi => s[x + 1] <= c) /\ (x > mid + 1 => s[x] > c)
        BY <4>1, <4>2
      <4> HIDE DEF x
      <4>4. x \in lo..hi BY <1>1, <3>2, <4>3
      <4>5. x = mid + 1 \/ x > mid + 1 BY <1>1, <3>2, <4>3
      <4>6. x > lo => s[x] > c BY <3>5, <4>3, <4>5
      <4> QED BY <4>3, <4>4, <4>6 DEF x
    <3>6. CASE ~(s[mid + 1] > c)
      <4>1. x = f[<<lo, mid>>] BY <3>3, <3>6
      <4>2. Right(lo, mid) BY <1>1, <1>8, <3>2
      <4>3. x \in lo..mid /\ (x < mid => s[x + 1] <= c) /\ (x > lo => s[x] > c)
        BY <4>1, <4>2
      <4>4. s[mid + 1] <= c BY <3>4, <3>6
      <4> HIDE DEF x
      <4>5. x \in lo..hi BY <1>1, <3>2, <4>3
      <4>6. x = mid \/ x < mid BY <1>1, <3>2, <4>3
      <4>7. x < hi => s[x + 1] <= c BY <4>3, <4>4, <4>6
      <4> QED BY <4>3, <4>5, <4>7 DEF x
    <3> QED BY <3>5, <3>6
  <2> QED BY <2>1, <2>2
<1> HIDE DEF N
<1>9. n \in N BY <1>1, <1>7, <1>8, NatSetInduction
<1>10. Right(0, n)
  <2> HIDE DEF Right
  <2>1. 0 \in 0..n /\ n \in 0..n /\ 0 <= n /\ n - 0 <= n BY <1>1
  <2> QED BY <1>9, <2>1 DEF N
<1> DEFINE x == f[<<0, n>>]
<1>11. x \in 0..n /\ (x < n => s[x + 1] <= c) /\ (x > 0 => s[x] > c) BY <1>10
<1>12. BisectLeft(s, c) = x + 1 BY <1>3
<1> HIDE DEF x
<1>13. x + 1 \in 1..(n + 1) /\ (x + 1 <= n <=> x < n) /\ (x + 1 > 1 <=> x > 0) /\ (x + 1) - 1 = x
  BY <1>1, <1>11
<1> QED BY <1>11, <1>12, <1>13 DEF n

(***************************************************************************)
(* The buffers.                                                            *)
(***************************************************************************)
\* An entry is at most Disorder older than any that came before it.
AlmostSorted(s) == s \in Seq(Nat) /\ \A i, j \in 1..Len(s) : i < j => s[j] <= s[i] + Disorder

BuffersInv ==
  ChangeWindows # << >> =>
    /\ samples \in [Key -> Seq(Nat)] /\ deals \in [Key -> Seq(Nat)]
    /\ \A k \in Key : AlmostSorted(samples[k]) /\ AlmostSorted(deals[k])

\* A search errs by Disorder at most, on either side of the place it finds.
LEMMA SearchErrs ==
  ASSUME NEW s, AlmostSorted(s), NEW w \in Nat
  PROVE  /\ BisectLeft(s, w) \in 1..(Len(s) + 1)
         /\ BisectLeft(s, w) <= Len(s) => s[BisectLeft(s, w)] <= w
         /\ \A j \in 1..Len(s) : j < BisectLeft(s, w) => s[j] + Disorder > w
         /\ \A j \in 1..Len(s) : ~(j < BisectLeft(s, w)) => s[j] <= w + Disorder
<1> DEFINE p == BisectLeft(s, w)
<1>1. s \in Seq(Nat) /\ Disorder \in Nat /\ Len(s) \in Nat
  BY DetectorAssumption DEF AlmostSorted
<1>2. p \in 1..(Len(s) + 1) /\ (p <= Len(s) => s[p] <= w) /\ (p > 1 => s[p - 1] > w)
  BY <1>1, BisectProperties
<1> HIDE DEF p
<1>3. \A i \in 1..Len(s) : s[i] \in Nat BY <1>1
<1>4. \A i, j \in 1..Len(s) : i < j => s[j] <= s[i] + Disorder BY DEF AlmostSorted
<1>5. ASSUME NEW j \in 1..Len(s), j < p PROVE s[j] + Disorder > w
  <2>1. p - 1 \in 1..Len(s) /\ p > 1 BY <1>1, <1>2, <1>5
  <2>2. s[p - 1] > w /\ s[p - 1] \in Nat /\ s[j] \in Nat BY <1>2, <1>3, <2>1
  <2>3. CASE j = p - 1 BY <1>1, <2>2, <2>3
  <2>4. CASE j # p - 1
    <3>1. j < p - 1 BY <1>1, <1>2, <1>5, <2>4
    <3>2. s[p - 1] <= s[j] + Disorder BY <1>4, <2>1, <3>1
    <3> QED BY <1>1, <2>2, <3>2
  <2> QED BY <2>3, <2>4
<1>6. ASSUME NEW j \in 1..Len(s), ~(j < p) PROVE s[j] <= w + Disorder
  <2>1. p \in 1..Len(s) BY <1>1, <1>2, <1>6
  <2>2. s[p] <= w /\ s[p] \in Nat /\ s[j] \in Nat BY <1>1, <1>2, <1>3, <2>1
  <2>3. CASE j = p BY <1>1, <2>2, <2>3
  <2>4. CASE j # p
    <3>1. p < j BY <1>1, <1>2, <1>6, <2>4
    <3>2. s[j] <= s[p] + Disorder BY <1>4, <2>1, <3>1
    <3> QED BY <1>1, <2>2, <3>2
  <2> QED BY <2>3, <2>4
<1> QED BY <1>2, <1>5, <1>6 DEF p

\* So the windows that the engines take are right up to Disorder.
LEMMA BuffersSuffice == BuffersInv => WindowsSurviveDisorder
<1> SUFFICES ASSUME BuffersInv, NEW k \in Key, NEW i \in DOMAIN ChangeWindows
             PROVE LET w == ChangeWindows[i] IN
               /\ LET first == BisectLeft(samples[k], w)
                  IN  /\ first <= Len(samples[k]) => samples[k][first] <= w
                      /\ \A j \in 1..(first - 1) : samples[k][j] + Disorder > w
               /\ \A j \in DOMAIN deals[k] : LET a == deals[k][j] IN
                      /\ j \in DealsBefore(k, w) => a + Disorder > w /\ a <= w + PreMoveLookback + Disorder
                      /\ a > w + Disorder /\ a + Disorder <= w + PreMoveLookback => j \in DealsBefore(k, w)
  BY DEF WindowsSurviveDisorder
<1> DEFINE w == ChangeWindows[i]
           s == samples[k]
           d == deals[k]
           u == w + PreMoveLookback
<1>1. w \in Nat /\ PreMoveLookback \in Nat /\ Disorder \in Nat /\ ChangeWindows # << >>
  BY DetectorAssumption
<1>2. AlmostSorted(s) /\ AlmostSorted(d) BY <1>1 DEF BuffersInv
<1> HIDE DEF w, s, d
<1>3. u \in Nat BY <1>1
<1> HIDE DEF u
<1>4. /\ BisectLeft(s, w) \in 1..(Len(s) + 1)
      /\ BisectLeft(s, w) <= Len(s) => s[BisectLeft(s, w)] <= w
      /\ \A j \in 1..Len(s) : j < BisectLeft(s, w) => s[j] + Disorder > w
  BY <1>1, <1>2, SearchErrs
<1>5. /\ BisectLeft(d, w) \in 1..(Len(d) + 1)
      /\ \A j \in 1..Len(d) : j < BisectLeft(d, w) => d[j] + Disorder > w
      /\ \A j \in 1..Len(d) : ~(j < BisectLeft(d, w)) => d[j] <= w + Disorder
  BY <1>1, <1>2, SearchErrs
<1>6. /\ BisectLeft(d, u) \in 1..(Len(d) + 1)
      /\ \A j \in 1..Len(d) : j < BisectLeft(d, u) => d[j] + Disorder > u
      /\ \A j \in 1..Len(d) : ~(j < BisectLeft(d, u)) => d[j] <= u + Disorder
  BY <1>2, <1>3, SearchErrs
<1>7. Len(s) \in Nat /\ Len(d) \in Nat /\ DOMAIN d = 1..Len(d) /\ \A j \in 1..Len(d) : d[j] \in Nat
  BY <1>2 DEF AlmostSorted
<1>8. DealsBefore(k, w) = BisectLeft(d, u)..(BisectLeft(d, w) - 1) BY DEF DealsBefore, d, u
<1>9. \A j \in 1..(BisectLeft(s, w) - 1) : s[j] + Disorder > w
  <2>1. \A j \in 1..(BisectLeft(s, w) - 1) : j \in 1..Len(s) /\ j < BisectLeft(s, w) BY <1>4, <1>7
  <2> QED BY <1>4, <2>1
<1>10. ASSUME NEW j \in DOMAIN d
       PROVE  /\ j \in DealsBefore(k, w) => d[j] + Disorder > w /\ d[j] <= u + Disorder
              /\ d[j] > w + Disorder /\ d[j] + Disorder <= u => j \in DealsBefore(k, w)
  <2> DEFINE e == BisectLeft(d, w)
             b == BisectLeft(d, u)
  <2>1. /\ j \in 1..Len(d) /\ j \in Nat /\ e \in Nat /\ b \in Nat /\ d[j] \in Nat
        /\ j < e => d[j] + Disorder > w
        /\ ~(j < e) => d[j] <= w + Disorder
        /\ j < b => d[j] + Disorder > u
        /\ ~(j < b) => d[j] <= u + Disorder
        /\ DealsBefore(k, w) = b..(e - 1)
    BY <1>5, <1>6, <1>7, <1>8
  <2> HIDE DEF e, b
  <2> QED BY <1>1, <1>3, <2>1
<1> QED BY <1>4, <1>9, <1>10 DEF w, s, d, u

\* The deque keeps an entry that arrives at most Disorder late in almost the right place.
LEMMA PushKeeps ==
  ASSUME NEW s, AlmostSorted(s), NEW age \in 0..Disorder
  PROVE  AlmostSorted(Push(s, age))
<1> DEFINE t == Append(s, age)
<1>1. /\ s \in Seq(Nat) /\ Len(s) \in Nat /\ Disorder \in Nat /\ BufferSize \in Nat /\ BufferSize > 0
      /\ age \in Nat /\ age <= Disorder
  BY DetectorAssumption DEF AlmostSorted
<1>2. /\ t \in Seq(Nat) /\ Len(t) = Len(s) + 1 /\ t[Len(s) + 1] = age
      /\ \A i \in 1..Len(s) : t[i] = s[i] /\ s[i] \in Nat
  BY <1>1
<1> HIDE DEF t
<1>3. AlmostSorted(t)
  <2> SUFFICES ASSUME NEW i \in 1..Len(t), NEW j \in 1..Len(t), i < j PROVE t[j] <= t[i] + Disorder
    BY <1>2 DEF AlmostSorted
  <2>1. i \in 1..Len(s) BY <1>1, <1>2
  <2>2. CASE j = Len(s) + 1 BY <1>1, <1>2, <2>1, <2>2
  <2>3. CASE j # Len(s) + 1
    <3>1. j \in 1..Len(s) BY <1>1, <1>2, <2>3
    <3>2. s[j] <= s[i] + Disorder BY <2>1, <3>1 DEF AlmostSorted
    <3> QED BY <1>2, <2>1, <3>1, <3>2
  <2> QED BY <2>2, <2>3
<1>4. CASE Len(t) > BufferSize
  <2>1. t # << >> /\ Push(s, age) = Tail(t) BY <1>1, <1>2, <1>4 DEF Push, t
  <2>2. /\ Tail(t) \in Seq(Nat) /\ Len(Tail(t)) = Len(s)
        /\ \A i \in 1..Len(s) : Tail(t)[i] = t[i + 1]
    BY <1>1, <1>2, <2>1
  <2>3. ASSUME NEW i \in 1..Len(s), NEW j \in 1..Len(s), i < j
        PROVE  Tail(t)[j] <= Tail(t)[i] + Disorder
    <3>1. i + 1 \in 1..Len(t) /\ j + 1 \in 1..Len(t) /\ i + 1 < j + 1 BY <1>1, <1>2, <2>3
    <3>2. t[j + 1] <= t[i + 1] + Disorder BY <1>3, <3>1 DEF AlmostSorted
    <3> QED BY <2>2, <3>2
  <2> QED BY <2>1, <2>2, <2>3 DEF AlmostSorted
<1>5. CASE ~(Len(t) > BufferSize)
  <2>1. Push(s, age) = t BY <1>5 DEF Push, t
  <2> QED BY <1>3, <2>1
<1> QED BY <1>4, <1>5

\* Ageing up to a bound keeps the order.
LEMMA AgeingKeeps ==
  ASSUME NEW s, AlmostSorted(s), NEW last \in Nat
  PROVE  AlmostSorted([i \in DOMAIN s |-> Min({last, s[i] + 1})])
<1> DEFINE t == [i \in DOMAIN s |-> Min({last, s[i] + 1})]
<1>1. /\ s \in Seq(Nat) /\ Len(s) \in Nat /\ Disorder \in Nat /\ DOMAIN s = 1..Len(s)
      /\ \A i \in 1..Len(s) : s[i] \in Nat
  BY DetectorAssumption DEF AlmostSorted
<1>2. \A i \in 1..Len(s) : t[i] \in Nat /\ t[i] = IF last <= s[i] + 1 THEN last ELSE s[i] + 1
  <2> SUFFICES ASSUME NEW i \in 1..Len(s)
               PROVE  t[i] \in Nat /\ t[i] = IF last <= s[i] + 1 THEN last ELSE s[i] + 1
    OBVIOUS
  <2> DEFINE a == s[i] + 1
  <2>1. a \in Nat BY <1>1
  <2>2. t[i] = Min({last, a}) BY <1>1
  <2> HIDE DEF a, t
  <2>3. {last, a} \in SUBSET Nat /\ {last, a} # {} BY <2>1
  <2>4. Min({last, a}) \in {last, a} /\ \A n \in {last, a} : Min({last, a}) <= n
    BY <2>3, MinProperties
  <2>5. t[i] = IF last <= a THEN last ELSE a BY <2>1, <2>2, <2>4
  <2> QED BY <2>1, <2>5 DEF a
<1>3. t \in Seq(Nat) /\ Len(t) = Len(s)
  <2>1. t = [i \in 1..Len(s) |-> t[i]] BY <1>1
  <2> HIDE DEF t
  <2> QED BY <1>1, <1>2, <2>1
<1> HIDE DEF t
<1>4. ASSUME NEW i \in 1..Len(s), NEW j \in 1..Len(s), i < j PROVE t[j] <= t[i] + Disorder
  <2>1. s[j] <= s[i] + Disorder /\ s[i] \in Nat /\ s[j] \in Nat BY <1>1, <1>4 DEF AlmostSorted
  <2> QED BY <1>1, <1>2, <2>1
<1>5. AlmostSorted(t) BY <1>3, <1>4 DEF AlmostSorted
<1> QED BY <1>5 DEF t

\* The largest window is a number.
LEMMA OldestAgeType == ASSUME ChangeWindows # << >> PROVE OldestAge \in Nat
<1> DEFINE B(n) == \E b \in Nat : \A i \in 1..n : ChangeWindows[i] <= b
           N == {n \in Nat : n <= Len(ChangeWindows) => B(n)}
<1>1. ChangeWindows \in Seq(Nat) /\ Len(ChangeWindows) \in Nat BY DetectorAssumption
<1>2. 0 \in N
  <2>1. \A i \in 1..0 : ChangeWindows[i] <= 0 OBVIOUS
  <2> QED BY <2>1
<1>3. ASSUME NEW n \in Nat, n \in N PROVE n + 1 \in N
  <2> SUFFICES ASSUME n + 1 <= Len(ChangeWindows) PROVE B(n + 1) OBVIOUS
  <2>1. PICK b \in Nat : \A i \in 1..n : ChangeWindows[i] <= b BY <1>1, <1>3
  <2>2. /\ \A i \in 1..(n + 1) : ChangeWindows[i] \in Nat /\ (i \in 1..n \/ i = n + 1)
        /\ n + 1 \in 1..(n + 1)
    BY <1>1
  <2> DEFINE m == b + ChangeWindows[n + 1]
  <2>3. m \in Nat /\ \A i \in 1..(n + 1) : ChangeWindows[i] <= m BY <2>1, <2>2
  <2> HIDE DEF m
  <2> QED BY <2>3
<1>4. PICK b \in Nat : \A i \in 1..Len(ChangeWindows) : ChangeWindows[i] <= b
  <2> HIDE DEF N
  <2>1. Len(ChangeWindows) \in N BY <1>1, <1>2, <1>3, NatSetInduction
  <2> QED BY <1>1, <2>1 DEF N
<1> DEFINE R == Range(ChangeWindows)
<1>5. R \in SUBSET Nat /\ R # {} /\ \A x \in R : x <= b
  <2>1. DOMAIN ChangeWindows = 1..Len(ChangeWindows) /\ 1 \in 1..Len(ChangeWindows) BY <1>1
  <2>2. \A i \in 1..Len(ChangeWindows) : ChangeWindows[i] \in Nat BY <1>1
  <2> QED BY <1>4, <2>1, <2>2 DEF Range
<1> HIDE DEF R
<1>6. Max(R) \in R BY <1>5, MaxProperties
<1> QED BY <1>5, <1>6 DEF OldestAge, R

\* Whatever arrives late, by Disorder at most, is repeated or is dropped from a full
\* buffer: the searches find the windows up to Disorder (bisect_left in
\* oi_concentration.py and pre_move.py).
THEOREM SearchesSurviveDisorder == DetectorSpec => []WindowsSurviveDisorder
<1>1. DetectorInit => BuffersInv
  <2>1. AlmostSorted(<< >>)
    <3>1. << >> \in Seq(Nat) /\ Len(<< >>) = 0 /\ 1..0 = {} OBVIOUS
    <3> QED BY <3>1 DEF AlmostSorted
  <2>2. << >> \in Seq(Nat) OBVIOUS
  <2> QED BY <2>1, <2>2 DEF DetectorInit, BuffersInv
<1>2. BuffersInv /\ [DetectorNext]_detectorVars => BuffersInv'
  <2> SUFFICES ASSUME BuffersInv, [DetectorNext]_detectorVars, ChangeWindows # << >>
               PROVE  BuffersInv'
    BY DEF BuffersInv
  <2>0. /\ samples \in [Key -> Seq(Nat)] /\ deals \in [Key -> Seq(Nat)]
        /\ \A k \in Key : AlmostSorted(samples[k]) /\ AlmostSorted(deals[k])
    BY DEF BuffersInv
  <2>1. ASSUME UNCHANGED buffers PROVE BuffersInv'
    <3>1. samples' = samples /\ deals' = deals BY <2>1 DEF buffers
    <3> QED BY <2>0, <3>1 DEF BuffersInv
  <2>2. ASSUME NEW k \in KeysOf[detector], NEW age \in 0..Disorder, OnAssetUpdate(k, age)
        PROVE  BuffersInv'
    <3>1. samples' = [samples EXCEPT ![k] = Push(samples[k], age)] /\ deals' = deals
      BY <2>2 DEF OnAssetUpdate
    <3>2. k \in Key => AlmostSorted(Push(samples[k], age)) BY <2>0, PushKeeps
    <3>3. k \in Key => Push(samples[k], age) \in Seq(Nat) BY <3>2 DEF AlmostSorted
    <3> QED BY <2>0, <3>1, <3>2, <3>3 DEF BuffersInv
  <2>3. ASSUME NEW k \in KeysOf[detector], NEW age \in 0..Disorder, OnTradeDeal(k, age)
        PROVE  BuffersInv'
    <3>1. deals' = [deals EXCEPT ![k] = Push(deals[k], age)] /\ samples' = samples
      BY <2>3 DEF OnTradeDeal
    <3>2. k \in Key => AlmostSorted(Push(deals[k], age)) BY <2>0, PushKeeps
    <3>3. k \in Key => Push(deals[k], age) \in Seq(Nat) BY <3>2 DEF AlmostSorted
    <3> QED BY <2>0, <3>1, <3>2, <3>3 DEF BuffersInv
  <2>4. ASSUME DetectorAges PROVE BuffersInv'
    <3> DEFINE older(b, last) == [i \in DOMAIN b |-> Min({last, b[i] + 1})]
               top == OldestAge + PreMoveLookback + Disorder
    <3>1. samples' = [k \in Key |-> older(samples[k], OldestAge)] /\ deals' = [k \in Key |-> older(deals[k], top)]
      BY <2>4 DEF DetectorAges
    <3>2. OldestAge \in Nat /\ top \in Nat
      <4>1. OldestAge \in Nat BY OldestAgeType
      <4> QED BY <4>1, DetectorAssumption
    <3> HIDE DEF top
    <3>3. \A k \in Key : AlmostSorted(older(samples[k], OldestAge)) /\ AlmostSorted(older(deals[k], top))
      BY <2>0, <3>2, AgeingKeeps
    <3> HIDE DEF older
    <3>4. \A k \in Key : older(samples[k], OldestAge) \in Seq(Nat) /\ older(deals[k], top) \in Seq(Nat)
      BY <3>3 DEF AlmostSorted
    <3> QED BY <3>1, <3>3, <3>4 DEF BuffersInv
  <2>5. \/ UNCHANGED buffers \/ DetectorAges
        \/ \E k \in KeysOf[detector], age \in 0..Disorder : OnAssetUpdate(k, age) \/ OnTradeDeal(k, age)
    BY DEF DetectorNext, detectorVars, buffers, DetectorTick, Examines, NoAlert, Alerts, QueryFails,
           JudgesAtOnce, ReadsRows, BooksArrive, TickReturns
  <2> QED BY <2>1, <2>2, <2>3, <2>4, <2>5
<1> QED BY <1>1, <1>2, BuffersSuffice, PTL DEF DetectorSpec

================================================================================
