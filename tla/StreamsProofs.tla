----------------------------- MODULE StreamsProofs -----------------------------
(***************************************************************************)
(* Proofs about the supervisors of the streams and the life of the thread  *)
(* they run in, for every list of coins, every number of connections and   *)
(* whales, and every number of failures.                                   *)
(***************************************************************************)
EXTENDS Streams, DataLemmas

(***************************************************************************)
(* Batches: a coin is in one of them at most.                              *)
(***************************************************************************)
\* No two sets of a list share an element.
Disjoint(sets) ==
  \A i, j \in DOMAIN sets : i # j => sets[i] \intersect sets[j] = {}

\* The sets of consecutive stretches of a list.
Stretches(sets, list, size, count) ==
  /\ DOMAIN sets = 1..count
  /\ \A i \in 1..count : \E last \in Nat :
       /\ last <= i * size /\ last <= Len(list)
       /\ sets[i] = Range(SubSeq(list, (i - 1) * size + 1, last))

\* In a list without repetitions they are disjoint.
LEMMA StretchesDisjoint ==
  ASSUME NEW T, NEW list \in Seq(T), NEW size \in Nat, NEW count \in Int,
         \A i, j \in 1..Len(list) : list[i] = list[j] => i = j,
         NEW sets, Stretches(sets, list, size, count)
  PROVE  Disjoint(sets)
<1>1. ASSUME NEW i \in 1..count, NEW c \in sets[i]
      PROVE  \E k \in 1..Len(list) : c = list[k] /\ (i - 1) * size < k /\ k <= i * size
  <2> DEFINE from == (i - 1) * size
             to == i * size
  <2>1. i \in Nat /\ i - 1 \in Nat BY <1>1
  <2>2. from \in Nat /\ to \in Nat BY <2>1
  <2>3. PICK last \in Nat : /\ last <= to /\ last <= Len(list)
                             /\ sets[i] = Range(SubSeq(list, from + 1, last))
    BY DEF Stretches
  <2> DEFINE part == SubSeq(list, from + 1, last)
  <2> HIDE DEF from, to
  <2>4. c \in Range(part) BY <1>1, <2>3
  <2>5. Len(part) = IF from + 1 <= last THEN last - from ELSE 0 BY <2>2
  <2>6. \A n \in 1..Len(part) : part[n] = list[from + n] BY <2>2
  <2>7. DOMAIN part = 1..Len(part) BY <2>2
  <2> HIDE DEF part
  <2>8. PICK n \in 1..Len(part) : c = part[n] BY <2>4, <2>7 DEF Range
  <2>9. from + n \in 1..Len(list) /\ from < from + n /\ from + n <= to
    BY <2>2, <2>3, <2>5
  <2> QED BY <2>6, <2>8, <2>9 DEF from, to
<1>2. ASSUME NEW i \in 1..count, NEW j \in 1..count, i < j
      PROVE  i * size <= (j - 1) * size
  <2>1. i \in Nat /\ j - 1 \in Nat /\ j - 1 - i \in Nat BY <1>2
  <2>2. (j - 1) * size = i * size + (j - 1 - i) * size BY <2>1
  <2>3. (j - 1 - i) * size \in Nat /\ i * size \in Nat BY <2>1
  <2> QED BY <2>2, <2>3
<1>4. ASSUME NEW i \in 1..count, NEW j \in 1..count, i < j
      PROVE  sets[i] \intersect sets[j] = {}
  <2> SUFFICES ASSUME NEW c \in sets[i], c \in sets[j] PROVE FALSE OBVIOUS
  <2>1. PICK k \in 1..Len(list) : c = list[k] /\ k <= i * size BY <1>1
  <2>2. PICK l \in 1..Len(list) : c = list[l] /\ (j - 1) * size < l BY <1>1
  <2>3. k = l BY <2>1, <2>2
  <2> DEFINE a == i * size
             b == (j - 1) * size
  <2>4. a \in Nat /\ b \in Nat
    <3>1. i \in Nat /\ j - 1 \in Nat BY <1>4
    <3> QED BY <3>1
  <2>5. a <= b BY <1>2, <1>4
  <2>6. k <= a /\ b < k /\ k \in Nat BY <2>1, <2>2, <2>3
  <2> HIDE DEF a, b
  <2> QED BY <2>4, <2>5, <2>6
<1>5. \A i, j \in DOMAIN sets : i # j => i < j \/ j < i BY DEF Stretches
<1> QED BY <1>4, <1>5 DEF Disjoint, Stretches

\* The batches of a supervisor share no coin.
LEMMA BatchesDisjoint == ASSUME NEW s PROVE Disjoint(Batches(s))
<1> DEFINE wanted == IF s = "trades" THEN coins ELSE coins \intersect NativeCoins
           list == Filter(AllCoins, wanted)
           conns == IF s = "ctx" \/ Len(list) = 0 THEN 1
                    ELSE IF Len(list) < MaxConnections THEN Len(list) ELSE MaxConnections
           size == (Len(list) + conns - 1) \div conns
           count == IF size = 0 THEN 0 ELSE (Len(list) + size - 1) \div size
           last(i) == IF i * size < Len(list) THEN i * size ELSE Len(list)
<1>1. /\ list \in Seq(Range(AllCoins)) /\ Len(list) \in Nat
      /\ \A i, j \in 1..Len(list) : list[i] = list[j] => i = j
  <2> HIDE DEF wanted
  <2>1. /\ AllCoins \in Seq(Range(AllCoins))
        /\ \A i, j \in DOMAIN AllCoins : AllCoins[i] = AllCoins[j] => i = j
    BY StreamsAssumption DEF StreamsAssumption
  <2>2. list \in Seq(Range(AllCoins)) BY <2>1, FilterProperties
  <2>3. \A i, j \in 1..Len(list) : list[i] = list[j] => i = j BY <2>1, FilterInjective
  <2> QED BY <2>2, <2>3
<1>2. Batches(s) = [i \in 1..count |-> Range(SubSeq(list, (i - 1) * size + 1, last(i)))]
  BY DEF Batches
<1> HIDE DEF list
<1>3. conns \in Nat \ {0}
  BY <1>1, StreamsAssumption DEF StreamsAssumption
<1> HIDE DEF conns
<1>4. size \in Nat BY <1>1, <1>3
<1> HIDE DEF size
<1>5. count \in Int BY <1>1, <1>4
<1>6. \A i \in 1..count : last(i) \in Nat /\ last(i) <= i * size /\ last(i) <= Len(list)
  <2> SUFFICES ASSUME NEW i \in 1..count
               PROVE  last(i) \in Nat /\ last(i) <= i * size /\ last(i) <= Len(list)
    OBVIOUS
  <2>1. i \in Nat BY <1>5
  <2>2. i * size \in Nat BY <1>4, <2>1
  <2> QED BY <1>1, <2>2
<1> HIDE DEF count, last, size
<1>7. \A i \in 1..count : Batches(s)[i] = Range(SubSeq(list, (i - 1) * size + 1, last(i)))
  BY <1>2
<1>8. DOMAIN Batches(s) = 1..count BY <1>2
<1>9. \A i \in 1..count : \E n \in Nat :
        /\ n <= i * size /\ n <= Len(list)
        /\ Batches(s)[i] = Range(SubSeq(list, (i - 1) * size + 1, n))
  BY <1>6, <1>7
<1>10. Stretches(Batches(s), list, size, count) BY <1>8, <1>9 DEF Stretches
<1> QED BY <1>1, <1>4, <1>5, <1>10, StretchesDisjoint

(***************************************************************************)
(* The tasks of a supervisor.                                              *)
(***************************************************************************)
\* A supervisor's tasks share no coin, ended or not.
GoodTasks(tasks) ==
  /\ tasks = [i \in DOMAIN tasks |-> [coins |-> tasks[i].coins, at |-> tasks[i].at]]
  /\ \A i, j \in DOMAIN tasks : i # j => tasks[i].coins \intersect tasks[j].coins = {}

\* A supervisor that has not begun, or has ended, has no running task.
GoodSupervisor(x) ==
  /\ x = [at |-> x.at, goal |-> x.goal, active |-> x.active, tasks |-> x.tasks]
  /\ Disjoint(x.goal) /\ GoodTasks(x.tasks)
  /\ x.at \in {"none", "ended"} => Done(x.tasks)

Quiet(states) ==
  position.at \in states /\ \A s \in Supervisor : sup[s].at \in states

\* Nothing streams before run() has its tasks or after it has awaited them.
StreamsInv ==
  /\ sup = [s \in Supervisor |-> sup[s]]
  /\ \A s \in Supervisor : GoodSupervisor(sup[s])
  /\ main \in {"spawned", "wiring", "built", "refresh"} => Quiet({"none"})
  /\ main \in {"closing", "dead"} => Quiet({"none", "ended"})

\* New tasks share no coin.
LEMMA CreatedGood == ASSUME NEW sets, Disjoint(sets) PROVE GoodTasks(Created(sets))
BY DEF Created, GoodTasks, Disjoint

\* Cancelling keeps them apart.
LEMMA CancelGood == ASSUME NEW tasks, GoodTasks(tasks) PROVE GoodTasks(Cancel(tasks))
<1>1. \A i \in DOMAIN tasks : tasks[i] = [coins |-> tasks[i].coins, at |-> tasks[i].at]
  BY DEF GoodTasks
<1>2. DOMAIN Cancel(tasks) = DOMAIN tasks BY DEF Cancel
<1>3. ASSUME NEW i \in DOMAIN tasks
      PROVE  /\ Cancel(tasks)[i] = [coins |-> tasks[i].coins, at |-> Cancel(tasks)[i].at]
             /\ Cancel(tasks)[i].coins = tasks[i].coins
  <2>1. Cancel(tasks)[i] = IF tasks[i].at = "done" THEN tasks[i]
                           ELSE [tasks[i] EXCEPT !.at = "closing"]
    BY DEF Cancel
  <2>2. tasks[i] = [coins |-> tasks[i].coins, at |-> tasks[i].at] BY <1>1
  <2> QED BY <2>1, <2>2
<1>4. Cancel(tasks) = [i \in DOMAIN Cancel(tasks) |->
                         [coins |-> Cancel(tasks)[i].coins, at |-> Cancel(tasks)[i].at]]
  <2>1. Cancel(tasks) = [i \in DOMAIN Cancel(tasks) |-> Cancel(tasks)[i]] BY DEF Cancel
  <2> QED BY <1>2, <1>3, <2>1
<1> QED BY <1>2, <1>3, <1>4 DEF GoodTasks

\* So does the move of one task.
LEMMA MovedGood ==
  ASSUME NEW tasks, GoodTasks(tasks), NEW i \in DOMAIN tasks, NEW to
  PROVE  GoodTasks([tasks EXCEPT ![i].at = to])
<1> DEFINE moved == [tasks EXCEPT ![i].at = to]
<1>1. \A j \in DOMAIN tasks : tasks[j] = [coins |-> tasks[j].coins, at |-> tasks[j].at]
  BY DEF GoodTasks
<1>2. tasks = [j \in DOMAIN tasks |-> tasks[j]] BY DEF GoodTasks
<1>3. DOMAIN moved = DOMAIN tasks /\ moved = [j \in DOMAIN moved |-> moved[j]] BY <1>2
<1>4. ASSUME NEW j \in DOMAIN tasks
      PROVE  /\ moved[j] = [coins |-> tasks[j].coins, at |-> moved[j].at]
             /\ moved[j].coins = tasks[j].coins
  <2>1. tasks[j] = [coins |-> tasks[j].coins, at |-> tasks[j].at] BY <1>1
  <2> QED BY <1>2, <2>1
<1> HIDE DEF moved
<1>5. moved = [j \in DOMAIN moved |-> [coins |-> moved[j].coins, at |-> moved[j].at]]
  BY <1>3, <1>4
<1>6. GoodTasks(moved) BY <1>3, <1>4, <1>5 DEF GoodTasks
<1> QED BY <1>6 DEF moved

\* Only a supervisor that has begun and not ended can move, while run() runs.
LEMMA SupervisorMoves ==
  ASSUME StreamsInv, NEW s \in Supervisor, sup[s].at \notin {"none", "ended"},
         NEW x, GoodSupervisor(x), sup' = [sup EXCEPT ![s] = x],
         UNCHANGED <<main, position>>
  PROVE  StreamsInv'
<1>1. /\ sup = [t \in Supervisor |-> sup[t]]
      /\ \A t \in Supervisor : GoodSupervisor(sup[t])
      /\ main \notin {"spawned", "wiring", "built", "refresh", "closing", "dead"}
  BY DEF StreamsInv, Quiet
<1>2. /\ DOMAIN sup' = Supervisor /\ sup' = [t \in DOMAIN sup' |-> sup'[t]]
      /\ \A t \in Supervisor : GoodSupervisor(sup'[t])
  BY <1>1 DEF Supervisor
<1> QED BY <1>1, <1>2 DEF StreamsInv, Supervisor, GoodSupervisor, GoodTasks, Disjoint, Done

\* A supervisor looks at its tasks, replaces them, or ends.
LEMMA SupervisorStep ==
  ASSUME StreamsInv, NEW s \in Supervisor,
         Reconcile(s) \/ Recreate(s) \/ SupervisorStops(s) \/ SupervisorEnds(s)
  PROVE  StreamsInv'
<1>1. /\ GoodSupervisor(sup[s]) /\ Disjoint(sup[s].goal) /\ GoodTasks(sup[s].tasks)
      /\ sup[s] = [at |-> sup[s].at, goal |-> sup[s].goal, active |-> sup[s].active,
                   tasks |-> sup[s].tasks]
  BY DEF StreamsInv, GoodSupervisor
<1>2. sup = [t \in Supervisor |-> sup[t]] BY DEF StreamsInv
<1>3. CASE Reconcile(s)
  <2> DEFINE x == [at |-> IF Failed(s) THEN "restart" ELSE "replace", goal |-> Batches(s),
                   active |-> sup[s].active, tasks |-> Cancel(sup[s].tasks)]
  <2>1. /\ sup[s].at = "idle" /\ sup' = [sup EXCEPT ![s] = x] /\ UNCHANGED <<main, position>>
    BY <1>3 DEF Reconcile, threads
  <2>2. GoodSupervisor(x) BY <1>1, CancelGood, BatchesDisjoint DEF GoodSupervisor
  <2> HIDE DEF x
  <2> QED BY <2>1, <2>2, SupervisorMoves
<1>4. CASE Recreate(s)
  <2> DEFINE goal == IF sup[s].at = "restart" THEN Batches(s) ELSE sup[s].goal
             x == [at |-> "idle", goal |-> <<>>, active |-> goal, tasks |-> Created(goal)]
  <2>1. /\ sup[s].at \in {"restart", "replace"} /\ sup' = [sup EXCEPT ![s] = x]
        /\ UNCHANGED <<main, position>>
    BY <1>4 DEF Recreate, threads
  <2>2. Disjoint(goal) BY <1>1, BatchesDisjoint
  <2>3. Disjoint(<<>>) BY DEF Disjoint
  <2>4. GoodSupervisor(x) BY <2>2, <2>3, CreatedGood DEF GoodSupervisor
  <2> HIDE DEF x
  <2> QED BY <2>1, <2>4, SupervisorMoves
<1>5. CASE SupervisorStops(s)
  <2> DEFINE ends == Cancel(sup[s].tasks)
             x == [sup[s] EXCEPT !.at = "unwind", !.tasks = ends]
  <2>1. /\ sup[s].at = "idle" /\ UNCHANGED <<main, position>>
        /\ sup' = [sup EXCEPT ![s].at = "unwind", ![s].tasks = Cancel(@)]
    BY <1>5 DEF SupervisorStops, threads
  <2>2. sup' = [sup EXCEPT ![s] = x] BY <1>1, <1>2, <2>1
  <2>3. GoodTasks(ends) BY <1>1, CancelGood
  <2> HIDE DEF ends
  <2>4. x = [at |-> "unwind", goal |-> sup[s].goal, active |-> sup[s].active, tasks |-> ends]
    <3> DEFINE y == [sup[s] EXCEPT !.at = "unwind"]
    <3>1. y = [at |-> "unwind", goal |-> sup[s].goal, active |-> sup[s].active,
               tasks |-> sup[s].tasks]
      BY <1>1
    <3>2. x = [y EXCEPT !.tasks = ends] OBVIOUS
    <3> HIDE DEF y, x
    <3> QED BY <3>1, <3>2
  <2>5. GoodSupervisor(x) BY <1>1, <2>3, <2>4 DEF GoodSupervisor
  <2> HIDE DEF x
  <2> QED BY <2>1, <2>2, <2>5, SupervisorMoves
<1>6. CASE SupervisorEnds(s)
  <2> DEFINE x == [sup[s] EXCEPT !.at = "ended"]
  <2>1. /\ sup[s].at = "unwind" /\ Done(sup[s].tasks) /\ UNCHANGED <<main, position>>
        /\ sup' = [sup EXCEPT ![s] = x]
    BY <1>2, <1>6 DEF SupervisorEnds, threads
  <2>2. x = [at |-> "ended", goal |-> sup[s].goal, active |-> sup[s].active,
             tasks |-> sup[s].tasks]
    BY <1>1
  <2>3. GoodSupervisor(x) BY <1>1, <2>1, <2>2 DEF GoodSupervisor
  <2> HIDE DEF x
  <2> QED BY <2>1, <2>3, SupervisorMoves
<1> QED BY <1>3, <1>4, <1>5, <1>6

\* A stream task connects, loses its connection, or ends.
LEMMA TaskStep ==
  ASSUME StreamsInv, NEW s \in Supervisor, NEW i \in Tasks(s), Streaming(s, i) \/ Failing(s, i)
  PROVE  StreamsInv'
<1>1. PICK to : /\ sup[s].tasks[i].at # "done" /\ UNCHANGED <<main, position>>
                /\ sup' = [sup EXCEPT ![s].tasks[i].at = to]
  BY DEF Streaming, Failing, Connected, Reconnects, Closed, Disconnected, Raises, Breaks, Task,
     threads
<1>2. /\ GoodSupervisor(sup[s]) /\ Disjoint(sup[s].goal) /\ GoodTasks(sup[s].tasks)
      /\ sup[s] = [at |-> sup[s].at, goal |-> sup[s].goal, active |-> sup[s].active,
                   tasks |-> sup[s].tasks]
      /\ i \in DOMAIN sup[s].tasks
  BY DEF StreamsInv, GoodSupervisor, Tasks
<1>3. sup[s].at \notin {"none", "ended"} BY <1>1, <1>2 DEF GoodSupervisor, Done
<1> DEFINE moved == [sup[s].tasks EXCEPT ![i].at = to]
           x == [sup[s] EXCEPT !.tasks = moved]
<1>4. GoodTasks(moved) BY <1>2, MovedGood
<1>5. sup' = [sup EXCEPT ![s] = x] BY <1>1
<1> HIDE DEF moved
<1>6. x = [at |-> sup[s].at, goal |-> sup[s].goal, active |-> sup[s].active, tasks |-> moved]
  BY <1>2
<1>7. GoodSupervisor(x) BY <1>2, <1>3, <1>4, <1>6 DEF GoodSupervisor
<1> HIDE DEF x
<1> QED BY <1>1, <1>3, <1>5, <1>7, SupervisorMoves

\* The tasks of run() are cancelled.
LEMMA CancelStep ==
  ASSUME StreamsInv, CancelTasks, main' = "unwinding"
  PROVE  StreamsInv'
<1>1. /\ sup' = [s \in Supervisor |->
                   IF sup[s].at \in {"none", "ended"} THEN sup[s]
                   ELSE [sup[s] EXCEPT !.at = "unwind", !.tasks = Cancel(sup[s].tasks)]]
      /\ DOMAIN sup' = Supervisor
  BY DEF CancelTasks
<1>2. ASSUME NEW s \in Supervisor PROVE GoodSupervisor(sup'[s])
  <2>1. /\ GoodSupervisor(sup[s]) /\ Disjoint(sup[s].goal) /\ GoodTasks(sup[s].tasks)
        /\ sup[s] = [at |-> sup[s].at, goal |-> sup[s].goal, active |-> sup[s].active,
                     tasks |-> sup[s].tasks]
    BY DEF StreamsInv, GoodSupervisor
  <2>2. CASE sup[s].at \in {"none", "ended"}
    <3>1. sup'[s] = sup[s] BY <1>1, <2>2
    <3> QED BY <2>1, <3>1
  <2>3. CASE sup[s].at \notin {"none", "ended"}
    <3> DEFINE x == [at |-> "unwind", goal |-> sup[s].goal, active |-> sup[s].active,
                     tasks |-> Cancel(sup[s].tasks)]
    <3>1. sup'[s] = x BY <1>1, <2>1, <2>3
    <3>2. GoodSupervisor(x) BY <2>1, CancelGood DEF GoodSupervisor
    <3> HIDE DEF x
    <3> QED BY <3>1, <3>2
  <2> QED BY <2>2, <2>3
<1>3. sup' = [s \in DOMAIN sup' |-> sup'[s]] BY <1>1
<1>4. \A s \in DOMAIN sup' : GoodSupervisor(sup'[s])
  BY <1>1, <1>2
<1> QED BY <1>3, <1>4 DEF StreamsInv, Supervisor, GoodSupervisor, GoodTasks, Disjoint, Done

\* A step that leaves the supervisors alone, and the position stream in its place
\* or somewhere in its loop.
LEMMA OthersMove ==
  ASSUME StreamsInv, sup' = sup, main' = main,
         position' = position \/ position.at \notin {"none", "ended"}
  PROVE  StreamsInv'
BY DEF StreamsInv, Supervisor, GoodSupervisor, GoodTasks, Disjoint, Done, Quiet

\* run() goes from one place to the next.
LEMMA MainStep ==
  ASSUME StreamsInv, MainMoves \/ MainFails
  PROVE  StreamsInv'
<1>1. CASE RunCreatesTasks
  <2> DEFINE x == [Unborn EXCEPT !.at = "idle"]
  <2>1. /\ main' = "running" /\ sup' = [s \in Supervisor |-> x] BY <1>1 DEF RunCreatesTasks, Main
  <2>2. x = [at |-> "idle", goal |-> <<>>, active |-> <<>>, tasks |-> <<>>] BY DEF Unborn
  <2> HIDE DEF x
  <2>3. GoodSupervisor(x) BY <2>2 DEF GoodSupervisor, GoodTasks, Disjoint
  <2>4. /\ sup' = [s \in DOMAIN sup' |-> sup'[s]] /\ \A s \in DOMAIN sup' : sup'[s] = x
    BY <2>1
  <2> QED BY <2>1, <2>3, <2>4 DEF StreamsInv, Supervisor, GoodSupervisor, GoodTasks, Disjoint, Done
<1>2. CASE LoopCrashes BY <1>2, CancelStep DEF LoopCrashes, Main
<1>3. CASE CancelAllTasks
  <2>1. CASE main \in {"running", "unwinding"}
    <3>1. CancelTasks /\ main' = "unwinding" BY <1>3, <2>1 DEF CancelAllTasks
    <3> QED BY <3>1, CancelStep
  <2>2. CASE main \notin {"running", "unwinding"}
    <3>1. sup' = sup /\ position' = position /\ main # "spawned" /\ main # "built"
      BY <1>3, <2>2 DEF CancelAllTasks
    <3>2. \/ main \in {"wiring", "closing"} /\ main' = "dead"
          \/ main = "refresh" /\ main' = "closing"
          \/ main \notin {"wiring", "closing", "refresh"} /\ main' = "unwinding"
      BY <1>3 DEF CancelAllTasks
    <3> QED
      BY <3>1, <3>2
      DEF StreamsInv, Supervisor, GoodSupervisor, GoodTasks, Disjoint, Done, Quiet
  <2> QED BY <2>1, <2>2
<1>4. CASE RunEnds
  <2>1. /\ sup' = sup /\ position' = position /\ main' = "closing" /\ Quiet({"ended"})
    BY <1>4 DEF RunEnds, Main, Quiet
  <2> QED
    BY <2>1 DEF StreamsInv, Supervisor, GoodSupervisor, GoodTasks, Disjoint, Done, Quiet
<1>5. CASE \/ LoopCreated \/ Wired \/ WiringFails \/ RunBegins \/ FirstRefreshFails
           \/ StorageClosed
  <2>1. /\ sup' = sup /\ position' = position
        /\ \/ main \in {"spawned", "wiring", "built"} /\ main' \in {"wiring", "built", "refresh"}
           \/ main \in {"wiring", "refresh", "closing"} /\ main' \in {"dead", "closing"}
    BY <1>5 DEF LoopCreated, Wired, WiringFails, RunBegins, FirstRefreshFails, StorageClosed, Main
  <2> QED
    BY <2>1 DEF StreamsInv, Supervisor, GoodSupervisor, GoodTasks, Disjoint, Done, Quiet
<1> QED BY <1>1, <1>2, <1>3, <1>4, <1>5 DEF MainMoves, MainFails

\* Every step keeps the invariant.
LEMMA StreamsStep == ASSUME StreamsInv, [StreamsNext]_streamsVars PROVE StreamsInv'
<1>1. CASE \E s \in Supervisor : \/ Reconcile(s) \/ Recreate(s)
                                  \/ SupervisorStops(s) \/ SupervisorEnds(s)
  BY <1>1, SupervisorStep
<1>2. CASE \E s \in Supervisor : \E i \in Tasks(s) : Streaming(s, i) \/ Failing(s, i)
  BY <1>2, TaskStep
<1>3. CASE MainMoves \/ MainFails BY <1>3, MainStep
<1>4. CASE \/ PositionReads \/ PositionConnected \/ PositionStops \/ PositionCloses
           \/ PositionDisconnected \/ PositionRaises
  <2>1. sup' = sup /\ main' = main /\ position.at \notin {"none", "ended"}
    BY <1>4 DEF PositionReads, PositionConnected, PositionStops, PositionCloses,
                PositionDisconnected, PositionRaises, Position, threads
  <2> QED BY <2>1, OthersMove
<1>5. CASE RefreshCoins \/ ListingChanges \/ WhaleFound \/ Stops \/ UNCHANGED streamsVars
  <2>1. sup' = sup /\ main' = main /\ position' = position
    BY <1>5 DEF RefreshCoins, ListingChanges, WhaleFound, Stops, StopFlag, StopLooks, StopCancels,
                StopJoins, Stopper, threads, streamsVars
  <2> QED BY <2>1, OthersMove
<1> QED BY <1>1, <1>2, <1>3, <1>4, <1>5 DEF StreamsNext, Loops

\* The invariant holds in every reachable state.
LEMMA StreamsInvariant == StreamsSpec => []StreamsInv
<1>1. StreamsInit => StreamsInv
  <2> SUFFICES ASSUME StreamsInit PROVE StreamsInv OBVIOUS
  <2>1. PICK k \in {"trades", "ctx"} : sup = [t \in {k} |-> Unborn] BY DEF StreamsInit
  <2>2. GoodSupervisor(Unborn) /\ Unborn.at = "none"
    BY DEF Unborn, GoodSupervisor, GoodTasks, Disjoint, Done
  <2>3. Supervisor = {k} /\ \A s \in Supervisor : sup[s] = Unborn BY <2>1 DEF Supervisor
  <2> QED BY <2>1, <2>2, <2>3 DEF StreamsInit, StreamsInv, Quiet
<1> QED BY <1>1, StreamsStep, PTL DEF StreamsSpec

\* However the listing changes and connections fail, no coin is streamed twice by a
\* supervisor: for every number of coins and connections (orchestrator.py:383-418).
THEOREM CoinsAreStreamedOnce == StreamsSpec => []OneStreamPerCoin
<1>1. ASSUME StreamsInv PROVE OneStreamPerCoin
  BY <1>1 DEF StreamsInv, GoodSupervisor, GoodTasks, OneStreamPerCoin, Live
<1> QED BY <1>1, StreamsInvariant, PTL

\* The database is closed after the last stream task ended, by whatever way run()
\* ends and wherever a stop() catches it (orchestrator.py:154-161).
THEOREM DatabaseClosedLast == StreamsSpec => []StorageOutlivesTasks
<1>1. ASSUME StreamsInv PROVE StorageOutlivesTasks
  <2> SUFFICES ASSUME main \in {"closing", "dead"}
               PROVE  /\ \A s \in Supervisor : Live(s) = {} /\ sup[s].at \in {"none", "ended"}
                      /\ position.at \in {"none", "ended"}
    BY DEF StorageOutlivesTasks
  <2>1. Quiet({"none", "ended"}) BY <1>1 DEF StreamsInv
  <2>2. \A s \in Supervisor : Done(sup[s].tasks) BY <1>1, <2>1 DEF StreamsInv, GoodSupervisor, Quiet
  <2>3. \A s \in Supervisor : Live(s) = {} BY <2>2 DEF Live, Done
  <2> QED BY <2>1, <2>3 DEF Quiet
<1> QED BY <1>1, StreamsInvariant, PTL
================================================================================
