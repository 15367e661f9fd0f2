-------------------------- MODULE AlertPipelineProofs --------------------------
(***************************************************************************)
(* Proofs about the alert pipeline, for every number of loops that make    *)
(* engine calls, every number of fingerprints, and every ceiling and       *)
(* capacity of the cache.                                                  *)
(***************************************************************************)
EXTENDS AlertPipeline, DataLemmas

Alert == [fingerprint : Fingerprints, time : Nat]

AlertTypeOK ==
  /\ now \in Nat /\ dispatchTimes \in Seq(Nat) /\ table \in Seq(Alert)
  /\ engineLast \in [DOMAIN engineLast -> Nat]
  /\ pc \in [Callers -> {"idle", "analysing", "dispatching", "querying", "inserting", "sending"}]
  /\ callTime \in [Callers -> Nat] /\ pending \in [Callers -> Seq(Alert)]
  /\ \A c \in Callers : pc[c] \in {"querying", "inserting", "sending"} => pending[c] # << >>

(***************************************************************************)
(* The rate.                                                               *)
(***************************************************************************)
Inserting == {c \in Callers : pc[c] = "inserting"}

\* Every insert under way was counted against the ceiling before.
RateInv ==
  Cardinality(Dispatched) + Cardinality(Inserting) <= MaxPerWindow + Cardinality(Callers) - 1

\* The dispatches of a list that are not older than a time.
Fresh(s, time) == {i \in DOMAIN s : s[i] >= time}

\* Those dispatches are finitely many, not more than there are at all.
LEMMA FreshProperties ==
  ASSUME NEW s \in Seq(Nat), NEW time \in Int
  PROVE  /\ IsFiniteSet(Fresh(s, time)) /\ Cardinality(Fresh(s, time)) \in Nat
         /\ Cardinality(Fresh(s, time)) <= Len(s)
<1>1. DOMAIN s = 1..Len(s) /\ Len(s) \in Nat OBVIOUS
<1>2. IsFiniteSet(1..Len(s)) /\ Cardinality(1..Len(s)) = Len(s)
  <2>1. 1 \in Int /\ Len(s) \in Int BY <1>1
  <2>2. IsFiniteSet(1..Len(s)) /\ Cardinality(1..Len(s)) = IF 1 > Len(s) THEN 0 ELSE Len(s) - 1 + 1
    BY <2>1, FS_Interval
  <2> QED BY <1>1, <2>2
<1>3. Fresh(s, time) \subseteq 1..Len(s) BY <1>1 DEF Fresh
<1>4. /\ IsFiniteSet(Fresh(s, time))
      /\ Cardinality(Fresh(s, time)) <= Cardinality(1..Len(s))
  BY <1>2, <1>3, FS_Subset
<1>5. Cardinality(Fresh(s, time)) \in Nat BY <1>4, FS_CardinalityType
<1> QED BY <1>2, <1>4, <1>5

\* Pruning the deque drops no dispatch of the window.
LEMMA PrunedProperties ==
  ASSUME AlertTypeOK
  PROVE  /\ Pruned \in Seq(Nat) /\ Len(Pruned) \in Nat
         /\ Cardinality(Fresh(Pruned, now - Window)) <= Cardinality(Dispatched)
<1>1. /\ dispatchTimes \in Seq(Nat) /\ now - Window \in Int
      /\ DOMAIN dispatchTimes = 1..Len(dispatchTimes) /\ Len(dispatchTimes) \in Nat
  BY AlertAssumption DEF AlertTypeOK, AlertAssumption
<1> DEFINE from == Min(Dispatched \cup {Len(dispatchTimes) + 1})
<1>2. from \in 1..(Len(dispatchTimes) + 1)
  <2>1. Dispatched \cup {Len(dispatchTimes) + 1} \in SUBSET Nat BY <1>1 DEF Dispatched
  <2>2. from \in Dispatched \cup {Len(dispatchTimes) + 1} BY <2>1, MinProperties
  <2>3. Dispatched \subseteq 1..Len(dispatchTimes) BY <1>1 DEF Dispatched
  <2> HIDE DEF from
  <2> QED BY <1>1, <2>2, <2>3
<1>3. Pruned = SubSeq(dispatchTimes, from, Len(dispatchTimes)) BY DEF Pruned
<1> HIDE DEF from
<1>4. /\ Pruned \in Seq(Nat) /\ Len(Pruned) = Len(dispatchTimes) - from + 1
      /\ \A i \in 1..Len(Pruned) : Pruned[i] = dispatchTimes[from + i - 1]
      /\ DOMAIN Pruned = 1..Len(Pruned)
  BY <1>1, <1>2, <1>3
<1> DEFINE f == [i \in Fresh(Pruned, now - Window) |-> from + i - 1]
<1>5. f \in [Fresh(Pruned, now - Window) -> Dispatched]
  <2> SUFFICES ASSUME NEW i \in Fresh(Pruned, now - Window) PROVE from + i - 1 \in Dispatched
    OBVIOUS
  <2>1. i \in 1..Len(Pruned) /\ Pruned[i] >= now - Window BY <1>4 DEF Fresh
  <2>2. from + i - 1 \in 1..Len(dispatchTimes) BY <1>1, <1>2, <1>4, <2>1
  <2> QED BY <1>1, <1>4, <2>1, <2>2 DEF Dispatched
<1>6. ASSUME NEW i \in Fresh(Pruned, now - Window), NEW j \in Fresh(Pruned, now - Window),
             f[i] = f[j]
      PROVE  i = j
  <2>1. i \in Nat /\ j \in Nat BY <1>4 DEF Fresh
  <2> QED BY <1>2, <1>6, <2>1
<1>7. IsFiniteSet(Dispatched)
  <2>1. Dispatched = Fresh(dispatchTimes, now - Window) BY DEF Dispatched, Fresh
  <2> QED BY <1>1, <2>1, FreshProperties
<1> HIDE DEF f
<1>8. f \in Injection(Fresh(Pruned, now - Window), Dispatched)
  BY <1>5, <1>6 DEF Injection, IsInjective
<1>9. Cardinality(Fresh(Pruned, now - Window)) <= Cardinality(Dispatched)
  BY <1>7, <1>8, FS_Injection
<1> QED BY <1>1, <1>2, <1>4, <1>9

\* One caller moves, and its alerts with it.
LEMMA CallerTyped ==
  ASSUME AlertTypeOK, NEW c \in Callers, NEW at, NEW alerts \in Seq(Alert),
         at \in {"idle", "analysing", "dispatching", "querying", "inserting", "sending"},
         at \in {"querying", "inserting", "sending"} => alerts # << >>,
         pc' = [pc EXCEPT ![c] = at], pending' = [pending EXCEPT ![c] = alerts],
         now' \in Nat, dispatchTimes' \in Seq(Nat), table' \in Seq(Alert),
         engineLast' \in [DOMAIN engineLast' -> Nat], callTime' \in [Callers -> Nat]
  PROVE  AlertTypeOK'
<1>1. /\ pc' \in [Callers -> {"idle", "analysing", "dispatching", "querying", "inserting", "sending"}]
      /\ pending' \in [Callers -> Seq(Alert)]
  BY DEF AlertTypeOK
<1>2. ASSUME NEW d \in Callers, pc'[d] \in {"querying", "inserting", "sending"}
      PROVE  pending'[d] # << >>
  <2>1. CASE d = c BY <1>2, <2>1 DEF AlertTypeOK
  <2>2. CASE d # c
    <3>1. pc'[d] = pc[d] /\ pending'[d] = pending[d] BY <2>2 DEF AlertTypeOK
    <3> QED BY <1>2, <3>1 DEF AlertTypeOK
  <2> QED BY <2>1, <2>2
<1> QED BY <1>1, <1>2 DEF AlertTypeOK

\* A caller that is through with its alert goes on to the next one.
LEMMA TailTyped ==
  ASSUME AlertTypeOK, NEW c \in Callers, pending[c] # << >>
  PROVE  /\ Tail(pending[c]) \in Seq(Alert) /\ Current(c) \in Alert
         /\ pending[c] \in Seq(Alert) /\ 1 \in DOMAIN pending[c]
         /\ Current(c) = pending[c][1]
         /\ DOMAIN Tail(pending[c]) = 1..(Len(pending[c]) - 1)
         /\ \A k \in DOMAIN Tail(pending[c]) :
              k + 1 \in DOMAIN pending[c] /\ Tail(pending[c])[k] = pending[c][k + 1]
<1>1. pending[c] \in Seq(Alert) BY DEF AlertTypeOK
<1> QED BY <1>1 DEF Current

\* What the throttle does to the deque and the caller.
Throttled(c) ==
  /\ pending' = [pending EXCEPT ![c] = Tail(pending[c])]
  /\ pc' = [pc EXCEPT ![c] = "dispatching"]

LetGo(c) ==
  /\ pending' = pending /\ Len(Pruned) < MaxPerWindow
  /\ pc' = [pc EXCEPT ![c] = "inserting"]

\* The throttle drops the alert, or lets it go while the window has room.
LEMMA ThrottleCases ==
  ASSUME AlertTypeOK, NEW c \in Callers, Throttle(c)
  PROVE  dispatchTimes' = Pruned /\ (Throttled(c) \/ LetGo(c))
<1>1. Len(Pruned) \in Nat /\ MaxPerWindow \in Nat
  BY PrunedProperties, AlertAssumption DEF AlertAssumption
<1> QED BY <1>1 DEF Throttle, NextAlert, Throttled, LetGo

\* The checks of an alert end in one of these ways.
LEMMA CheckCases ==
  ASSUME AlertTypeOK, NEW c \in Callers, CheckMemory(c) \/ CheckStorage(c)
  PROVE  /\ UNCHANGED <<now, engineLast, callTime, table>> /\ pending[c] # << >>
         /\ pc[c] \in {"dispatching", "querying"}
         /\ \/ Throttled(c) /\ dispatchTimes' \in {dispatchTimes, Pruned}
            \/ LetGo(c) /\ dispatchTimes' = Pruned
            \/ /\ pending' = pending /\ pc' = [pc EXCEPT ![c] = "querying"]
               /\ dispatchTimes' = dispatchTimes
<1>1. CASE CheckMemory(c)
  BY <1>1, ThrottleCases DEF CheckMemory, NextAlert, Throttled, engineVars
<1>2. CASE CheckStorage(c)
  <2>1. pending[c] # << >> BY <1>2 DEF CheckStorage, AlertTypeOK
  <2>2. Throttle(c) \/ (NextAlert(c) /\ dispatchTimes' = dispatchTimes)
    BY <1>2 DEF CheckStorage
  <2> QED BY <1>2, <2>1, <2>2, ThrottleCases DEF CheckStorage, NextAlert, Throttled, engineVars
<1> QED BY <1>1, <1>2

\* An alert is raised: the types are kept.
LEMMA RaiseTyped ==
  ASSUME AlertTypeOK, NEW c \in Callers, NEW f \in Fingerprints, RaiseAlert(c, f)
  PROVE  AlertTypeOK'
<1> DEFINE a == [fingerprint |-> f, time |-> callTime[c]]
           alerts == Append(pending[c], a)
<1>1. /\ engineLast' = Put(engineLast, f, callTime[c]) /\ pc[c] = "analysing"
      /\ pending' = [pending EXCEPT ![c] = alerts]
      /\ UNCHANGED <<now, callTime, dispatchTimes, table, pc>>
  BY DEF RaiseAlert, memoryVars
<1>2. callTime[c] \in Nat /\ pending[c] \in Seq(Alert) BY DEF AlertTypeOK
<1>3. alerts \in Seq(Alert) BY <1>2 DEF Alert
<1>4. engineLast' \in [DOMAIN engineLast' -> Nat]
  <2>1. /\ DOMAIN engineLast' = {f} \cup DOMAIN engineLast /\ engineLast'[f] \in Nat
        /\ \A g \in DOMAIN engineLast : g # f => engineLast'[g] = engineLast[g]
    BY <1>1, <1>2 DEF Put
  <2>2. engineLast' = [g \in DOMAIN engineLast' |-> engineLast'[g]] BY <1>1 DEF Put
  <2>3. \A g \in DOMAIN engineLast' : engineLast'[g] \in Nat BY <2>1 DEF AlertTypeOK
  <2> QED BY <2>2, <2>3
<1>5. pc' = [pc EXCEPT ![c] = "analysing"] BY <1>1 DEF AlertTypeOK
<1> HIDE DEF alerts
<1> QED BY <1>1, <1>3, <1>4, <1>5, CallerTyped DEF AlertTypeOK

\* An insert, a delivery, a failure: the types are kept.
LEMMA InsertTyped ==
  ASSUME AlertTypeOK, NEW c \in Callers, InsertDone(c) \/ Send(c) \/ Fail(c)
  PROVE  AlertTypeOK'
<1>1. CASE InsertDone(c)
  <2>1. /\ pc[c] = "inserting" /\ pc' = [pc EXCEPT ![c] = "sending"]
        /\ table' = Append(table, Current(c)) /\ dispatchTimes' = Append(dispatchTimes, now)
        /\ UNCHANGED <<now, engineLast, callTime, pending>>
    BY <1>1 DEF InsertDone, InsertTurn, engineVars
  <2>2. pending[c] # << >> /\ pending[c] \in Seq(Alert) BY <2>1 DEF AlertTypeOK
  <2>3. table' \in Seq(Alert) /\ dispatchTimes' \in Seq(Nat)
    <3>1. Current(c) \in Alert BY <2>2, TailTyped
    <3> QED BY <2>1, <3>1 DEF AlertTypeOK
  <2>4. pending' = [pending EXCEPT ![c] = pending[c]] BY <2>1 DEF AlertTypeOK
  <2> QED BY <2>1, <2>2, <2>3, <2>4, CallerTyped DEF AlertTypeOK
<1>2. CASE Send(c)
  <2>1. /\ pc[c] = "sending" /\ pc' = [pc EXCEPT ![c] = "dispatching"]
        /\ pending' = [pending EXCEPT ![c] = Tail(pending[c])]
        /\ UNCHANGED <<now, engineLast, callTime, table, dispatchTimes>>
    BY <1>2 DEF Send, NextAlert, engineVars, memoryVars
  <2>2. pending[c] # << >> BY <2>1 DEF AlertTypeOK
  <2>3. Tail(pending[c]) \in Seq(Alert) BY <2>2, TailTyped
  <2> QED BY <2>1, <2>3, CallerTyped DEF AlertTypeOK
<1>3. CASE Fail(c)
  <2>1. /\ pc' = [pc EXCEPT ![c] = "idle"] /\ pending' = [pending EXCEPT ![c] = << >>]
        /\ UNCHANGED <<now, engineLast, callTime, dispatchTimes>>
        /\ \/ table' = table
           \/ pc[c] = "inserting" /\ table' = Append(table, Current(c))
    BY <1>3 DEF Fail, InsertTurn, engineVars, memoryVars
  <2>2. table' \in Seq(Alert)
    <3>1. CASE table' = table BY <3>1 DEF AlertTypeOK
    <3>2. CASE pc[c] = "inserting" /\ table' = Append(table, Current(c))
      <4>1. pending[c] # << >> BY <3>2 DEF AlertTypeOK
      <4>2. Current(c) \in Alert BY <4>1, TailTyped
      <4> QED BY <3>2, <4>2 DEF AlertTypeOK
    <3> QED BY <2>1, <3>1, <3>2
  <2>3. << >> \in Seq(Alert) OBVIOUS
  <2> QED BY <2>1, <2>2, <2>3, CallerTyped DEF AlertTypeOK
<1> QED BY <1>1, <1>2, <1>3

\* The checks keep the types.
LEMMA CheckTyped ==
  ASSUME AlertTypeOK, NEW c \in Callers, CheckMemory(c) \/ CheckStorage(c)
  PROVE  AlertTypeOK'
<1>1. /\ UNCHANGED <<now, engineLast, callTime, table>> /\ pending[c] # << >>
      /\ \/ Throttled(c) /\ dispatchTimes' \in {dispatchTimes, Pruned}
         \/ LetGo(c) /\ dispatchTimes' = Pruned
         \/ /\ pending' = pending /\ pc' = [pc EXCEPT ![c] = "querying"]
            /\ dispatchTimes' = dispatchTimes
  BY CheckCases
<1>2. dispatchTimes' \in Seq(Nat) BY <1>1, PrunedProperties DEF AlertTypeOK
<1>3. PICK alerts : /\ alerts \in {pending[c], Tail(pending[c])}
                    /\ pending' = [pending EXCEPT ![c] = alerts]
                    /\ \/ alerts = Tail(pending[c]) /\ pc' = [pc EXCEPT ![c] = "dispatching"]
                       \/ alerts = pending[c] /\ pc' = [pc EXCEPT ![c] = "inserting"]
                       \/ alerts = pending[c] /\ pc' = [pc EXCEPT ![c] = "querying"]
  <2>1. pending = [pending EXCEPT ![c] = pending[c]] BY DEF AlertTypeOK
  <2> QED BY <1>1, <2>1 DEF Throttled, LetGo
<1>4. alerts \in Seq(Alert) BY <1>1, <1>3, TailTyped
<1>5. PICK at \in {"dispatching", "inserting", "querying"} :
        pc' = [pc EXCEPT ![c] = at] /\ (at # "dispatching" => alerts # << >>)
  BY <1>1, <1>3
<1> QED BY <1>1, <1>2, <1>3, <1>4, <1>5, CallerTyped DEF AlertTypeOK

\* Every step keeps the types.
LEMMA TypeStep == ASSUME AlertTypeOK, [Next]_vars PROVE AlertTypeOK'
<1>1. ASSUME NEW c \in Callers, StartCall(c) \/ FinishCall(c) \/ EndDispatch(c)
      PROVE  AlertTypeOK'
  <2>1. /\ UNCHANGED <<now, engineLast, dispatchTimes, table, pending>>
        /\ callTime' = callTime \/ callTime' = [callTime EXCEPT ![c] = now]
        /\ \E at \in {"analysing", "dispatching", "idle"} : pc' = [pc EXCEPT ![c] = at]
    BY <1>1 DEF StartCall, FinishCall, EndDispatch, memoryVars, engineVars
  <2>2. callTime' \in [Callers -> Nat] BY <2>1 DEF AlertTypeOK
  <2>3. pending' = [pending EXCEPT ![c] = pending[c]] /\ pending[c] \in Seq(Alert)
    BY <2>1 DEF AlertTypeOK
  <2> QED BY <2>1, <2>2, <2>3, CallerTyped DEF AlertTypeOK
<1>2. CASE ClockTick
  BY <1>2 DEF ClockTick, AlertTypeOK, engineVars, memoryVars
<1>3. CASE Restart
  <2>1. /\ pc' = [c \in Callers |-> "idle"] /\ callTime' = [c \in Callers |-> 0]
        /\ pending' = [c \in Callers |-> << >>] /\ engineLast' = EmptyDict
        /\ dispatchTimes' = << >> /\ UNCHANGED <<now, table>>
    BY <1>3 DEF Restart
  <2>2. << >> \in Seq(Alert) /\ << >> \in Seq(Nat) OBVIOUS
  <2>3. pending' \in [Callers -> Seq(Alert)] BY <2>1, <2>2
  <2> QED BY <2>1, <2>2, <2>3 DEF AlertTypeOK, EmptyDict
<1>4. CASE UNCHANGED vars
  BY <1>4 DEF vars, engineVars, memoryVars, AlertTypeOK
<1> QED BY <1>1, <1>2, <1>3, <1>4, RaiseTyped, CheckTyped, InsertTyped DEF Next

\* The types at the start.
LEMMA InitTyped == Init => AlertTypeOK
<1> SUFFICES ASSUME Init PROVE AlertTypeOK OBVIOUS
<1>1. << >> \in Seq(Alert) /\ << >> \in Seq(Nat) OBVIOUS
<1> QED BY <1>1 DEF Init, AlertTypeOK, EmptyDict

\* The sets that are counted are finite.
LEMMA RateFinite ==
  ASSUME AlertTypeOK
  PROVE  /\ Dispatched = Fresh(dispatchTimes, now - Window)
         /\ IsFiniteSet(Dispatched) /\ Cardinality(Dispatched) \in Nat
         /\ IsFiniteSet(Inserting) /\ Cardinality(Inserting) \in Nat
         /\ Cardinality(Inserting) <= Cardinality(Callers)
         /\ Cardinality(Callers) \in Nat /\ MaxPerWindow \in Nat /\ MaxPerWindow >= 1
<1>1. /\ IsFiniteSet(Callers) /\ Window \in Nat /\ MaxPerWindow \in Nat /\ MaxPerWindow >= 1
  BY AlertAssumption DEF AlertAssumption
<1>2. dispatchTimes \in Seq(Nat) /\ now - Window \in Int BY <1>1 DEF AlertTypeOK
<1>3. Dispatched = Fresh(dispatchTimes, now - Window) BY DEF Dispatched, Fresh
<1>4. Inserting \subseteq Callers BY DEF Inserting
<1>5. /\ IsFiniteSet(Inserting) /\ Cardinality(Inserting) \in Nat
      /\ Cardinality(Inserting) <= Cardinality(Callers) /\ Cardinality(Callers) \in Nat
  BY <1>1, <1>4, FS_Subset, FS_CardinalityType
<1> QED BY <1>1, <1>2, <1>3, <1>5, FreshProperties

\* A step after which no dispatch is more recent and nobody more inserts.
LEMMA RateKept ==
  ASSUME AlertTypeOK, AlertTypeOK', RateInv, Inserting' \subseteq Inserting,
         Cardinality(Dispatched') <= Cardinality(Dispatched)
  PROVE  RateInv'
<1>1. /\ Cardinality(Dispatched) \in Nat /\ Cardinality(Inserting) \in Nat
      /\ IsFiniteSet(Inserting) /\ Cardinality(Callers) \in Nat /\ MaxPerWindow \in Nat
  BY RateFinite
<1>2. Cardinality(Dispatched') \in Nat
  <2>1. IsFiniteSet(Dispatched')
    <3>1. (dispatchTimes' \in Seq(Nat)) /\ (now' - Window \in Int)
      BY AlertAssumption DEF AlertTypeOK, AlertAssumption
    <3>2. Dispatched' = Fresh(dispatchTimes', now' - Window) BY DEF Dispatched, Fresh
    <3> QED BY <3>1, <3>2, FreshProperties
  <2> QED BY <2>1, FS_CardinalityType
<1>3. Cardinality(Inserting') \in Nat /\ Cardinality(Inserting') <= Cardinality(Inserting)
  BY <1>1, FS_Subset, FS_CardinalityType
<1> QED BY <1>1, <1>2, <1>3 DEF RateInv

\* The deque stays as it is, or loses what is older than the window.
LEMMA DequeKept ==
  ASSUME AlertTypeOK, AlertTypeOK', dispatchTimes' \in {dispatchTimes, Pruned}, now' >= now,
         dispatchTimes' # dispatchTimes => now' = now
  PROVE  Cardinality(Dispatched') <= Cardinality(Dispatched)
<1>1. CASE dispatchTimes' = dispatchTimes
  <2>1. Dispatched' \subseteq Dispatched
    BY <1>1, AlertAssumption DEF Dispatched, AlertTypeOK, AlertAssumption
  <2>2. IsFiniteSet(Dispatched) BY RateFinite
  <2> QED BY <2>1, <2>2, FS_Subset
<1>2. CASE dispatchTimes' # dispatchTimes
  <2>1. dispatchTimes' = Pruned /\ now' = now BY <1>2
  <2>2. Dispatched' = Fresh(Pruned, now - Window) BY <2>1 DEF Dispatched, Fresh
  <2> QED BY <2>2, PrunedProperties
<1> QED BY <1>1, <1>2

\* Every step keeps the bound: an insert moves its caller's place to the deque.
LEMMA RateStep ==
  ASSUME AlertTypeOK, AlertTypeOK', RateInv, [Next]_vars
  PROVE  RateInv'
<1> DEFINE safe == /\ dispatchTimes' \in {dispatchTimes, Pruned} /\ now' >= now
                   /\ dispatchTimes' # dispatchTimes => now' = now
                   /\ Inserting' \subseteq Inserting
<1>1. now \in Nat /\ pc \in [Callers -> {"idle", "analysing", "dispatching", "querying",
                                         "inserting", "sending"}]
  BY DEF AlertTypeOK
<1>2. safe => RateInv' BY RateKept, DequeKept
<1>3. ASSUME NEW c \in Callers,
             \/ StartCall(c) \/ FinishCall(c) \/ EndDispatch(c) \/ Send(c) \/ Fail(c)
             \/ \E f \in Fingerprints : RaiseAlert(c, f)
      PROVE  RateInv'
  <2>1. now' = now /\ dispatchTimes' = dispatchTimes
    BY <1>3 DEF StartCall, FinishCall, EndDispatch, Send, NextAlert, Fail, RaiseAlert, memoryVars
  <2>2. pc' = pc \/ \E at \in {"analysing", "dispatching", "idle"} : pc' = [pc EXCEPT ![c] = at]
    BY <1>3 DEF StartCall, FinishCall, EndDispatch, Send, NextAlert, Fail, RaiseAlert
  <2>3. Inserting' \subseteq Inserting BY <1>1, <2>2 DEF Inserting
  <2> QED BY <1>1, <1>2, <2>1, <2>3
<1>4. ASSUME NEW c \in Callers, CheckMemory(c) \/ CheckStorage(c) PROVE RateInv'
  <2>1. /\ now' = now /\ pc[c] \in {"dispatching", "querying"}
        /\ \/ Throttled(c) /\ dispatchTimes' \in {dispatchTimes, Pruned}
           \/ LetGo(c) /\ dispatchTimes' = Pruned
           \/ /\ pending' = pending /\ pc' = [pc EXCEPT ![c] = "querying"]
              /\ dispatchTimes' = dispatchTimes
    BY <1>4, CheckCases
  <2>2. CASE LetGo(c) /\ dispatchTimes' = Pruned
    <3>1. Len(Pruned) \in Nat /\ Len(Pruned) < MaxPerWindow /\ Pruned \in Seq(Nat)
      BY <2>2, PrunedProperties DEF LetGo
    <3>2. Dispatched' = Fresh(Pruned, now - Window) BY <2>1, <2>2 DEF Dispatched, Fresh
    <3>3. now - Window \in Int BY <1>1, AlertAssumption DEF AlertAssumption
    <3>4. Cardinality(Dispatched') \in Nat /\ Cardinality(Dispatched') <= Len(Pruned)
      BY <3>1, <3>2, <3>3, FreshProperties
    <3>5. /\ Cardinality(Inserting') \in Nat /\ Cardinality(Inserting') <= Cardinality(Callers)
          /\ Cardinality(Callers) \in Nat /\ MaxPerWindow \in Nat
      <4>1. Inserting' \subseteq Callers /\ IsFiniteSet(Callers)
        BY AlertAssumption DEF Inserting, AlertAssumption
      <4> QED BY <4>1, RateFinite, FS_Subset, FS_CardinalityType
    <3> QED BY <3>1, <3>4, <3>5 DEF RateInv
  <2>3. CASE ~(LetGo(c) /\ dispatchTimes' = Pruned)
    <3>1. /\ dispatchTimes' \in {dispatchTimes, Pruned}
          /\ \E at \in {"dispatching", "querying"} : pc' = [pc EXCEPT ![c] = at]
      BY <2>1, <2>3 DEF Throttled
    <3>2. Inserting' \subseteq Inserting BY <1>1, <3>1 DEF Inserting
    <3>3. now' >= now /\ now' = now BY <1>1, <2>1
    <3> QED BY <1>2, <3>1, <3>2, <3>3
  <2> QED BY <2>1, <2>2, <2>3
<1>5. ASSUME NEW c \in Callers, InsertDone(c) PROVE RateInv'
  <2>1. /\ pc[c] = "inserting" /\ pc' = [pc EXCEPT ![c] = "sending"] /\ now' = now
        /\ dispatchTimes' = Append(dispatchTimes, now)
    BY <1>5 DEF InsertDone, InsertTurn
  <2>2. c \in Inserting /\ Inserting' = Inserting \ {c} BY <1>1, <2>1 DEF Inserting
  <2>3. Dispatched' \subseteq Dispatched \cup {Len(dispatchTimes) + 1}
    <3>1. dispatchTimes \in Seq(Nat) /\ now \in Nat BY DEF AlertTypeOK
    <3>2. /\ DOMAIN Append(dispatchTimes, now) = 1..(Len(dispatchTimes) + 1)
          /\ \A i \in 1..Len(dispatchTimes) : Append(dispatchTimes, now)[i] = dispatchTimes[i]
          /\ DOMAIN dispatchTimes = 1..Len(dispatchTimes)
      BY <3>1
    <3> QED BY <2>1, <3>1, <3>2 DEF Dispatched
  <2>4. /\ IsFiniteSet(Dispatched) /\ Cardinality(Dispatched) \in Nat
        /\ IsFiniteSet(Inserting) /\ Cardinality(Inserting) \in Nat
        /\ Cardinality(Callers) \in Nat /\ MaxPerWindow \in Nat
    BY RateFinite
  <2>5. Cardinality(Inserting') = Cardinality(Inserting) - 1
    BY <2>2, <2>4, FS_RemoveElement
  <2> DEFINE more == Dispatched \cup {Len(dispatchTimes) + 1}
  <2>6. IsFiniteSet(more) /\ Cardinality(more) \in Nat /\ Cardinality(more) <= Cardinality(Dispatched) + 1
    BY <2>4, FS_AddElement, FS_CardinalityType
  <2> HIDE DEF more
  <2>7. Cardinality(Dispatched') \in Nat /\ Cardinality(Dispatched') <= Cardinality(more)
    <3>1. Dispatched' \subseteq more BY <2>3 DEF more
    <3> QED BY <2>6, <3>1, FS_Subset, FS_CardinalityType
  <2> QED BY <2>4, <2>5, <2>6, <2>7 DEF RateInv
<1>6. CASE ClockTick
  BY <1>1, <1>2, <1>6 DEF ClockTick, memoryVars, Inserting
<1>7. CASE Restart
  <2>1. Dispatched' = {} /\ Inserting' = {} BY <1>7 DEF Restart, Dispatched, Inserting
  <2>2. Cardinality({}) = 0 BY FS_EmptySet
  <2>3. Cardinality(Callers) \in Nat /\ MaxPerWindow \in Nat /\ MaxPerWindow >= 1 BY RateFinite
  <2> QED BY <2>1, <2>2, <2>3 DEF RateInv
<1>8. CASE UNCHANGED vars BY <1>1, <1>2, <1>8 DEF vars, memoryVars, Inserting
<1> QED BY <1>3, <1>4, <1>5, <1>6, <1>7, <1>8 DEF Next

\* The types and the bound hold in every reachable state.
LEMMA RateInvariant == Spec => [](AlertTypeOK /\ RateInv)
<1>1. Init => AlertTypeOK /\ RateInv
  <2> SUFFICES ASSUME Init PROVE AlertTypeOK /\ RateInv OBVIOUS
  <2>1. AlertTypeOK BY InitTyped
  <2>2. Dispatched = {} /\ Inserting = {} BY DEF Init, Dispatched, Inserting
  <2>3. Cardinality({}) = 0 BY FS_EmptySet
  <2>4. Cardinality(Callers) \in Nat /\ MaxPerWindow \in Nat /\ MaxPerWindow >= 1
    BY <2>1, RateFinite
  <2> QED BY <2>1, <2>2, <2>3, <2>4 DEF RateInv
<1>2. AlertTypeOK /\ RateInv /\ [Next]_vars => (AlertTypeOK /\ RateInv)'
  BY TypeStep, RateStep
<1> QED BY <1>1, <1>2, PTL DEF Spec

\* However many loops dispatch at once, the alerts stored within any window exceed the
\* ceiling by at most one for each of the other loops (manager.py:66-83, 161-174).
THEOREM RateIsBounded == Spec => []RateBound
<1>1. ASSUME AlertTypeOK, RateInv PROVE RateBound
  <2>1. /\ Cardinality(Dispatched) \in Nat /\ Cardinality(Inserting) \in Nat
        /\ Cardinality(Callers) \in Nat /\ MaxPerWindow \in Nat
    BY <1>1, RateFinite
  <2> QED BY <1>1, <2>1 DEF RateInv, RateBound
<1> QED BY <1>1, RateInvariant, PTL

(***************************************************************************)
(* The cooldown.                                                           *)
(***************************************************************************)
\* A call is not older than the lag, and has alerts only while it lasts.
Timely ==
  \A c \in Callers :
    /\ pc[c] = "idle" => pending[c] = << >>
    /\ pc[c] # "idle" => callTime[c] <= now /\ now <= callTime[c] + MaxLag

\* An alert under way is the last one its engine recorded for the key.
Raised ==
  \A c \in Callers : \A k \in DOMAIN pending[c] :
    LET a == pending[c][k]
    IN  /\ a.time = callTime[c] /\ a.fingerprint \in DOMAIN engineLast
        /\ engineLast[a.fingerprint] = a.time

\* A key has one alert under way.
Alone ==
  \A c, d \in Callers : \A k \in DOMAIN pending[c], l \in DOMAIN pending[d] :
    pending[c][k].fingerprint = pending[d][l].fingerprint => c = d /\ k = l

\* What is stored is older than what the engines recorded since the start, and for
\* the other keys older than the calls, which all began after the start.
Older ==
  \A i \in DOMAIN table :
    /\ table[i].time <= now
    /\ IF table[i].fingerprint \in DOMAIN engineLast
       THEN table[i].time <= engineLast[table[i].fingerprint]
       ELSE \A c \in Callers : pc[c] # "idle" => table[i].time <= callTime[c]

\* What the manager remembers was raised since the start.
Known == DOMAIN cache \cup checked \subseteq DOMAIN engineLast

\* An alert may be stored in a table, whose rows it overlooked apart.
Clear(rows, lost, a) ==
  \A i \in DOMAIN rows :
    rows[i].fingerprint = a.fingerprint /\ i \notin lost => a.time - rows[i].time >= Cooldown

\* An alert that is not known to be clear is unknown to the manager, and was not let
\* go to the insert.
Tested ==
  \A c \in Callers : \A k \in DOMAIN pending[c] :
    \/ k = 1 /\ pc[c] = "sending"
    \/ Clear(table, overlooked, pending[c][k])
    \/ /\ pending[c][k].fingerprint \notin DOMAIN cache \cup checked
       /\ ~ (k = 1 /\ pc[c] = "inserting")

AlertInv ==
  /\ AlertTypeOK /\ Timely /\ Raised /\ Alone /\ Older /\ Known /\ Tested /\ CooldownHolds

\* An engine call, with its dispatch, is over before the cooldown of its alerts.
LagBelowCooldown == MaxLag < Cooldown

\* The invariant, spelled out for the alerts under way and the rows of the table.
LEMMA AlertParts ==
  ASSUME AlertInv, NEW c \in Callers
  PROVE  /\ now \in Nat /\ Cooldown \in Nat /\ MaxLag \in Nat /\ callTime[c] \in Nat
         /\ pending[c] \in Seq(Alert) /\ table \in Seq(Alert)
         /\ \A k \in DOMAIN pending[c] :
              /\ pending[c][k] \in Alert /\ pending[c][k].time = callTime[c]
              /\ pending[c][k].time \in Nat /\ pending[c][k].fingerprint \in Fingerprints
              /\ callTime[c] <= now /\ now <= callTime[c] + MaxLag
         /\ \A i \in DOMAIN table :
              /\ table[i] \in Alert /\ table[i].time \in Nat
              /\ table[i].fingerprint \in Fingerprints /\ table[i].time <= now
<1>1. AlertTypeOK /\ Timely /\ Raised /\ Older BY DEF AlertInv
<1>2. /\ now \in Nat /\ Cooldown \in Nat /\ MaxLag \in Nat /\ callTime[c] \in Nat
      /\ pending[c] \in Seq(Alert) /\ table \in Seq(Alert)
  BY <1>1, AlertAssumption DEF AlertTypeOK, AlertAssumption
<1>3. ASSUME NEW k \in DOMAIN pending[c]
      PROVE  /\ pending[c][k] \in Alert /\ pending[c][k].time = callTime[c]
             /\ pending[c][k].time \in Nat /\ pending[c][k].fingerprint \in Fingerprints
             /\ callTime[c] <= now /\ now <= callTime[c] + MaxLag
  <2>1. pending[c][k] \in Alert BY <1>2
  <2>2. pc[c] # "idle" BY <1>1 DEF Timely
  <2> QED BY <1>1, <2>1, <2>2 DEF Alert, Raised, Timely
<1>4. ASSUME NEW i \in DOMAIN table
      PROVE  /\ table[i] \in Alert /\ table[i].time \in Nat
             /\ table[i].fingerprint \in Fingerprints /\ table[i].time <= now
  <2>1. table[i] \in Alert BY <1>2
  <2> QED BY <1>1, <2>1 DEF Alert, Older
<1> QED BY <1>2, <1>3, <1>4

\* An answer without a row of the alert's fingerprint is cut at the limit, or there is
\* no such row within the cooldown.
LEMMA AnswerShowsRows ==
  ASSUME AlertInv, NEW c \in Callers, pending[c] # << >>,
         NEW recent \in Recent(Current(c)), Cardinality(recent) < QueryLimit
  PROVE  recent = Rows(Current(c))
<1> DEFINE R == Rows(Current(c))
<1>1. recent \in SUBSET R /\ Cardinality(recent) = Min({QueryLimit, Cardinality(R)})
  BY DEF Recent
<1>2. IsFiniteSet(R) /\ Cardinality(R) \in Nat
  <2>1. table \in Seq(Alert) BY DEF AlertInv, AlertTypeOK
  <2>2. DOMAIN table = 1..Len(table) /\ Len(table) \in Nat BY <2>1
  <2>3. IsFiniteSet(1..Len(table)) BY <2>2, FS_Interval
  <2>4. R \subseteq 1..Len(table) BY <2>2 DEF Rows
  <2> QED BY <2>3, <2>4, FS_Subset, FS_CardinalityType
<1> HIDE DEF R
<1>3. Cardinality(recent) = Cardinality(R)
  <2> DEFINE two == {QueryLimit, Cardinality(R)}
  <2>1. QueryLimit \in Nat BY AlertAssumption DEF AlertAssumption
  <2>2. two \in SUBSET Nat /\ two # {} BY <1>2, <2>1
  <2>3. Min(two) \in two /\ \A n \in two : Min(two) <= n BY <2>2, MinProperties
  <2> QED BY <1>1, <1>2, <2>1, <2>3
<1>4. recent = R BY <1>1, <1>2, <1>3, FS_Subset
<1> QED BY <1>4 DEF R

\* A caller is through with its first alert and goes on; what is remembered in
\* between is of that alert.
LEMMA GoesOn ==
  ASSUME AlertInv, AlertTypeOK', NEW c \in Callers, pending[c] # << >>, Throttled(c),
         UNCHANGED <<now, engineLast, callTime, table>>, overlooked \subseteq overlooked',
         DOMAIN cache' \cup checked' \subseteq DOMAIN cache \cup checked \cup {Current(c).fingerprint}
  PROVE  AlertInv'
<1>1. /\ AlertTypeOK /\ Timely /\ Raised /\ Alone /\ Older /\ Known /\ Tested /\ CooldownHolds
  BY DEF AlertInv
<1>2. /\ Current(c) = pending[c][1] /\ 1 \in DOMAIN pending[c]
      /\ \A k \in DOMAIN Tail(pending[c]) :
           k + 1 \in DOMAIN pending[c] /\ Tail(pending[c])[k] = pending[c][k + 1] /\ k + 1 # 1
  <2>1. DOMAIN Tail(pending[c]) = 1..(Len(pending[c]) - 1) /\ Len(pending[c]) \in Nat
    BY <1>1, TailTyped DEF AlertTypeOK
  <2>2. \A k \in DOMAIN Tail(pending[c]) : k + 1 # 1 BY <2>1
  <2> QED BY <1>1, <2>2, TailTyped
<1>3. /\ pending' = [pending EXCEPT ![c] = Tail(pending[c])] /\ pc' = [pc EXCEPT ![c] = "dispatching"]
      /\ DOMAIN pc = Callers /\ DOMAIN pending = Callers
  BY <1>1 DEF Throttled, AlertTypeOK
<1>4. /\ pending'[c] = Tail(pending[c]) /\ pc'[c] = "dispatching"
      /\ \A d \in Callers : d # c => pending'[d] = pending[d] /\ pc'[d] = pc[d]
  BY <1>3
<1> DEFINE Before(d, k, l) == /\ pending'[d][k] = pending[d][l]
                              /\ d = c => l = k + 1 /\ l # 1
                              /\ d # c => l = k
<1>5. ASSUME NEW d \in Callers, NEW k \in DOMAIN pending'[d]
      PROVE  \E l \in DOMAIN pending[d] : Before(d, k, l)
  <2>1. CASE d = c BY <1>2, <1>4, <2>1
  <2>2. CASE d # c BY <1>4, <2>2
  <2> QED BY <2>1, <2>2
<1>6. pc[c] # "idle" BY <1>1 DEF Timely
<1>7. Timely' BY <1>1, <1>4, <1>6 DEF Timely
<1>8. Raised' BY <1>1, <1>5 DEF Raised
<1>9. Alone'
  <2> SUFFICES ASSUME NEW d \in Callers, NEW e \in Callers,
                      NEW k \in DOMAIN pending'[d], NEW l \in DOMAIN pending'[e],
                      pending'[d][k].fingerprint = pending'[e][l].fingerprint
               PROVE  d = e /\ k = l
    BY DEF Alone
  <2>1. PICK m \in DOMAIN pending[d] : Before(d, k, m) BY <1>5
  <2>2. PICK n \in DOMAIN pending[e] : Before(e, l, n) BY <1>5
  <2>3. d = e /\ m = n BY <1>1, <2>1, <2>2 DEF Alone
  <2>4. k \in Int /\ l \in Int
    <3>1. pending'[d] \in Seq(Alert) /\ pending'[e] \in Seq(Alert) BY DEF AlertTypeOK
    <3> QED BY <3>1
  <2> QED BY <2>1, <2>2, <2>3, <2>4
<1>10. Older' BY <1>1, <1>4, <1>6 DEF Older
<1>11. Known'
  <2>1. Current(c).fingerprint \in DOMAIN engineLast BY <1>1, <1>2 DEF Raised
  <2> QED BY <1>1, <2>1 DEF Known
<1>12. Tested'
  <2> SUFFICES ASSUME NEW d \in Callers, NEW k \in DOMAIN pending'[d]
               PROVE  \/ k = 1 /\ pc'[d] = "sending"
                      \/ Clear(table', overlooked', pending'[d][k])
                      \/ /\ pending'[d][k].fingerprint \notin DOMAIN cache' \cup checked'
                         /\ ~ (k = 1 /\ pc'[d] = "inserting")
    BY DEF Tested
  <2>1. PICK l \in DOMAIN pending[d] : Before(d, k, l) BY <1>5
  <2>2. pending[d][l].fingerprint # Current(c).fingerprint \/ (d = c /\ l = 1)
    BY <1>1, <1>2 DEF Alone
  <2>3. CASE d = c
    <3>1. \/ Clear(table, overlooked, pending[d][l])
          \/ pending[d][l].fingerprint \notin DOMAIN cache \cup checked
      BY <1>1, <2>1, <2>3 DEF Tested
    <3> QED BY <1>4, <2>1, <2>2, <2>3, <3>1 DEF Clear
  <2>4. CASE d # c
    <3>1. \/ l = 1 /\ pc[d] = "sending"
          \/ Clear(table, overlooked, pending[d][l])
          \/ /\ pending[d][l].fingerprint \notin DOMAIN cache \cup checked
             /\ ~ (l = 1 /\ pc[d] = "inserting")
      BY <1>1 DEF Tested
    <3> QED BY <1>4, <2>1, <2>2, <2>4, <3>1 DEF Clear
  <2> QED BY <2>3, <2>4
<1>13. CooldownHolds' BY <1>1 DEF CooldownHolds
<1> QED BY <1>7, <1>8, <1>9, <1>10, <1>11, <1>12, <1>13 DEF AlertInv

\* A caller moves on with the alerts it has; to the insert only if the first is clear.
LEMMA MovesOn ==
  ASSUME AlertInv, AlertTypeOK', NEW c \in Callers, NEW at, pc' = [pc EXCEPT ![c] = at],
         pc[c] # "idle", pc[c] # "sending", at = "idle" => pending[c] = << >>, at # "sending",
         at = "inserting" => Clear(table, overlooked', Current(c)),
         DOMAIN cache' \cup checked' \subseteq DOMAIN cache \cup checked \/
           /\ at = "inserting"
           /\ DOMAIN cache' \cup checked' \subseteq
                DOMAIN cache \cup checked \cup {Current(c).fingerprint},
         UNCHANGED <<now, engineLast, callTime, table, pending>>, overlooked \subseteq overlooked'
  PROVE  AlertInv'
<1>1. /\ AlertTypeOK /\ Timely /\ Raised /\ Alone /\ Older /\ Known /\ Tested /\ CooldownHolds
  BY DEF AlertInv
<1>2. /\ pc'[c] = at /\ \A d \in Callers : d # c => pc'[d] = pc[d]
  BY <1>1 DEF AlertTypeOK
<1>3. at = "inserting" => pending[c] # << >>
  BY <1>2 DEF AlertTypeOK
<1>4. pending[c] # << >> => /\ Current(c) = pending[c][1] /\ 1 \in DOMAIN pending[c]
                            /\ Current(c).fingerprint \in DOMAIN engineLast
  <2>1. pending[c] # << >> => Current(c) = pending[c][1] /\ 1 \in DOMAIN pending[c]
    BY <1>1, TailTyped
  <2> QED BY <1>1, <2>1 DEF Raised
<1>5. Timely' BY <1>1, <1>2 DEF Timely
<1>6. Raised' /\ Alone' /\ CooldownHolds' BY <1>1 DEF Raised, Alone, CooldownHolds
<1>7. Older' BY <1>1, <1>2 DEF Older
<1>8. Known' BY <1>1, <1>3, <1>4 DEF Known
<1>9. Tested'
  <2> SUFFICES ASSUME NEW d \in Callers, NEW k \in DOMAIN pending[d]
               PROVE  \/ k = 1 /\ pc'[d] = "sending"
                      \/ Clear(table, overlooked', pending[d][k])
                      \/ /\ pending[d][k].fingerprint \notin DOMAIN cache' \cup checked'
                         /\ ~ (k = 1 /\ pc'[d] = "inserting")
    BY DEF Tested
  <2>1. \/ k = 1 /\ pc[d] = "sending"
        \/ Clear(table, overlooked, pending[d][k])
        \/ /\ pending[d][k].fingerprint \notin DOMAIN cache \cup checked
           /\ ~ (k = 1 /\ pc[d] = "inserting")
    BY <1>1 DEF Tested
  <2> DEFINE after == Clear(table, overlooked', pending[d][k])
  <2>0. Clear(table, overlooked, pending[d][k]) => after BY DEF Clear
  <2>4. d = c /\ k = 1 /\ at = "inserting" => after BY <1>3, <1>4
  <2> HIDE DEF after
  <2>2. CASE d = c /\ k = 1
    <3>1. CASE at = "inserting" BY <2>2, <2>4, <3>1 DEF after
    <3>2. CASE at # "inserting" BY <1>2, <2>0, <2>1, <2>2, <3>2 DEF after
    <3> QED BY <3>1, <3>2
  <2>3. CASE ~(d = c /\ k = 1)
    <3>1. pending[c] # << >> => pending[d][k].fingerprint # Current(c).fingerprint
      BY <1>1, <1>4, <2>3 DEF Alone
    <3> QED BY <1>2, <1>3, <2>0, <2>1, <2>3, <3>1 DEF after
  <2> QED BY <2>2, <2>3
<1> QED BY <1>5, <1>6, <1>7, <1>8, <1>9 DEF AlertInv

\* The checks of an alert let it go to the insert only when it is clear.
LEMMA CheckStep ==
  ASSUME AlertInv, AlertTypeOK', NEW c \in Callers, CheckMemory(c) \/ CheckStorage(c)
  PROVE  AlertInv'
<1> DEFINE a == Current(c)
           f == Current(c).fingerprint
<1>1. /\ UNCHANGED <<now, engineLast, callTime, table>> /\ pending[c] # << >>
      /\ pc[c] \in {"dispatching", "querying"}
  BY CheckCases DEF AlertInv
<1>2. /\ a = pending[c][1] /\ 1 \in DOMAIN pending[c]
  BY <1>1, TailTyped DEF AlertInv
<1>3. Clear(table, overlooked, a) \/ f \notin DOMAIN cache \cup checked
  BY <1>1, <1>2 DEF AlertInv, Tested
<1> HIDE DEF a, f
<1>4. CASE CheckMemory(c)
  <2>1. /\ UNCHANGED <<cache, checked, overlooked>>
        /\ \/ NextAlert(c)
           \/ Throttle(c) /\ f \in DOMAIN cache \cup checked
           \/ pc' = [pc EXCEPT ![c] = "querying"] /\ pending' = pending
    BY <1>4 DEF CheckMemory, f, historyVars
  <2>2. CASE Throttled(c) BY <1>1, <2>1, <2>2, GoesOn
  <2>3. CASE LetGo(c) /\ f \in DOMAIN cache \cup checked
    <3>1. Clear(table, overlooked', Current(c)) BY <1>3, <2>1, <2>3 DEF a
    <3> QED BY <1>1, <2>1, <2>3, <3>1, MovesOn DEF LetGo
  <2>4. CASE pc' = [pc EXCEPT ![c] = "querying"] /\ pending' = pending
    BY <1>1, <2>1, <2>4, MovesOn
  <2>5. NextAlert(c) => Throttled(c) BY DEF NextAlert, Throttled
  <2>6. Throttle(c) => Throttled(c) \/ LetGo(c) BY ThrottleCases DEF AlertInv
  <2> QED BY <2>1, <2>2, <2>3, <2>4, <2>5, <2>6
<1>5. CASE CheckStorage(c)
  <2>1. PICK recent \in Recent(Current(c)) :
          LET matches == {table[i].time : i \in {j \in recent : table[j].fingerprint = f}}
          IN  \/ /\ matches # {} /\ cache' = Put(cache, f, Max(matches)) /\ NextAlert(c)
                 /\ overlooked' = overlooked
              \/ /\ matches = {} /\ Throttle(c) /\ cache' = cache
                 /\ overlooked' =
                      IF Cardinality(recent) < QueryLimit THEN overlooked
                      ELSE overlooked \cup {i \in Rows(Current(c)) : table[i].fingerprint = f}
    BY <1>5 DEF CheckStorage, f
  <2>2. checked' = checked \cup {f} BY <1>5 DEF CheckStorage, f
  <2>3. DOMAIN cache' \subseteq DOMAIN cache \cup {f} BY <2>1 DEF Put
  <2>4. DOMAIN cache' \cup checked' \subseteq DOMAIN cache \cup checked \cup {f} BY <2>2, <2>3
  <2>9. overlooked \subseteq overlooked' BY <2>1
  <2>5. CASE Throttled(c) BY <1>1, <2>4, <2>5, <2>9, GoesOn DEF f
  <2>6. CASE LetGo(c)
    <3>1. /\ pc' = [pc EXCEPT ![c] = "inserting"] /\ pending' = pending BY <2>6 DEF LetGo
    <3>2. ~NextAlert(c)
      <4>1. DOMAIN pc = Callers BY <1>1 DEF AlertInv, AlertTypeOK
      <4> QED BY <3>1, <4>1 DEF NextAlert
    <3>3. \A j \in recent : table[j].fingerprint # f BY <2>1, <3>2
    <3>4. Clear(table, overlooked', Current(c))
      <4> SUFFICES ASSUME NEW i \in DOMAIN table, table[i].fingerprint = f, i \notin overlooked'
                   PROVE  a.time - table[i].time >= Cooldown
        BY DEF Clear, a, f
      <4>1. i \notin Rows(Current(c))
        <5>1. CASE Cardinality(recent) < QueryLimit BY <1>1, <3>3, <5>1, AnswerShowsRows
        <5>2. CASE ~(Cardinality(recent) < QueryLimit) BY <2>1, <3>2, <5>2
        <5> QED BY <5>1, <5>2
      <4>2. ~(table[i].time >= a.time - Cooldown) BY <4>1 DEF Rows, a, f
      <4>3. table[i].time \in Nat /\ a.time \in Nat /\ Cooldown \in Nat BY <1>2, AlertParts
      <4> QED BY <4>2, <4>3
    <3> QED BY <1>1, <2>4, <2>9, <3>1, <3>4, MovesOn DEF f
  <2>7. NextAlert(c) => Throttled(c) BY DEF NextAlert, Throttled
  <2>8. Throttle(c) => Throttled(c) \/ LetGo(c) BY ThrottleCases DEF AlertInv
  <2> QED BY <2>1, <2>5, <2>6, <2>7, <2>8
<1> QED BY <1>4, <1>5

\* The row of a clear alert is a cooldown away from the others of its fingerprint.
LEMMA RowAdded ==
  ASSUME AlertInv, NEW c \in Callers, pc[c] = "inserting", table' = Append(table, Current(c)),
         UNCHANGED <<now, engineLast, overlooked>>
  PROVE  /\ CooldownHolds'
         /\ \A i \in DOMAIN table' :
              /\ table'[i].time <= now
              /\ table'[i].fingerprint \in DOMAIN engineLast
                   => table'[i].time <= engineLast[table'[i].fingerprint]
              /\ table'[i].fingerprint \notin DOMAIN engineLast
                   => \A d \in Callers : pc[d] # "idle" => table'[i].time <= callTime[d]
         /\ \A a : a.fingerprint # Current(c).fingerprint /\ Clear(table, overlooked, a)
                   => Clear(table', overlooked', a)
<1> DEFINE b == Current(c)
<1>1. pending[c] # << >> /\ b = pending[c][1] /\ 1 \in DOMAIN pending[c]
  <2>1. pending[c] # << >> BY DEF AlertInv, AlertTypeOK
  <2> QED BY <2>1, TailTyped DEF AlertInv
<1>2. /\ b.time \in Nat /\ b.time <= now /\ table \in Seq(Alert) /\ b \in Alert
      /\ b.fingerprint \in DOMAIN engineLast /\ engineLast[b.fingerprint] = b.time
  <2>1. /\ b.fingerprint \in DOMAIN engineLast /\ engineLast[b.fingerprint] = b.time
    BY <1>1 DEF AlertInv, Raised
  <2> QED BY <1>1, <2>1, AlertParts
<1>3. Clear(table, overlooked, b) BY <1>1 DEF AlertInv, Tested
<1> HIDE DEF b
<1>4. /\ DOMAIN table' = 1..(Len(table) + 1) /\ DOMAIN table = 1..Len(table) /\ Len(table) \in Nat
      /\ \A i \in 1..Len(table) : table'[i] = table[i]
      /\ table'[Len(table) + 1] = b
  BY <1>2 DEF b
<1>5. \A i \in DOMAIN table' : i \in DOMAIN table \/ i = Len(table) + 1 BY <1>4
<1>6. \A i \in DOMAIN table : /\ table'[i] = table[i] /\ table[i].time \in Nat
                               /\ i # Len(table) + 1 /\ i \in DOMAIN table'
  BY <1>4, AlertParts
<1>7. CooldownHolds'
  <2> SUFFICES ASSUME NEW j \in DOMAIN table', NEW i \in 1..(j - 1), i \notin overlooked,
                      table'[i].fingerprint = table'[j].fingerprint
               PROVE  table'[j].time - table'[i].time >= Cooldown
    BY DEF CooldownHolds
  <2>1. i \in DOMAIN table BY <1>4
  <2>2. CASE j \in DOMAIN table BY <1>6, <2>1, <2>2 DEF AlertInv, CooldownHolds
  <2>3. CASE j = Len(table) + 1 BY <1>3, <1>4, <1>6, <2>1, <2>3 DEF Clear
  <2> QED BY <1>5, <2>2, <2>3
<1>8. ASSUME NEW i \in DOMAIN table'
      PROVE  /\ table'[i].time <= now
             /\ table'[i].fingerprint \in DOMAIN engineLast
                  => table'[i].time <= engineLast[table'[i].fingerprint]
             /\ table'[i].fingerprint \notin DOMAIN engineLast
                  => \A d \in Callers : pc[d] # "idle" => table'[i].time <= callTime[d]
  <2>1. CASE i \in DOMAIN table BY <1>6, <2>1 DEF AlertInv, Older
  <2>2. CASE i = Len(table) + 1 BY <1>2, <1>4, <2>2
  <2> QED BY <1>5, <2>1, <2>2
<1>9. \A a : a.fingerprint # b.fingerprint /\ Clear(table, overlooked, a)
               => Clear(table', overlooked', a)
  BY <1>4, <1>5, <1>6 DEF Clear
<1> QED BY <1>7, <1>8, <1>9 DEF b

\* A stored alert is remembered, and was clear.
LEMMA InsertStep ==
  ASSUME AlertInv, AlertTypeOK', NEW c \in Callers, InsertDone(c) PROVE AlertInv'
<1> DEFINE f == Current(c).fingerprint
<1>1. /\ AlertTypeOK /\ Timely /\ Raised /\ Alone /\ Older /\ Known /\ Tested
  BY DEF AlertInv
<1>2. /\ pc[c] = "inserting" /\ pc' = [pc EXCEPT ![c] = "sending"]
      /\ table' = Append(table, Current(c))
      /\ UNCHANGED <<now, engineLast, callTime, pending, overlooked>>
  BY DEF InsertDone, InsertTurn, engineVars, historyVars
<1>3. DOMAIN cache' \cup checked' \subseteq DOMAIN cache \cup checked \cup {f}
  BY DEF InsertDone, Survivors, Put, Restrict
<1>4. /\ pc'[c] = "sending" /\ \A d \in Callers : d # c => pc'[d] = pc[d]
  BY <1>1, <1>2 DEF AlertTypeOK
<1>5. /\ Current(c) = pending[c][1] /\ 1 \in DOMAIN pending[c] /\ f \in DOMAIN engineLast
  <2>1. pending[c] # << >> BY <1>1, <1>2 DEF AlertTypeOK
  <2>2. Current(c) = pending[c][1] /\ 1 \in DOMAIN pending[c] BY <1>1, <2>1, TailTyped
  <2> QED BY <1>1, <2>2 DEF Raised
<1>6. Timely' BY <1>1, <1>2, <1>4 DEF Timely
<1>7. Raised' /\ Alone' BY <1>1, <1>2 DEF Raised, Alone
<1>8. CooldownHolds' BY <1>2, RowAdded
<1>9. Older' BY <1>2, <1>4, RowAdded DEF Older
<1>10. Known' BY <1>1, <1>2, <1>3, <1>5 DEF Known
<1> HIDE DEF f
<1>11. Tested'
  <2> SUFFICES ASSUME NEW d \in Callers, NEW k \in DOMAIN pending[d]
               PROVE  \/ k = 1 /\ pc'[d] = "sending"
                      \/ Clear(table', overlooked', pending[d][k])
                      \/ /\ pending[d][k].fingerprint \notin DOMAIN cache' \cup checked'
                         /\ ~ (k = 1 /\ pc'[d] = "inserting")
    BY <1>2 DEF Tested
  <2>1. CASE d = c /\ k = 1 BY <1>4, <2>1
  <2>2. CASE ~(d = c /\ k = 1)
    <3>1. pending[d][k].fingerprint # f BY <1>1, <1>5, <2>2 DEF Alone, f
    <3>2. Clear(table, overlooked, pending[d][k]) => Clear(table', overlooked', pending[d][k])
      BY <1>2, <3>1, RowAdded DEF f
    <3>3. \/ k = 1 /\ pc[d] = "sending"
          \/ Clear(table, overlooked, pending[d][k])
          \/ /\ pending[d][k].fingerprint \notin DOMAIN cache \cup checked
             /\ ~ (k = 1 /\ pc[d] = "inserting")
      BY <1>1 DEF Tested
    <3> QED BY <1>3, <1>4, <2>2, <3>1, <3>2, <3>3
  <2> QED BY <2>1, <2>2
<1> QED BY <1>6, <1>7, <1>8, <1>9, <1>10, <1>11 DEF AlertInv

\* A call that fails drops its alerts; the one in the insert may be stored all the same.
LEMMA FailStep ==
  ASSUME AlertInv, AlertTypeOK', NEW c \in Callers, Fail(c) PROVE AlertInv'
<1>1. /\ AlertTypeOK /\ Timely /\ Raised /\ Alone /\ Older /\ Known /\ Tested /\ CooldownHolds
  BY DEF AlertInv
<1>2. /\ pc' = [pc EXCEPT ![c] = "idle"] /\ pending' = [pending EXCEPT ![c] = << >>]
      /\ UNCHANGED <<now, engineLast, callTime, cache, checked, overlooked>>
      /\ \/ table' = table
         \/ pc[c] = "inserting" /\ table' = Append(table, Current(c))
  BY DEF Fail, InsertTurn, engineVars, memoryVars, historyVars
<1>3. /\ pc'[c] = "idle" /\ pending'[c] = << >>
      /\ \A d \in Callers : d # c => pc'[d] = pc[d] /\ pending'[d] = pending[d]
      /\ \A d \in Callers : \A k \in DOMAIN pending'[d] : d # c
  BY <1>1, <1>2 DEF AlertTypeOK
<1>4. Timely' BY <1>1, <1>2, <1>3 DEF Timely
<1>5. Raised' BY <1>1, <1>2, <1>3 DEF Raised
<1>6. Alone' BY <1>1, <1>3 DEF Alone
<1>7. Known' BY <1>1, <1>2 DEF Known
<1>8. CASE table' = table
  <2>1. Older' /\ CooldownHolds' BY <1>1, <1>2, <1>3, <1>8 DEF Older, CooldownHolds
  <2>2. Tested' BY <1>1, <1>2, <1>3, <1>8 DEF Tested
  <2> QED BY <1>4, <1>5, <1>6, <1>7, <2>1, <2>2 DEF AlertInv
<1>9. CASE pc[c] = "inserting" /\ table' = Append(table, Current(c))
  <2>1. CooldownHolds' BY <1>2, <1>9, RowAdded
  <2>2. Older' BY <1>2, <1>3, <1>9, RowAdded DEF Older
  <2>3. Current(c) = pending[c][1] /\ 1 \in DOMAIN pending[c]
    <3>1. pending[c] # << >> BY <1>1, <1>9 DEF AlertTypeOK
    <3> QED BY <1>1, <3>1, TailTyped
  <2>4. Tested'
    <3> SUFFICES ASSUME NEW d \in Callers, NEW k \in DOMAIN pending'[d]
                 PROVE  \/ k = 1 /\ pc'[d] = "sending"
                        \/ Clear(table', overlooked', pending'[d][k])
                        \/ /\ pending'[d][k].fingerprint \notin DOMAIN cache' \cup checked'
                           /\ ~ (k = 1 /\ pc'[d] = "inserting")
      BY DEF Tested
    <3>1. d # c /\ pc'[d] = pc[d] /\ pending'[d] = pending[d] BY <1>3
    <3>2. pending[d][k].fingerprint # Current(c).fingerprint BY <1>1, <2>3, <3>1 DEF Alone
    <3>3. Clear(table, overlooked, pending[d][k]) => Clear(table', overlooked', pending[d][k])
      BY <1>2, <1>9, <3>2, RowAdded
    <3> QED BY <1>1, <1>2, <3>1, <3>3 DEF Tested
  <2> QED BY <1>4, <1>5, <1>6, <1>7, <2>1, <2>2, <2>4 DEF AlertInv
<1> QED BY <1>2, <1>8, <1>9

\* Nobody waits for the same key, and its last alert is clear or unknown, when an engine
\* raises an alert: the lag is shorter than the cooldown.
LEMMA RaiseStep ==
  ASSUME AlertInv, AlertTypeOK', LagBelowCooldown, NEW c \in Callers, NEW f \in Fingerprints,
         RaiseAlert(c, f)
  PROVE  AlertInv'
<1> DEFINE a == [fingerprint |-> f, time |-> callTime[c]]
           n == Len(pending[c]) + 1
<1>1. /\ AlertTypeOK /\ Timely /\ Raised /\ Alone /\ Older /\ Known /\ Tested /\ CooldownHolds
  BY DEF AlertInv
<1>2. /\ pc[c] = "analysing" /\ engineLast' = Put(engineLast, f, callTime[c])
      /\ pending' = [pending EXCEPT ![c] = Append(pending[c], a)]
      /\ UNCHANGED <<now, callTime, cache, checked, table, pc, overlooked>>
      /\ f \in DOMAIN engineLast => ~(callTime[c] - engineLast[f] < Cooldown)
  BY DEF RaiseAlert, OnCooldown, memoryVars, historyVars
<1>3. /\ now \in Nat /\ Cooldown \in Nat /\ MaxLag \in Nat /\ MaxLag < Cooldown
      /\ callTime[c] \in Nat /\ callTime[c] <= now /\ pending[c] \in Seq(Alert)
      /\ f \in DOMAIN engineLast => engineLast[f] \in Nat
  <2>1. callTime[c] <= now BY <1>1, <1>2 DEF Timely
  <2> QED BY <1>1, <2>1, AlertParts DEF LagBelowCooldown, AlertTypeOK
<1>4. /\ n \in Nat /\ n >= 1 /\ DOMAIN pending[c] = 1..(n - 1) /\ pending'[c] = Append(pending[c], a)
      /\ \A d \in Callers : d # c => pending'[d] = pending[d]
  BY <1>1, <1>2, <1>3 DEF AlertTypeOK
<1>5. /\ a.fingerprint = f /\ a.time = callTime[c]
      /\ DOMAIN pending'[c] = 1..n /\ pending'[c][n] = a
      /\ \A k \in 1..(n - 1) : pending'[c][k] = pending[c][k]
  BY <1>3, <1>4
<1>6. /\ DOMAIN engineLast' = {f} \cup DOMAIN engineLast /\ engineLast'[f] = callTime[c]
      /\ \A g \in DOMAIN engineLast : g # f => engineLast'[g] = engineLast[g]
  BY <1>2 DEF Put
<1> HIDE DEF n, a
\* An alert of a caller is one it had, or the new one.
<1>7. ASSUME NEW d \in Callers, NEW k \in DOMAIN pending'[d]
      PROVE  \/ /\ k \in DOMAIN pending[d] /\ pending'[d][k] = pending[d][k]
                /\ ~(d = c /\ k = n)
             \/ d = c /\ k = n /\ pending'[d][k] = a
  <2>1. CASE d = c
    <3>1. k \in 1..n BY <1>5, <2>1
    <3>2. k \in 1..(n - 1) \/ k = n BY <1>4, <3>1
    <3>3. k \in 1..(n - 1) => k # n BY <1>4
    <3> QED BY <1>4, <1>5, <2>1, <3>2, <3>3
  <2>2. CASE d # c BY <1>4, <2>2
  <2> QED BY <2>1, <2>2
\* Another alert of the key would be older than the lag.
<1>8. ASSUME NEW d \in Callers, NEW k \in DOMAIN pending[d] PROVE pending[d][k].fingerprint # f
  <2> SUFFICES ASSUME pending[d][k].fingerprint = f PROVE FALSE OBVIOUS
  <2>1. f \in DOMAIN engineLast /\ engineLast[f] = pending[d][k].time BY <1>1 DEF Raised
  <2>2. now <= pending[d][k].time + MaxLag BY AlertParts
  <2>3. ~(callTime[c] - engineLast[f] < Cooldown) BY <1>2, <2>1
  <2> QED BY <1>3, <2>1, <2>2, <2>3
<1>9. Clear(table, overlooked, a) \/ f \notin DOMAIN cache \cup checked
  <2>1. CASE f \in DOMAIN engineLast
    <3> SUFFICES ASSUME NEW i \in DOMAIN table, table[i].fingerprint = f, i \notin overlooked
                 PROVE  a.time - table[i].time >= Cooldown
      BY <1>5 DEF Clear
    <3>1. table[i].time <= engineLast[f] BY <1>1, <2>1 DEF Older
    <3>2. table[i].time \in Nat BY AlertParts
    <3> QED BY <1>2, <1>3, <1>5, <2>1, <3>1, <3>2
  <2>2. CASE f \notin DOMAIN engineLast BY <1>1, <2>2 DEF Known
  <2> QED BY <2>1, <2>2
<1>10. Timely' BY <1>1, <1>2, <1>4 DEF Timely
<1>11. Raised'
  <2> SUFFICES ASSUME NEW d \in Callers, NEW k \in DOMAIN pending'[d]
               PROVE  /\ pending'[d][k].time = callTime'[d]
                      /\ pending'[d][k].fingerprint \in DOMAIN engineLast'
                      /\ engineLast'[pending'[d][k].fingerprint] = pending'[d][k].time
    BY DEF Raised
  <2>1. CASE k \in DOMAIN pending[d] /\ pending'[d][k] = pending[d][k]
    <3>1. /\ pending[d][k].time = callTime[d] /\ pending[d][k].fingerprint \in DOMAIN engineLast
          /\ engineLast[pending[d][k].fingerprint] = pending[d][k].time
      BY <1>1, <2>1 DEF Raised
    <3>2. pending[d][k].fingerprint # f BY <1>8, <2>1
    <3> QED BY <1>2, <1>6, <2>1, <3>1, <3>2
  <2>2. CASE d = c /\ pending'[d][k] = a BY <1>2, <1>5, <1>6, <2>2
  <2> QED BY <1>7, <2>1, <2>2
<1>12. Alone'
  <2> SUFFICES ASSUME NEW d \in Callers, NEW e \in Callers,
                      NEW k \in DOMAIN pending'[d], NEW l \in DOMAIN pending'[e],
                      pending'[d][k].fingerprint = pending'[e][l].fingerprint
               PROVE  d = e /\ k = l
    BY DEF Alone
  <2>1. \/ k \in DOMAIN pending[d] /\ pending'[d][k] = pending[d][k]
        \/ d = c /\ k = n /\ pending'[d][k] = a
    BY <1>7
  <2>2. \/ l \in DOMAIN pending[e] /\ pending'[e][l] = pending[e][l]
        \/ e = c /\ l = n /\ pending'[e][l] = a
    BY <1>7
  <2> QED BY <1>1, <1>5, <1>8, <2>1, <2>2 DEF Alone
<1>13. Older'
  <2> SUFFICES ASSUME NEW i \in DOMAIN table
               PROVE  /\ table[i].time <= now
                      /\ table[i].fingerprint \in DOMAIN engineLast'
                           => table[i].time <= engineLast'[table[i].fingerprint]
                      /\ table[i].fingerprint \notin DOMAIN engineLast'
                           => \A d \in Callers : pc[d] # "idle" => table[i].time <= callTime[d]
    BY <1>2 DEF Older
  <2>1. table[i].time \in Nat /\ table[i].time <= now BY AlertParts
  <2>2. CASE table[i].fingerprint = f
    <3>1. CASE f \in DOMAIN engineLast
      <4>1. table[i].time <= engineLast[f] BY <1>1, <2>2, <3>1 DEF Older
      <4>2. engineLast[f] <= callTime[c] BY <1>2, <1>3, <3>1
      <4> QED BY <1>3, <1>6, <2>1, <2>2, <3>1, <4>1, <4>2
    <3>2. CASE f \notin DOMAIN engineLast
      <4>1. table[i].time <= callTime[c] BY <1>1, <1>2, <2>2, <3>2 DEF Older
      <4> QED BY <1>6, <2>1, <2>2, <4>1
    <3> QED BY <3>1, <3>2
  <2>3. CASE table[i].fingerprint # f BY <1>1, <1>6, <2>1, <2>3 DEF Older
  <2> QED BY <2>2, <2>3
<1>14. Known' BY <1>1, <1>2, <1>6 DEF Known
<1>15. Tested'
  <2> SUFFICES ASSUME NEW d \in Callers, NEW k \in DOMAIN pending'[d]
               PROVE  \/ k = 1 /\ pc[d] = "sending"
                      \/ Clear(table, overlooked, pending'[d][k])
                      \/ /\ pending'[d][k].fingerprint \notin DOMAIN cache \cup checked
                         /\ ~ (k = 1 /\ pc[d] = "inserting")
    BY <1>2 DEF Tested
  <2>1. CASE k \in DOMAIN pending[d] /\ pending'[d][k] = pending[d][k]
    BY <1>1, <2>1 DEF Tested
  <2>2. CASE d = c /\ pending'[d][k] = a BY <1>2, <1>5, <1>9, <2>2
  <2> QED BY <1>7, <2>1, <2>2
<1>16. CooldownHolds' BY <1>1, <1>2 DEF CooldownHolds
<1> QED BY <1>10, <1>11, <1>12, <1>13, <1>14, <1>15, <1>16 DEF AlertInv

\* A call starts with no alert, now; it is over when it has none left.
LEMMA CallStep ==
  ASSUME AlertInv, AlertTypeOK', NEW c \in Callers,
         StartCall(c) \/ FinishCall(c) \/ EndDispatch(c)
  PROVE  AlertInv'
<1>1. /\ AlertTypeOK /\ Timely /\ Raised /\ Alone /\ Older /\ Known /\ Tested /\ CooldownHolds
  BY DEF AlertInv
<1>2. CASE FinishCall(c)
  BY <1>2, MovesOn DEF FinishCall, engineVars, memoryVars, historyVars
<1>3. CASE EndDispatch(c)
  BY <1>3, MovesOn DEF EndDispatch, engineVars, memoryVars, historyVars
<1>4. CASE StartCall(c)
  <2>1. /\ pc[c] = "idle" /\ pc' = [pc EXCEPT ![c] = "analysing"]
        /\ callTime' = [callTime EXCEPT ![c] = now]
        /\ UNCHANGED <<now, engineLast, cache, checked, table, pending, overlooked>>
    BY <1>4 DEF StartCall, memoryVars, historyVars
  <2>2. /\ pc'[c] = "analysing" /\ callTime'[c] = now
        /\ \A d \in Callers : d # c => pc'[d] = pc[d] /\ callTime'[d] = callTime[d]
    BY <1>1, <2>1 DEF AlertTypeOK
  <2>3. \A d \in Callers : \A k \in DOMAIN pending[d] : d # c
    BY <1>1, <2>1 DEF Timely
  <2>4. now \in Nat /\ MaxLag \in Nat BY AlertParts
  <2>5. Timely' BY <1>1, <2>1, <2>2, <2>4 DEF Timely
  <2>6. Raised'
    <3> SUFFICES ASSUME NEW d \in Callers, NEW k \in DOMAIN pending[d]
                 PROVE  /\ pending[d][k].time = callTime'[d]
                        /\ pending[d][k].fingerprint \in DOMAIN engineLast
                        /\ engineLast[pending[d][k].fingerprint] = pending[d][k].time
      BY <2>1 DEF Raised
    <3>1. callTime'[d] = callTime[d] BY <2>2, <2>3
    <3> QED BY <1>1, <3>1 DEF Raised
  <2>7. Alone' /\ Known' /\ CooldownHolds' BY <1>1, <2>1 DEF Alone, Known, CooldownHolds
  <2>8. Older'
    <3> SUFFICES ASSUME NEW i \in DOMAIN table
                 PROVE  /\ table[i].time <= now
                        /\ table[i].fingerprint \in DOMAIN engineLast
                             => table[i].time <= engineLast[table[i].fingerprint]
                        /\ table[i].fingerprint \notin DOMAIN engineLast
                             => \A d \in Callers : pc'[d] # "idle" => table[i].time <= callTime'[d]
      BY <2>1 DEF Older
    <3> QED BY <1>1, <2>2 DEF Older
  <2>9. Tested'
    <3> SUFFICES ASSUME NEW d \in Callers, NEW k \in DOMAIN pending[d]
                 PROVE  \/ k = 1 /\ pc'[d] = "sending"
                        \/ Clear(table, overlooked, pending[d][k])
                        \/ /\ pending[d][k].fingerprint \notin DOMAIN cache \cup checked
                           /\ ~ (k = 1 /\ pc'[d] = "inserting")
      BY <2>1 DEF Tested
    <3>1. pc'[d] = pc[d] BY <2>2, <2>3
    <3> QED BY <1>1, <3>1 DEF Tested
  <2> QED BY <2>5, <2>6, <2>7, <2>8, <2>9 DEF AlertInv
<1> QED BY <1>2, <1>3, <1>4

\* Every step keeps the invariant.
LEMMA AlertStep == ASSUME AlertInv, LagBelowCooldown, [Next]_vars PROVE AlertInv'
<1>1. /\ AlertTypeOK /\ Timely /\ Raised /\ Alone /\ Older /\ Known /\ Tested /\ CooldownHolds
  BY DEF AlertInv
<1>2. AlertTypeOK' BY <1>1, TypeStep
<1>3. ASSUME NEW c \in Callers, Send(c) PROVE AlertInv'
  <2>1. /\ pc[c] = "sending" /\ Throttled(c)
        /\ UNCHANGED <<now, engineLast, callTime, table, cache, checked, overlooked>>
    BY <1>3 DEF Send, NextAlert, Throttled, engineVars, memoryVars, historyVars
  <2>2. pending[c] # << >> BY <1>1, <2>1 DEF AlertTypeOK
  <2> QED BY <1>2, <2>1, <2>2, GoesOn
<1>4. CASE ClockTick
  <2>1. /\ now' = now + 1 /\ \A c \in Callers : pc[c] # "idle" => now - callTime[c] < MaxLag
        /\ UNCHANGED <<engineLast, callTime, cache, checked, table, pc, pending, overlooked>>
    BY <1>4 DEF ClockTick, engineVars, memoryVars, historyVars
  <2>2. now \in Nat /\ MaxLag \in Nat /\ \A c \in Callers : callTime[c] \in Nat
    BY <1>1, AlertAssumption DEF AlertTypeOK, AlertAssumption
  <2>3. Timely' BY <1>1, <2>1, <2>2 DEF Timely
  <2>4. \A i \in DOMAIN table : table[i].time \in Nat
    <3>1. table \in Seq(Alert) BY <1>1 DEF AlertTypeOK
    <3>2. \A i \in DOMAIN table : table[i] \in Alert BY <3>1
    <3> QED BY <3>2 DEF Alert
  <2>5. Older'
    <3> SUFFICES ASSUME NEW i \in DOMAIN table
                 PROVE  /\ table[i].time <= now + 1
                        /\ table[i].fingerprint \in DOMAIN engineLast
                             => table[i].time <= engineLast[table[i].fingerprint]
                        /\ table[i].fingerprint \notin DOMAIN engineLast
                             => \A d \in Callers : pc[d] # "idle" => table[i].time <= callTime[d]
      BY <2>1 DEF Older
    <3>1. table[i].time <= now BY <1>1 DEF Older
    <3>2. table[i].time <= now + 1 BY <2>2, <2>4, <3>1
    <3> QED BY <1>1, <3>2 DEF Older
  <2>6. Raised' /\ Alone' /\ Known' /\ CooldownHolds'
    BY <1>1, <2>1 DEF Raised, Alone, Known, CooldownHolds
  <2>7. Tested' BY <1>1, <2>1 DEF Tested
  <2> QED BY <1>2, <2>3, <2>5, <2>6, <2>7 DEF AlertInv
<1>5. CASE Restart
  <2>1. /\ UNCHANGED <<now, table, overlooked>> /\ DOMAIN engineLast' = {} /\ DOMAIN cache' = {} /\ checked' = {}
        /\ \A c \in Callers : pc'[c] = "idle" /\ pending'[c] = << >> /\ DOMAIN pending'[c] = {}
    BY <1>5 DEF Restart, EmptyDict
  <2>2. Timely' /\ Raised' /\ Alone' /\ Known' /\ Tested'
    BY <2>1 DEF Timely, Raised, Alone, Known, Tested
  <2>3. Older' /\ CooldownHolds' BY <1>1, <2>1 DEF Older, CooldownHolds
  <2> QED BY <1>2, <2>2, <2>3 DEF AlertInv
<1>6. CASE UNCHANGED vars
  <2>1. UNCHANGED <<now, engineLast, callTime, cache, checked, table, pc, pending, overlooked>>
    BY <1>6 DEF vars, engineVars, memoryVars, historyVars
  <2>2. Timely' /\ Raised' /\ Alone' /\ Known' BY <1>1, <2>1 DEF Timely, Raised, Alone, Known
  <2>3. Older' /\ CooldownHolds' BY <1>1, <2>1 DEF Older, CooldownHolds
  <2>4. Tested' BY <1>1, <2>1 DEF Tested
  <2> QED BY <1>2, <2>2, <2>3, <2>4 DEF AlertInv
<1> QED
  BY <1>2, <1>3, <1>4, <1>5, <1>6, CallStep, RaiseStep, CheckStep, InsertStep, FailStep DEF Next

\* An alert is stored a cooldown after every earlier row of its fingerprint, across races
\* and restarts, but for the rows that the limit of the query hid from it
\* (manager.py:86-140, engines/_shared.py), when no call lasts a cooldown.
THEOREM AlertsAreApart == ASSUME LagBelowCooldown PROVE Spec => []CooldownHolds
<1>1. Init => AlertInv
  <2> SUFFICES ASSUME Init PROVE AlertInv OBVIOUS
  <2>1. AlertTypeOK BY InitTyped
  <2>2. /\ DOMAIN table = {} /\ DOMAIN cache = {} /\ checked = {}
        /\ \A c \in Callers : pc[c] = "idle" /\ pending[c] = << >> /\ DOMAIN pending[c] = {}
    BY DEF Init, EmptyDict
  <2>3. Timely /\ Raised /\ Alone /\ Known /\ Tested /\ Older /\ CooldownHolds
    BY <2>2 DEF Timely, Raised, Alone, Known, Tested, Older, CooldownHolds
  <2> QED BY <2>1, <2>3 DEF AlertInv
<1>2. LagBelowCooldown /\ AlertInv /\ [Next]_vars => AlertInv' BY AlertStep
<1>3. AlertInv /\ [Next]_vars => AlertInv' BY <1>2
<1>4. AlertInv => CooldownHolds BY DEF AlertInv
<1> QED BY <1>1, <1>3, <1>4, PTL DEF Spec
================================================================================
