----------------------------- MODULE ServiceProofs -----------------------------
(***************************************************************************)
(* Proofs about the reader of the exchange's REST interface and about the  *)
(* services behind the HTTP API, for every number of dexes, permits and    *)
(* retries, every budget and every size of page, cache and queue.          *)
(***************************************************************************)
EXTENDS RestClient, CandleHistory, SettingsStore, FillHistory, AddressCache, DataLemmas

(***************************************************************************)
(* RestClient: the life of a call.                                         *)
(***************************************************************************)
CallState == [at : {"idle", "called", "lock", "attempt", "cooling", "permit", "weight",
                    "throttled", "flight", "backoff", "some", "empty"} \union Failures,
              init : BOOLEAN, attempt : 0..LastAttempt, sleep : Nat]

CallsTypeOK ==
    /\ info \in BOOLEAN
    /\ call \in [Calls -> CallState]
    /\ request \in [Requests -> [dexes : SUBSET RestDex,
                                 outcome : {"none", "list", "limited", "raised"}]]
    /\ names \subseteq RestDex
    /\ cooldown \in Nat

\* The calls that construct the client are the holders of the lock; there is at most
\* one, it holds a permit or is about to, and there is none once the client exists.
OneConstructs ==
    /\ initLock = {c \in Calls : call[c].init}
    /\ \A c, d \in initLock : c = d
    /\ info => initLock = {}
    /\ ~info => \A c \in Calls : call[c].init
                   \/ call[c].at \in {"idle", "called", "lock", "error", "unexpected"}
    /\ \A c \in initLock : call[c].at \in {"permit", "weight", "throttled", "flight", "backoff"}

\* A request that was not made has made no call.
UnaskedIsIdle ==
    \A r \in Requests : request[r] = Unasked =>
        \A d \in RestDex : call[<<r, d>>] = Never

CallsInv == CallsTypeOK /\ OneConstructs /\ UnaskedIsIdle /\ CooldownCoversBackoff

\* The powers of two exist up to any exponent, and Delay gives them.
LEMMA DelayType == \A n \in 0..LastAttempt : Delay[n] \in Nat
<1> DEFINE Doubles(d, m) == d = [n \in 0..m |-> IF n = 0 THEN 1 ELSE 2 * d[n - 1]]
           N == {m \in Nat : \E d \in [0..m -> Nat] : Doubles(d, m)}
<1>1. 0 \in N
  <2>1. Doubles([n \in 0..0 |-> 1], 0) OBVIOUS
  <2> QED BY <2>1
<1>2. ASSUME NEW m \in Nat, m \in N PROVE m + 1 \in N
  <2>1. PICK d \in [0..m -> Nat] : Doubles(d, m) BY <1>2
  <2> DEFINE e == [n \in 0..(m + 1) |-> IF n = 0 THEN 1 ELSE 2 * d[n - 1]]
  <2>2. e \in [0..(m + 1) -> Nat]
    <3>1. \A n \in 0..(m + 1) : (IF n = 0 THEN 1 ELSE 2 * d[n - 1]) \in Nat
      <4> SUFFICES ASSUME NEW n \in 0..(m + 1), n # 0 PROVE 2 * d[n - 1] \in Nat
        OBVIOUS
      <4>1. n - 1 \in 0..m OBVIOUS
      <4>2. d[n - 1] \in Nat BY <4>1
      <4> QED BY <4>2
    <3> QED BY <3>1
  <2>3. \A n \in 0..m : e[n] = d[n] BY <2>1
  <2>4. \A n \in 0..(m + 1) : n # 0 => n - 1 \in 0..m OBVIOUS
  <2>5. \A n \in 0..(m + 1) : n # 0 => e[n] = 2 * e[n - 1] BY <2>3, <2>4
  <2>6. Doubles(e, m + 1) BY <2>5
  <2> HIDE DEF e, Doubles
  <2> QED BY <2>2, <2>6
<1> HIDE DEF N
<1>3. LastAttempt \in N BY <1>1, <1>2, NatSetInduction, RestAssumption
<1>4. PICK d \in [0..LastAttempt -> Nat] : Doubles(d, LastAttempt)
  BY <1>3 DEF N
<1>5. Doubles(Delay, LastAttempt) BY <1>4 DEF Delay
<1> DEFINE K == {n \in Nat : n \in 0..LastAttempt => Delay[n] \in Nat}
<1> HIDE DEF Delay
<1>6. 0 \in K BY <1>5
<1>7. ASSUME NEW n \in Nat, n \in K PROVE n + 1 \in K
  <2> SUFFICES ASSUME n + 1 \in 0..LastAttempt PROVE Delay[n + 1] \in Nat OBVIOUS
  <2>1. n \in 0..LastAttempt /\ Delay[n] \in Nat BY <1>7, RestAssumption
  <2>2. Delay[n + 1] = IF n + 1 = 0 THEN 1 ELSE 2 * Delay[(n + 1) - 1] BY <1>5
  <2>3. n + 1 # 0 /\ (n + 1) - 1 = n OBVIOUS
  <2> QED BY <2>1, <2>2, <2>3
<1> HIDE DEF K
<1>8. Nat \subseteq K BY <1>6, <1>7, NatSetInduction
<1> QED BY <1>8 DEF K

\* One call goes on: it keeps what it is, and none starts or ends a construction.
LEMMA OneCallMoves ==
  ASSUME CallsInv, NEW c \in Calls, NEW x \in CallState,
         call' = [call EXCEPT ![c] = x],
         UNCHANGED <<info, initLock, request, names>>,
         cooldown' \in Nat, cooldown <= cooldown',
         call[c] # Never, x.init = call[c].init,
         x.init => x.at \in {"permit", "weight", "throttled", "flight", "backoff"},
         ~info /\ ~x.init => x.at \in {"idle", "called", "lock", "error", "unexpected"},
         x.at = "backoff" /\ ~x.init => x.sleep <= cooldown'
  PROVE  CallsInv'
<1> USE DEF CallsInv
<1>1. call \in [Calls -> CallState] /\ cooldown \in Nat BY DEF CallsTypeOK
<1>2. /\ call' \in [Calls -> CallState] /\ call'[c] = x
      /\ \A d \in Calls : d # c => call'[d] = call[d]
  BY <1>1
<1>3. CallsTypeOK' BY <1>2 DEF CallsTypeOK
<1>4. OneConstructs' BY <1>2 DEF OneConstructs
<1>5. UnaskedIsIdle'
  <2> SUFFICES ASSUME NEW r \in Requests, request[r] = Unasked, NEW d \in RestDex
               PROVE  call'[<<r, d>>] = Never
    BY DEF UnaskedIsIdle
  <2>1. call[<<r, d>>] = Never BY DEF UnaskedIsIdle
  <2>2. <<r, d>> \in Calls BY DEF Calls
  <2> QED BY <1>2, <2>1, <2>2
<1>6. CooldownCoversBackoff'
  <2> SUFFICES ASSUME NEW d \in Calls, call'[d].at = "backoff", ~call'[d].init
               PROVE  call'[d].sleep <= cooldown'
    BY DEF CooldownCoversBackoff
  <2>1. CASE d = c BY <1>2, <2>1
  <2>2. CASE d # c
    <3>1. call[d].sleep <= cooldown BY <1>2, <2>2 DEF CooldownCoversBackoff
    <3>2. call[d].sleep \in Nat BY <1>1 DEF CallState
    <3> QED BY <1>1, <1>2, <2>2, <3>1, <3>2
  <2> QED BY <2>1, <2>2
<1> QED BY <1>3, <1>4, <1>5, <1>6

\* The calls of a request begin.
LEMMA CallsStart ==
  ASSUME CallsInv, NEW cs \in SUBSET Calls, Starts(cs),
         \A c \in cs : ~call[c].init,
         UNCHANGED <<info, initLock, cooldown>>, names' \subseteq RestDex,
         request' \in [Requests -> [dexes : SUBSET RestDex,
                                    outcome : {"none", "list", "limited", "raised"}]],
         \A r \in Requests : request'[r] = Unasked =>
           request[r] = Unasked /\ \A d \in RestDex : <<r, d>> \notin cs
  PROVE  CallsInv'
<1> USE DEF CallsInv
<1>1. call \in [Calls -> CallState] BY DEF CallsTypeOK
<1>2. [Never EXCEPT !.at = "called"] \in CallState
  <2>1. 0 \in 0..LastAttempt BY RestAssumption
  <2> QED BY <2>1 DEF Never, CallState
<1> DEFINE x == [Never EXCEPT !.at = "called"]
<1>3. x.at = "called" /\ x.init = FALSE BY DEF Never
<1>4. call' = [c \in Calls |-> IF c \in cs THEN x ELSE call[c]] BY DEF Starts
<1> HIDE DEF x
<1>5. /\ call' \in [Calls -> CallState] /\ \A c \in cs : call'[c] = x
      /\ \A c \in Calls : c \notin cs => call'[c] = call[c]
  BY <1>1, <1>2, <1>4 DEF x
<1>6. CallsTypeOK' BY <1>5 DEF CallsTypeOK
<1>7. OneConstructs' BY <1>3, <1>5 DEF OneConstructs
<1>8. UnaskedIsIdle'
  <2> SUFFICES ASSUME NEW r \in Requests, request'[r] = Unasked, NEW d \in RestDex
               PROVE  call'[<<r, d>>] = Never
    BY DEF UnaskedIsIdle
  <2>1. call[<<r, d>>] = Never BY DEF UnaskedIsIdle
  <2>2. <<r, d>> \in Calls BY DEF Calls
  <2> QED BY <1>5, <2>1, <2>2
<1>9. CooldownCoversBackoff' BY <1>3, <1>5 DEF CooldownCoversBackoff
<1> QED BY <1>6, <1>7, <1>8, <1>9

\* Finding the lock free, waiting for the cooldown, waking up, taking a permit.
LEMMA CallMovesOn ==
  ASSUME CallsInv, NEW c \in Calls,
         \/ EnsureInitialized(c) \/ InitLocked(c) \/ AwaitGlobalCooldown(c)
         \/ Wakes(c) \/ TakePermit(c)
  PROVE  CallsInv'
<1>1. /\ CallsTypeOK /\ OneConstructs BY DEF CallsInv
<1>2. call[c] \in CallState /\ cooldown \in Nat /\ cooldown <= cooldown
  BY <1>1 DEF CallsTypeOK
<1> DEFINE Moved(at) == [call[c] EXCEPT !.at = at]
           Stages == {"attempt", "lock", "cooling", "permit", "weight"}
<1>3. \A at \in Stages :
        /\ Moved(at) \in CallState /\ Moved(at).init = call[c].init
        /\ Moved(at).at = at
  BY <1>2 DEF CallState
<1>4. ASSUME NEW at \in Stages, Goes(c, at),
             UNCHANGED <<info, initLock, request, names, cooldown>>,
             call[c].at # "idle",
             call[c].init => at \in {"permit", "weight"},
             ~info /\ ~call[c].init => at = "lock"
      PROVE  CallsInv'
  <2>1. call' = [call EXCEPT ![c] = Moved(at)]
    BY <1>1, <1>4 DEF Goes, CallsTypeOK
  <2>2. call[c] # Never BY <1>4 DEF Never
  <2>3. cooldown' \in Nat /\ cooldown <= cooldown' BY <1>2, <1>4
  <2> DEFINE x == Moved(at)
  <2>4. /\ x \in CallState /\ x.init = call[c].init /\ x.at = at /\ call' = [call EXCEPT ![c] = x]
    BY <1>3, <2>1
  <2> HIDE DEF x
  <2> QED BY <1>4, <2>2, <2>3, <2>4, OneCallMoves
<1>5. CASE EnsureInitialized(c)
  <2>1. /\ call[c].at = "called" /\ (info => Goes(c, "attempt")) /\ (~info => Goes(c, "lock"))
        /\ UNCHANGED <<info, initLock, request, names, cooldown>>
    BY <1>5 DEF EnsureInitialized
  <2>2. ~call[c].init BY <1>1, <2>1 DEF OneConstructs
  <2>3. CASE info BY <1>4, <2>1, <2>2, <2>3
  <2>4. CASE ~info BY <1>4, <2>1, <2>2, <2>4
  <2> QED BY <2>3, <2>4
<1>6. CASE InitLocked(c)
  <2>1. /\ call[c].at = "lock" /\ initLock = {}
        /\ UNCHANGED <<info, request, names, cooldown>>
    BY <1>6 DEF InitLocked
  <2>2. ~call[c].init BY <1>1, <2>1 DEF OneConstructs
  <2>3. CASE info
    <3>1. Goes(c, "attempt") /\ UNCHANGED initLock BY <1>6, <2>3 DEF InitLocked
    <3> QED BY <1>4, <2>1, <2>2, <2>3, <3>1
  <2>4. CASE ~info
    <3> DEFINE x == [call[c] EXCEPT !.at = "permit", !.init = TRUE]
    <3>1. initLock' = {c} /\ call' = [call EXCEPT ![c] = x]
      BY <1>1, <1>6, <2>4 DEF InitLocked, CallsTypeOK
    <3>2. x \in CallState /\ x.at = "permit" /\ x.init BY <1>2 DEF CallState
    <3> HIDE DEF x
    <3>3. /\ call' \in [Calls -> CallState] /\ call'[c] = x
          /\ \A d \in Calls : d # c => call'[d] = call[d]
      BY <1>1, <3>1, <3>2 DEF CallsTypeOK
    <3>4. CallsTypeOK' BY <1>1, <2>1, <3>3 DEF CallsTypeOK
    <3>5. OneConstructs' BY <1>1, <2>1, <2>4, <3>1, <3>2, <3>3 DEF OneConstructs
    <3>6. UnaskedIsIdle'
      <4> SUFFICES ASSUME NEW r \in Requests, request[r] = Unasked, NEW d \in RestDex
                   PROVE  call'[<<r, d>>] = Never
        BY <2>1 DEF UnaskedIsIdle
      <4>1. call[<<r, d>>] = Never /\ <<r, d>> \in Calls
        BY DEF UnaskedIsIdle, CallsInv, Calls
      <4>2. <<r, d>> # c BY <2>1, <4>1 DEF Never
      <4> QED BY <3>3, <4>1, <4>2
    <3>7. CooldownCoversBackoff'
      BY <2>1, <3>2, <3>3 DEF CooldownCoversBackoff, CallsInv
    <3> QED BY <3>4, <3>5, <3>6, <3>7 DEF CallsInv
  <2> QED BY <2>3, <2>4
<1>7. CASE AwaitGlobalCooldown(c)
  <2> DEFINE x == [call[c] EXCEPT !.at = IF cooldown > 0 THEN "cooling" ELSE "permit",
                                  !.sleep = cooldown]
  <2>1. /\ call[c].at = "attempt" /\ call' = [call EXCEPT ![c] = x]
        /\ UNCHANGED <<info, initLock, request, names, cooldown>>
    BY <1>1, <1>7 DEF AwaitGlobalCooldown, CallsTypeOK
  <2>2. ~call[c].init /\ info BY <1>1, <2>1 DEF OneConstructs
  <2>3. x \in CallState /\ x.init = call[c].init /\ x.at \in {"cooling", "permit"}
    BY <1>2 DEF CallState
  <2>4. call[c] # Never BY <2>1 DEF Never
  <2>5. cooldown' \in Nat /\ cooldown <= cooldown' BY <1>2, <2>1
  <2> HIDE DEF x
  <2> QED BY <2>1, <2>2, <2>3, <2>4, <2>5, OneCallMoves
<1>8. CASE Wakes(c)
  <2> DEFINE at == CASE call[c].at = "cooling" -> "permit"
                     [] call[c].at = "throttled" -> "weight"
                     [] OTHER -> IF call[c].init THEN "permit" ELSE "attempt"
  <2>1. /\ call[c].at \in {"cooling", "throttled", "backoff"} /\ Goes(c, at)
        /\ UNCHANGED <<info, initLock, request, names, cooldown>>
    BY <1>8 DEF Wakes
  <2>2. /\ at \in Stages /\ (call[c].init => at \in {"permit", "weight"})
    BY <2>1
  <2>3. info \/ call[c].init BY <1>1, <2>1 DEF OneConstructs
  <2> HIDE DEF at
  <2> QED BY <1>4, <2>1, <2>2, <2>3
<1>9. CASE TakePermit(c)
  <2>1. /\ call[c].at = "permit" /\ Goes(c, "weight")
        /\ UNCHANGED <<info, initLock, request, names, cooldown>>
    BY <1>9 DEF TakePermit
  <2>2. info \/ call[c].init BY <1>1, <2>1 DEF OneConstructs
  <2> QED BY <1>4, <2>1, <2>2
<1> QED BY <1>5, <1>6, <1>7, <1>8, <1>9

(***************************************************************************)
(* RestClient: the weights of the rate limiter.  What the window holds is  *)
(* what was dispatched within it, so a call that finds room leaves within  *)
(* the budget.                                                             *)
(***************************************************************************)
WeightsInv ==
    /\ requests \in [Ages -> Nat] /\ dispatched \in [Ages -> Nat]
    /\ current = Total(requests, Ages)
    /\ \A a \in 0..Window : dispatched[a] = requests[a]
    /\ BudgetHolds

Within(f) == Total(f, 0..Window)

\* The total over all ages is the one over the window and the oldest entry.
LEMMA TotalParts ==
  ASSUME NEW f \in [Ages -> Nat]
  PROVE  /\ Total(f, Ages) = Within(f) + f[Window + 1]
         /\ Within(f) \in Nat /\ Total(f, Ages) \in Nat
         /\ Total(f, 0..(Window - 1)) \in Nat
         /\ Within(f) = Total(f, 0..(Window - 1)) + f[Window]
<1>1. Window \in Nat BY RestAssumption
<1>2. /\ IsFiniteSet(Ages) /\ IsFiniteSet(0..Window) /\ IsFiniteSet(0..(Window - 1))
  <2>1. 0 \in Int /\ Window \in Int /\ Window - 1 \in Int /\ Window + 1 \in Int
    BY <1>1
  <2> QED BY <2>1, FS_Interval DEF Ages
<1>3. /\ Ages \ {Window + 1} = 0..Window /\ Window + 1 \in Ages
      /\ (0..Window) \ {Window} = 0..(Window - 1) /\ Window \in 0..Window
      /\ 0..Window \subseteq Ages /\ 0..(Window - 1) \subseteq Ages
  BY <1>1 DEF Ages
<1>4. \A S \in SUBSET Ages : Total(f, S) = SumOver(f, S) BY DEF Total, SumOver
<1>5. SumOver(f, Ages) = f[Window + 1] + SumOver(f, Ages \ {Window + 1})
  BY <1>2, <1>3, SumRemove
<1>6. SumOver(f, 0..Window) = f[Window] + SumOver(f, (0..Window) \ {Window})
  BY <1>2, <1>3, SumRemove
<1>7. SumOver(f, Ages \ {Window + 1}) = SumOver(f, 0..Window) BY <1>3, Zenon
<1>8. SumOver(f, (0..Window) \ {Window}) = SumOver(f, 0..(Window - 1)) BY <1>3, Zenon
<1>9. /\ SumOver(f, Ages) \in Nat /\ SumOver(f, 0..Window) \in Nat
      /\ SumOver(f, 0..(Window - 1)) \in Nat
  BY <1>2, <1>3, SumType
<1>10. f[Window] \in Nat /\ f[Window + 1] \in Nat BY <1>3
<1>11. /\ Total(f, Ages) = SumOver(f, Ages) /\ Within(f) = SumOver(f, 0..Window)
       /\ Total(f, 0..(Window - 1)) = SumOver(f, 0..(Window - 1))
  BY <1>3, <1>4 DEF Within
<1> QED BY <1>5, <1>6, <1>7, <1>8, <1>9, <1>10, <1>11

\* A total depends on the entries it adds up only.
LEMMA TotalEqual ==
  ASSUME NEW f \in [Ages -> Nat], NEW g \in [Ages -> Nat],
         \A a \in 0..Window : f[a] = g[a]
  PROVE  Within(f) = Within(g)
<1>1. Window \in Nat /\ 0..Window \subseteq Ages BY RestAssumption DEF Ages
<1>2. IsFiniteSet(0..Window) BY <1>1, FS_Interval
<1>3. SumOver(f, 0..Window) = SumOver(g, 0..Window) BY <1>1, <1>2, SumEqual
<1> QED BY <1>3 DEF Within, Total, SumOver

\* What a unit of time does to the weights: each entry gets older, the entry of age
\* zero is gone from the window at its end.
LEMMA ShiftProperties ==
  ASSUME NEW f \in [Ages -> Nat], NEW old \in Nat
  PROVE  /\ Shift(f, old) \in [Ages -> Nat]
         /\ Shift(f, old)[Window + 1] = old
         /\ Within(Shift(f, old)) = Total(f, 0..(Window - 1))
<1>1. Window \in Nat BY RestAssumption
<1> DEFINE g == Shift(f, old)
           S == 0..(Window - 1)
           h == [a \in Nat |-> a + 1]
           T == {h[a] : a \in S}
<1>2. g = [a \in Ages |-> CASE a = 0 -> 0 [] a \in 1..Window -> f[a - 1] [] OTHER -> old]
  BY DEF Shift
<1>3. \A a \in 1..Window : a - 1 \in Ages /\ a \in Ages BY <1>1 DEF Ages
<1>4. /\ 0 \in Ages /\ Window + 1 \in Ages
      /\ \A a \in Ages : a = 0 \/ a \in 1..Window \/ a = Window + 1
  BY <1>1 DEF Ages
<1>5. /\ g[0] = 0 /\ g[Window + 1] = old
      /\ \A a \in 1..Window : g[a] = f[a - 1]
  <2>1. g[0] = 0 BY <1>1, <1>2, <1>4
  <2>2. g[Window + 1] = old
    <3>1. Window + 1 # 0 /\ Window + 1 \notin 1..Window BY <1>1
    <3> QED BY <1>2, <1>4, <3>1
  <2>3. ASSUME NEW a \in 1..Window PROVE g[a] = f[a - 1]
    <3>1. a # 0 /\ a \in 1..Window BY <1>1
    <3> QED BY <1>2, <1>3, <3>1
  <2> QED BY <2>1, <2>2, <2>3
<1>6. g \in [Ages -> Nat]
  <2>1. \A a \in Ages : g[a] \in Nat BY <1>3, <1>4, <1>5
  <2>2. DOMAIN g = Ages /\ g = [a \in Ages |-> g[a]] BY <1>2
  <2> HIDE DEF g
  <2> QED BY <2>1, <2>2
<1> HIDE DEF g
<1>7. T = 1..Window
  <2>1. \A a \in S : h[a] \in 1..Window BY <1>1
  <2>2. ASSUME NEW b \in 1..Window PROVE b \in T
    <3>1. b - 1 \in S /\ b - 1 \in Nat /\ (b - 1) + 1 = b BY <1>1
    <3>2. h[b - 1] = b BY <3>1
    <3> HIDE DEF S, h
    <3> QED BY <3>1, <3>2
  <2> QED BY <2>1, <2>2
<1>8. SumOver(f, S) = SumOver(g, T)
  <2>1. IsFiniteSet(S) BY <1>1, FS_Interval
  <2>2. \A a \in S : h[a] = a + 1 /\ a \in Nat /\ a + 1 \in 1..Window
                     /\ (a + 1) - 1 = a /\ a \in Ages
    BY <1>1 DEF Ages
  <2>3. \A a, b \in S : h[a] = h[b] => a = b
    <3> SUFFICES ASSUME NEW a \in S, NEW b \in S, a + 1 = b + 1 PROVE a = b
      BY <2>2
    <3> QED BY <2>2
  <2>4. \A a \in S : f[a] \in Nat /\ f[a] = g[h[a]]
    <3> SUFFICES ASSUME NEW a \in S PROVE f[a] \in Nat /\ f[a] = g[h[a]] OBVIOUS
    <3>1. g[a + 1] = f[(a + 1) - 1] BY <1>5, <2>2
    <3> HIDE DEF S, h
    <3> QED BY <2>2, <3>1
  <2> HIDE DEF S, h
  <2> QED BY <2>1, <2>3, <2>4, SumRename
<1>9. SumOver(g, 0..Window) = g[0] + SumOver(g, (0..Window) \ {0})
  <2>1. IsFiniteSet(0..Window) /\ 0 \in 0..Window /\ \A a \in 0..Window : g[a] \in Nat
    <3>1. 0 \in 0..Window /\ \A a \in 0..Window : a \in Ages BY <1>1 DEF Ages
    <3> QED BY <1>1, <1>6, <3>1, FS_Interval
  <2> QED BY <2>1, SumRemove
<1>10. SumOver(g, (0..Window) \ {0}) = SumOver(g, T)
  <2>1. (0..Window) \ {0} = T BY <1>1, <1>7
  <2> HIDE DEF T
  <2> QED BY <2>1, Zenon
<1>11. SumOver(f, S) \in Nat
  <2>1. IsFiniteSet(S) /\ \A a \in S : f[a] \in Nat
    <3>1. \A a \in S : a \in Ages BY <1>1 DEF Ages
    <3>2. 0 \in Int /\ Window - 1 \in Int BY <1>1
    <3> QED BY <3>1, <3>2, FS_Interval
  <2> HIDE DEF S
  <2> QED BY <2>1, SumType
<1>12. Within(g) = SumOver(g, 0..Window) /\ Total(f, S) = SumOver(f, S)
  BY DEF Within, Total, SumOver
<1> HIDE DEF T
<1>13. Within(g) = Total(f, S) BY <1>5, <1>8, <1>9, <1>10, <1>11, <1>12
<1> QED BY <1>5, <1>6, <1>13 DEF g

\* The wait for weight is a number of units, because the window holds at least what
\* is needed.
LEMMA WaitType ==
  ASSUME NEW f \in [Ages -> Nat], NEW needed \in Nat, needed <= Total(f, Ages)
  PROVE  WaitFor(needed, f) \in Nat
<1> DEFINE enough == {a \in Ages : Total(f, a..(Window + 1)) >= needed}
<1>1. Window \in Nat BY RestAssumption
<1>2. enough \in SUBSET Nat /\ \A a \in enough : a <= Window + 1
  BY <1>1 DEF Ages
<1>3. 0 \in enough BY <1>1, TotalParts DEF Ages
<1>4. WaitFor(needed, f) = Longer(1, Window - Max(enough)) BY DEF WaitFor
<1> HIDE DEF enough
<1>5. Max(enough) \in enough
  <2>1. Window + 1 \in Nat /\ enough # {} BY <1>1, <1>3
  <2> QED BY <1>2, <2>1, MaxProperties
<1> DEFINE m == Max(enough)
<1>6. m \in Nat BY <1>2, <1>5
<1> HIDE DEF m
<1>7. Longer(1, Window - m) \in Nat BY <1>1, <1>6 DEF Longer
<1> QED BY <1>4, <1>7 DEF m

\* A call asks for its weight: it leaves within the budget, or waits.
LEMMA AcquireStep ==
  ASSUME CallsInv, WeightsInv, NEW c \in Calls, Acquire(c)
  PROVE  CallsInv' /\ WeightsInv'
<1> DEFINE w == IF call[c].init THEN InitWeight ELSE CallWeight
           kept == [a \in Ages |-> IF a <= Window THEN requests[a] ELSE 0]
           used == current - (Total(requests, Ages) - Total(kept, Ages))
<1>1. /\ call[c].at = "weight"
      /\ UNCHANGED <<info, initLock, request, names, cooldown>>
      /\ \/ /\ used + w <= MaxWeight
            /\ requests' = [kept EXCEPT ![0] = @ + w]
            /\ current' = used + w
            /\ dispatched' = [dispatched EXCEPT ![0] = @ + w]
            /\ Goes(c, "flight")
         \/ /\ ~(used + w <= MaxWeight)
            /\ requests' = kept /\ current' = used
            /\ call' = [call EXCEPT ![c].at = "throttled",
                         ![c].sleep = WaitFor(used + w - MaxWeight, kept)]
            /\ UNCHANGED dispatched
  BY DEF Acquire
<1>2. Window \in Nat /\ MaxWeight \in Nat /\ w \in Nat /\ w <= MaxWeight
  BY RestAssumption
<1>3. /\ requests \in [Ages -> Nat] /\ dispatched \in [Ages -> Nat]
      /\ current = Total(requests, Ages)
      /\ \A a \in 0..Window : dispatched[a] = requests[a]
      /\ Within(dispatched) <= MaxWeight
  BY DEF WeightsInv, BudgetHolds, Within
<1>4. 0..Window \subseteq Ages /\ Window + 1 \in Ages /\ 0 \in 0..Window /\ 0 \in Ages
  BY <1>2 DEF Ages
<1>5. /\ kept \in [Ages -> Nat] /\ kept[Window + 1] = 0
      /\ \A a \in 0..Window : kept[a] = requests[a] /\ kept[a] = dispatched[a]
  BY <1>2, <1>3, <1>4
<1> HIDE DEF w, kept
<1>6. /\ used = Within(kept) /\ Within(kept) = Within(dispatched)
      /\ used \in Nat /\ used <= MaxWeight /\ used = Total(kept, Ages)
  <2>1. Within(kept) = Within(dispatched) BY <1>3, <1>5, TotalEqual
  <2>2. /\ Total(kept, Ages) = Within(kept) + kept[Window + 1]
        /\ Within(kept) \in Nat /\ Total(kept, Ages) \in Nat
        /\ Total(requests, Ages) \in Nat
    BY <1>3, <1>5, TotalParts
  <2> QED BY <1>3, <1>5, <2>1, <2>2
<1> HIDE DEF used
<1>7. /\ CallsTypeOK /\ OneConstructs BY DEF CallsInv
<1>8. call[c] \in CallState /\ cooldown \in Nat /\ call[c] # Never
      /\ call \in [Calls -> CallState]
  BY <1>1, <1>7 DEF CallsTypeOK, Never
<1>9. info \/ call[c].init BY <1>1, <1>7 DEF OneConstructs
<1>10. CASE used + w <= MaxWeight
  <2>1. /\ requests' = [kept EXCEPT ![0] = @ + w]
        /\ current' = used + w
        /\ dispatched' = [dispatched EXCEPT ![0] = @ + w]
        /\ Goes(c, "flight")
    BY <1>1, <1>10
  <2> DEFINE x == [call[c] EXCEPT !.at = "flight"]
  <2>2. /\ x \in CallState /\ x.init = call[c].init /\ x.at = "flight"
        /\ call' = [call EXCEPT ![c] = x]
    BY <1>8, <2>1 DEF Goes, CallState
  <2> HIDE DEF x
  <2>3. cooldown' \in Nat /\ cooldown <= cooldown' BY <1>1, <1>8
  <2>4. CallsInv' BY <1>1, <1>8, <1>9, <2>2, <2>3, OneCallMoves
  <2>5. /\ requests' \in [Ages -> Nat] /\ dispatched' \in [Ages -> Nat]
        /\ \A a \in 0..Window : dispatched'[a] = requests'[a]
    BY <1>2, <1>3, <1>4, <1>5, <2>1
  <2>6. /\ IsFiniteSet(Ages) /\ IsFiniteSet(0..Window)
    <3>1. 0 \in Int /\ Window \in Int /\ Window + 1 \in Int BY <1>2
    <3> QED BY <3>1, FS_Interval DEF Ages
  <2>7. SumOver([kept EXCEPT ![0] = @ + w], Ages) = SumOver(kept, Ages) + w
    BY <1>2, <1>4, <1>5, <2>6, SumRaise
  <2>8. SumOver([dispatched EXCEPT ![0] = @ + w], 0..Window) = SumOver(dispatched, 0..Window) + w
    BY <1>2, <1>3, <1>4, <2>6, SumRaise
  <2>9. current' = Total(requests', Ages)
    BY <1>6, <2>1, <2>7 DEF Total, SumOver
  <2>10. Within(dispatched') = Within(dispatched) + w
    BY <2>1, <2>8 DEF Within, Total, SumOver
  <2>11. Within(dispatched') <= MaxWeight BY <1>6, <1>10, <2>10
  <2>12. WeightsInv' BY <2>5, <2>9, <2>11 DEF WeightsInv, BudgetHolds, Within
  <2> QED BY <2>4, <2>12
<1>11. CASE ~(used + w <= MaxWeight)
  <2> DEFINE needed == used + w - MaxWeight
             x == [call[c] EXCEPT !.at = "throttled", !.sleep = WaitFor(needed, kept)]
  <2>1. /\ requests' = kept /\ current' = used /\ UNCHANGED dispatched
        /\ call' = [call EXCEPT ![c] = x]
    BY <1>1, <1>8, <1>11
  <2>2. needed \in Nat /\ needed <= Total(kept, Ages) BY <1>2, <1>6, <1>11
  <2> HIDE DEF needed
  <2>3. WaitFor(needed, kept) \in Nat BY <1>5, <2>2, WaitType
  <2>4. x \in CallState /\ x.init = call[c].init /\ x.at = "throttled"
    BY <1>8, <2>3 DEF CallState
  <2> HIDE DEF x
  <2>5. cooldown' \in Nat /\ cooldown <= cooldown' BY <1>1, <1>8
  <2>6. CallsInv' BY <1>1, <1>8, <1>9, <2>1, <2>4, <2>5, OneCallMoves
  <2>7. WeightsInv' BY <1>3, <1>5, <1>6, <2>1 DEF WeightsInv, BudgetHolds
  <2> QED BY <2>6, <2>7
<1> QED BY <1>10, <1>11

\* The exchange answers an ordinary call, with or without success.
LEMMA AnswerStep ==
  ASSUME CallsInv, NEW c \in Calls,
         \/ Answered(c, "some") \/ Answered(c, "empty") \/ Fails(c, "error")
         \/ Fails(c, "unexpected") \/ RateLimited(c)
  PROVE  CallsInv'
<1>1. /\ CallsTypeOK /\ OneConstructs BY DEF CallsInv
<1>2. /\ call[c].at = "flight" /\ ~call[c].init
      /\ UNCHANGED <<info, initLock, request, names>>
  BY DEF Answered, Fails, RateLimited, InFlight
<1>3. /\ call[c] \in CallState /\ cooldown \in Nat /\ call[c] # Never /\ info
      /\ call \in [Calls -> CallState]
  BY <1>1, <1>2 DEF CallsTypeOK, OneConstructs, Never
<1>4. CASE UNCHANGED cooldown /\ \E at \in {"some", "empty", "error", "unexpected"} : Goes(c, at)
  <2>1. PICK at \in {"some", "empty", "error", "unexpected"} : Goes(c, at) BY <1>4
  <2> DEFINE x == [call[c] EXCEPT !.at = at]
  <2>2. /\ x \in CallState /\ x.init = call[c].init /\ x.at = at
        /\ call' = [call EXCEPT ![c] = x]
    BY <1>3, <2>1 DEF Goes, CallState, Failures
  <2> HIDE DEF x
  <2>3. cooldown' \in Nat /\ cooldown <= cooldown' BY <1>3, <1>4
  <2>4. x.at # "backoff" /\ ~x.init BY <1>2, <2>2
  <2> QED BY <1>2, <1>3, <2>2, <2>3, <2>4, OneCallMoves
<1>5. CASE RateLimited(c)
  <2> DEFINE last == call[c].attempt = LastAttempt
             pause == IF last THEN FinalCooldown ELSE Delay[call[c].attempt]
             x == IF last THEN [call[c] EXCEPT !.at = "limited"]
                  ELSE [call[c] EXCEPT !.at = "backoff", !.attempt = call[c].attempt + 1, !.sleep = pause]
  <2>1. cooldown' = Longer(cooldown, pause) /\ call' = [call EXCEPT ![c] = x]
    <3>1. cooldown' = Longer(cooldown, pause) BY <1>5 DEF RateLimited
    <3>2. call' = [call EXCEPT ![c] = x]
      <4>1. call' = [call EXCEPT ![c] = IF last THEN [@ EXCEPT !.at = "limited"]
                       ELSE [@ EXCEPT !.at = "backoff", !.attempt = call[c].attempt + 1, !.sleep = pause]]
        BY <1>5, Zenon DEF RateLimited
      <4>2. call'[c] = x BY <1>3, <4>1
      <4>3. call' = [call EXCEPT ![c] = call'[c]] BY <1>3, <4>1
      <4> HIDE DEF x
      <4> QED BY <4>2, <4>3
    <3> QED BY <3>1, <3>2
  <2>2. call[c].attempt \in 0..LastAttempt /\ LastAttempt \in Nat /\ FinalCooldown \in Nat
    BY <1>3, RestAssumption DEF CallState
  <2>3. pause \in Nat BY <2>2, DelayType
  <2> HIDE DEF pause
  <2>4. cooldown' \in Nat /\ cooldown <= cooldown' /\ pause <= cooldown'
    BY <1>3, <2>1, <2>3 DEF Longer
  <2>5. /\ x \in CallState /\ x.init = call[c].init
        /\ x.at \in {"limited", "backoff"}
        /\ x.at = "backoff" => x.sleep = pause
    <3>1. CASE last BY <1>3, <3>1 DEF CallState, Failures
    <3>2. CASE ~last
      <4>1. call[c].attempt + 1 \in 0..LastAttempt BY <2>2, <3>2
      <4> QED BY <1>3, <2>3, <3>2, <4>1 DEF CallState
    <3> QED BY <3>1, <3>2
  <2> HIDE DEF x, last
  <2>6. ~x.init /\ (x.at = "backoff" => x.sleep <= cooldown') BY <1>2, <2>4, <2>5
  <2> QED BY <1>2, <1>3, <2>1, <2>4, <2>5, <2>6, OneCallMoves
<1> QED BY <1>4, <1>5 DEF Answered, Fails

\* The construction of the client ends, is retried or is given up.
LEMMA ConstructStep ==
  ASSUME CallsInv, NEW c \in Calls, Constructed(c) \/ ConstructFails(c) \/ ConstructRaises(c)
  PROVE  CallsInv'
<1>1. /\ CallsTypeOK /\ OneConstructs BY DEF CallsInv
<1>2. /\ call[c].at = "flight" /\ call[c].init
      /\ UNCHANGED <<request, names, cooldown>>
  BY DEF Constructed, ConstructFails, ConstructRaises, InFlight
<1>3. /\ call[c] \in CallState /\ cooldown \in Nat /\ call[c] # Never /\ ~info
      /\ call \in [Calls -> CallState] /\ initLock = {c}
  BY <1>1, <1>2 DEF CallsTypeOK, OneConstructs, Never
<1>4. ASSUME NEW x \in CallState, call' = [call EXCEPT ![c] = x], ~x.init,
             x.at \in {"attempt", "error", "unexpected"}, initLock' = {},
             (info' = info /\ x.at # "attempt") \/ info' = TRUE
      PROVE  CallsInv'
  <2>1. /\ call' \in [Calls -> CallState] /\ call'[c] = x
        /\ \A d \in Calls : d # c => call'[d] = call[d] /\ ~call[d].init
    BY <1>1, <1>3, <1>4 DEF OneConstructs
  <2>2. CallsTypeOK' BY <1>1, <1>2, <1>4, <2>1 DEF CallsTypeOK
  <2>3. OneConstructs' BY <1>1, <1>3, <1>4, <2>1 DEF OneConstructs
  <2>4. UnaskedIsIdle'
    <3> SUFFICES ASSUME NEW r \in Requests, request[r] = Unasked, NEW d \in RestDex
                 PROVE  call'[<<r, d>>] = Never
      BY <1>2 DEF UnaskedIsIdle
    <3>1. call[<<r, d>>] = Never /\ <<r, d>> \in Calls
      BY DEF UnaskedIsIdle, CallsInv, Calls
    <3> QED BY <1>3, <2>1, <3>1
  <2>5. CooldownCoversBackoff'
    BY <1>2, <1>4, <2>1 DEF CooldownCoversBackoff, CallsInv
  <2> QED BY <2>2, <2>3, <2>4, <2>5 DEF CallsInv
<1>5. 0 \in 0..LastAttempt /\ LastAttempt \in Nat BY RestAssumption
<1>6. \A at \in {"attempt", "error", "unexpected"} :
        /\ [Never EXCEPT !.at = at] \in CallState /\ [Never EXCEPT !.at = at].at = at
        /\ ~[Never EXCEPT !.at = at].init
  BY <1>5 DEF Never, CallState, Failures
<1>7. CASE Constructed(c)
  BY <1>4, <1>6, <1>7 DEF Constructed
<1>8. CASE ConstructFails(c) /\ call[c].attempt = LastAttempt
  <2>1. /\ initLock' = {} /\ info' = info
        /\ call' = [call EXCEPT ![c] = [Never EXCEPT !.at = "error"]]
    BY <1>8 DEF ConstructFails
  <2> QED BY <1>4, <1>6, <2>1
<1>9. CASE ConstructFails(c) /\ call[c].attempt # LastAttempt
  <2> DEFINE x == [at |-> "backoff", init |-> TRUE, attempt |-> call[c].attempt + 1,
                   sleep |-> Delay[call[c].attempt]]
  <2>1. /\ UNCHANGED <<info, initLock>> /\ call' = [call EXCEPT ![c] = x]
    BY <1>3, <1>9 DEF ConstructFails
  <2>2. call[c].attempt \in 0..LastAttempt BY <1>3 DEF CallState
  <2>3. call[c].attempt + 1 \in 0..LastAttempt /\ Delay[call[c].attempt] \in Nat
    BY <1>5, <1>9, <2>2, DelayType
  <2>4. x \in CallState /\ x.init /\ x.at = "backoff" BY <2>3 DEF CallState
  <2> HIDE DEF x
  <2>5. cooldown' \in Nat /\ cooldown <= cooldown' /\ x.init = call[c].init
    BY <1>2, <1>3, <2>4
  <2> QED BY <1>2, <1>3, <2>1, <2>4, <2>5, OneCallMoves
<1>10. CASE ConstructRaises(c)
  <2>1. /\ initLock' = {} /\ info' = info
        /\ call' = [call EXCEPT ![c] = [Never EXCEPT !.at = "unexpected"]]
    BY <1>10 DEF ConstructRaises
  <2> QED BY <1>4, <1>6, <2>1
<1> QED BY <1>7, <1>8, <1>9, <1>10

\* A request is made, gets the names of the dexes, or ends.
LEMMA RequestStep ==
  ASSUME CallsInv, RequestMoves \/ Asks PROVE CallsInv'
<1>1. /\ CallsTypeOK /\ OneConstructs /\ UnaskedIsIdle /\ CooldownCoversBackoff
      /\ NativeDex \in RestDex /\ "names" \notin RestDex
  BY RestAssumption DEF CallsInv
<1>2. UNCHANGED <<info, initLock, cooldown>>
  BY DEF RequestMoves, Asks, NamesArrive, NamesFail, GatherEnds, AskSnapshots, AskPositions
<1>3. ASSUME NEW r \in Requests, NEW dexes \in SUBSET RestDex, dexes # {},
             request[r] = Unasked, Gather(r, dexes), names' \subseteq RestDex
      PROVE  CallsInv'
  <2> DEFINE cs == {r} \X dexes
  <2>1. Starts(cs) /\ request' = [request EXCEPT ![r].dexes = dexes]
    BY <1>3 DEF Gather
  <2>2. cs \in SUBSET Calls BY <1>3 DEF Calls
  <2>3. \A c \in cs : ~call[c].init
    <3>1. \A d \in dexes : call[<<r, d>>] = Never BY <1>1, <1>3 DEF UnaskedIsIdle
    <3> QED BY <3>1 DEF Never
  <2>4. request[r].outcome = "none" /\ request[r].dexes = {} BY <1>3 DEF Unasked
  <2>5. /\ request' \in [Requests -> [dexes : SUBSET RestDex,
                                      outcome : {"none", "list", "limited", "raised"}]]
        /\ request'[r].dexes = dexes
        /\ \A q \in Requests : q # r => request'[q] = request[q]
    BY <1>1, <1>3, <2>1 DEF CallsTypeOK
  <2>6. request'[r] # Unasked BY <1>3, <2>5 DEF Unasked
  <2>7. \A q \in Requests : request'[q] = Unasked =>
          request[q] = Unasked /\ \A d \in RestDex : <<q, d>> \notin cs
    BY <2>5, <2>6
  <2> HIDE DEF cs
  <2> QED BY <1>2, <1>3, <2>1, <2>2, <2>3, <2>5, <2>7, CallsStart
<1>4. CASE AskSnapshots
  <2>1. request["snapshots"] = Unasked /\ call[NamesCall] = Never /\ UNCHANGED names
    BY <1>4 DEF AskSnapshots
  <2>2. CASE names = {}
    <3>1. Starts({NamesCall}) /\ UNCHANGED request BY <1>4, <2>2 DEF AskSnapshots
    <3>2. {NamesCall} \in SUBSET Calls /\ \A c \in {NamesCall} : ~call[c].init
      BY <2>1 DEF Calls, Never
    <3>3. \A q \in Requests, d \in RestDex : <<q, d>> \notin {NamesCall}
      BY <1>1 DEF NamesCall
    <3>4. /\ names' \subseteq RestDex
          /\ request' \in [Requests -> [dexes : SUBSET RestDex,
                                        outcome : {"none", "list", "limited", "raised"}]]
          /\ \A q \in Requests : request'[q] = Unasked =>
               request[q] = Unasked /\ \A d \in RestDex : <<q, d>> \notin {NamesCall}
      BY <1>1, <2>1, <3>1, <3>3 DEF CallsTypeOK
    <3> QED BY <1>2, <3>1, <3>2, <3>4, CallsStart
  <2>3. CASE names # {}
    <3>1. Gather("snapshots", {NativeDex} \union names) BY <1>4, <2>3 DEF AskSnapshots
    <3>2. "snapshots" \in Requests /\ {NativeDex} \union names \in SUBSET RestDex
          /\ {NativeDex} \union names # {} /\ names' \subseteq RestDex
      BY <1>1, <2>1 DEF Requests, CallsTypeOK
    <3> QED BY <1>3, <2>1, <3>1, <3>2
  <2> QED BY <2>2, <2>3
<1>5. CASE \E found \in SUBSET (RestDex \ {NativeDex}) : NamesArrive(found)
  <2>1. PICK found \in SUBSET (RestDex \ {NativeDex}) : NamesArrive(found) BY <1>5
  <2>2. /\ request["snapshots"] = Unasked /\ names' = found
        /\ Gather("snapshots", {NativeDex} \union names')
    BY <2>1 DEF NamesArrive
  <2>3. "snapshots" \in Requests /\ {NativeDex} \union names' \in SUBSET RestDex
        /\ {NativeDex} \union names' # {} /\ names' \subseteq RestDex
    BY <1>1, <2>2 DEF Requests
  <2> QED BY <1>3, <2>2, <2>3
<1>6. CASE \E active \in SUBSET (RestDex \ {NativeDex}) : AskPositions(active)
  <2>1. PICK active \in SUBSET (RestDex \ {NativeDex}) : AskPositions(active) BY <1>6
  <2> DEFINE dexes == {NativeDex} \union (active \intersect names)
  <2>2. /\ request["positions"] = Unasked /\ UNCHANGED names
        /\ Gather("positions", dexes)
    BY <2>1 DEF AskPositions
  <2>3. "positions" \in Requests /\ dexes \in SUBSET RestDex /\ dexes # {}
        /\ names' \subseteq RestDex
    BY <1>1, <2>2 DEF Requests, CallsTypeOK
  <2> HIDE DEF dexes
  <2> QED BY <1>3, <2>2, <2>3
<1>7. CASE NamesFail \/ \E r \in Requests : GatherEnds(r)
  <2>1. /\ UNCHANGED <<call, names>>
        /\ \E r \in Requests, o \in {"list", "limited", "raised"} :
             request' = [request EXCEPT ![r].outcome = o]
    BY <1>7 DEF NamesFail, GatherEnds, Requests
  <2>2. PICK r \in Requests, o \in {"list", "limited", "raised"} :
          request' = [request EXCEPT ![r].outcome = o]
    BY <2>1
  <2>3. CallsTypeOK'
    <3>1. request' \in [Requests -> [dexes : SUBSET RestDex,
                                    outcome : {"none", "list", "limited", "raised"}]]
      BY <1>1, <2>2 DEF CallsTypeOK
    <3> QED BY <1>1, <1>2, <2>1, <3>1 DEF CallsTypeOK
  <2>4. request'[r] # Unasked
    <3>1. request'[r].outcome = o BY <1>1, <2>2 DEF CallsTypeOK
    <3> QED BY <3>1 DEF Unasked
  <2>5. UnaskedIsIdle'
    BY <1>1, <2>1, <2>2, <2>4 DEF UnaskedIsIdle, CallsTypeOK
  <2> QED BY <1>1, <1>2, <2>1, <2>3, <2>5
          DEF CallsInv, OneConstructs, CooldownCoversBackoff
<1> QED BY <1>4, <1>5, <1>6, <1>7 DEF RequestMoves, Asks

\* A unit of time passes: back-offs and the shared cooldown run down together, and
\* the window moves on.
LEMMA SecondStep ==
  ASSUME CallsInv, WeightsInv, Second PROVE CallsInv' /\ WeightsInv'
<1>1. /\ call' = [c \in Calls |-> [call[c] EXCEPT !.sleep = IF @ > 0 THEN @ - 1 ELSE 0]]
      /\ cooldown' = IF cooldown > 0 THEN cooldown - 1 ELSE 0
      /\ requests' = Shift(requests, requests[Window] + requests[Window + 1])
      /\ dispatched' = Shift(dispatched, 0)
      /\ UNCHANGED <<info, initLock, request, names, current>>
  BY DEF Second
<1>2. /\ CallsTypeOK /\ OneConstructs /\ UnaskedIsIdle /\ CooldownCoversBackoff
  BY DEF CallsInv
<1>3. call \in [Calls -> CallState] /\ cooldown \in Nat BY <1>2 DEF CallsTypeOK
<1>4. ASSUME NEW c \in Calls
      PROVE  /\ call'[c] \in CallState /\ call'[c].at = call[c].at
             /\ call'[c].init = call[c].init /\ call'[c].attempt = call[c].attempt
             /\ call[c].sleep \in Nat
             /\ call'[c].sleep = IF call[c].sleep > 0 THEN call[c].sleep - 1 ELSE 0
  <2> DEFINE s == IF call[c].sleep > 0 THEN call[c].sleep - 1 ELSE 0
  <2>1. call[c] \in CallState /\ call[c].sleep \in Nat BY <1>3 DEF CallState
  <2>2. s \in Nat BY <2>1
  <2>3. call'[c] = [call[c] EXCEPT !.sleep = s] BY <1>1
  <2> HIDE DEF s
  <2>4. /\ call'[c] \in CallState /\ call'[c].at = call[c].at
        /\ call'[c].init = call[c].init /\ call'[c].attempt = call[c].attempt
        /\ call'[c].sleep = s
    BY <2>1, <2>2, <2>3 DEF CallState
  <2> QED BY <2>1, <2>4 DEF s
<1>5. CallsTypeOK'
  <2>1. call' = [c \in Calls |-> call'[c]] BY <1>1
  <2>2. call' \in [Calls -> CallState] BY <1>4, <2>1
  <2>3. cooldown' \in Nat BY <1>1, <1>3
  <2> QED BY <1>1, <1>2, <2>2, <2>3 DEF CallsTypeOK
<1>6. OneConstructs' BY <1>1, <1>2, <1>4 DEF OneConstructs
<1>7. UnaskedIsIdle'
  <2> SUFFICES ASSUME NEW r \in Requests, request[r] = Unasked, NEW d \in RestDex
               PROVE  call'[<<r, d>>] = Never
    BY <1>1 DEF UnaskedIsIdle
  <2>1. call[<<r, d>>] = Never /\ <<r, d>> \in Calls BY <1>2 DEF UnaskedIsIdle, Calls
  <2> QED BY <1>1, <2>1 DEF Never
<1>8. CooldownCoversBackoff'
  <2> SUFFICES ASSUME NEW c \in Calls, call'[c].at = "backoff", ~call'[c].init
               PROVE  call'[c].sleep <= cooldown'
    BY DEF CooldownCoversBackoff
  <2>1. call[c].sleep <= cooldown BY <1>2, <1>4 DEF CooldownCoversBackoff
  <2> QED BY <1>1, <1>3, <1>4, <2>1
<1>9. WeightsInv'
  <2>1. /\ requests \in [Ages -> Nat] /\ dispatched \in [Ages -> Nat]
        /\ current = Total(requests, Ages)
        /\ \A a \in 0..Window : dispatched[a] = requests[a]
        /\ Within(dispatched) <= MaxWeight
        /\ Window \in Nat /\ MaxWeight \in Nat
    BY RestAssumption DEF WeightsInv, BudgetHolds, Within
  <2>2. Window \in Ages /\ Window + 1 \in Ages BY <2>1 DEF Ages
  <2> DEFINE old == requests[Window] + requests[Window + 1]
  <2>3. old \in Nat /\ requests[Window] \in Nat /\ requests[Window + 1] \in Nat
    BY <2>1, <2>2
  <2>4. requests' = Shift(requests, old) /\ dispatched' = Shift(dispatched, 0)
    BY <1>1
  <2> HIDE DEF old
  <2>5. /\ requests' \in [Ages -> Nat] /\ requests'[Window + 1] = old
        /\ Within(requests') = Total(requests, 0..(Window - 1))
    BY <2>1, <2>3, <2>4, ShiftProperties
  <2>6. /\ dispatched' \in [Ages -> Nat]
        /\ Within(dispatched') = Total(dispatched, 0..(Window - 1))
    BY <2>1, <2>4, ShiftProperties
  <2>7. \A a \in 0..Window : dispatched'[a] = requests'[a]
    <3> SUFFICES ASSUME NEW a \in 0..Window PROVE dispatched'[a] = requests'[a] OBVIOUS
    <3>1. a \in Ages /\ (a = 0 \/ a \in 1..Window) BY <2>1 DEF Ages
    <3>2. CASE a = 0 BY <2>1, <2>4, <3>1, <3>2 DEF Shift
    <3>3. CASE a \in 1..Window
      <4>1. a - 1 \in 0..Window /\ a # 0 BY <2>1, <3>3
      <4> QED BY <2>1, <2>4, <3>1, <3>3, <4>1 DEF Shift
    <3> QED BY <3>1, <3>2, <3>3
  <2>8. current' = Total(requests', Ages)
    <3>1. /\ Total(requests', Ages) = Within(requests') + requests'[Window + 1]
      BY <2>5, TotalParts
    <3>2. /\ Total(requests, Ages) = Within(requests) + requests[Window + 1]
          /\ Within(requests) = Total(requests, 0..(Window - 1)) + requests[Window]
          /\ Total(requests, 0..(Window - 1)) \in Nat
      BY <2>1, TotalParts
    <3> QED BY <1>1, <2>1, <2>3, <2>5, <3>1, <3>2 DEF old
  <2>9. Within(dispatched') <= MaxWeight
    <3>1. /\ Within(dispatched) = Total(dispatched, 0..(Window - 1)) + dispatched[Window]
          /\ Total(dispatched, 0..(Window - 1)) \in Nat
      BY <2>1, TotalParts
    <3>2. dispatched[Window] \in Nat BY <2>1, <2>2
    <3> QED BY <2>1, <2>6, <3>1, <3>2
  <2> QED BY <2>5, <2>6, <2>7, <2>8, <2>9 DEF WeightsInv, BudgetHolds, Within
<1> QED BY <1>5, <1>6, <1>7, <1>8, <1>9 DEF CallsInv

\* The reader starts with nothing called and nothing weighed.
LEMMA RestStart ==
  ASSUME RestInit PROVE CallsInv /\ WeightsInv
<1>1. Never \in CallState
  <2>1. 0 \in 0..LastAttempt BY RestAssumption
  <2> QED BY <2>1 DEF Never, CallState
<1>2. Never.at = "idle" /\ Never.init = FALSE BY DEF Never
<1>3. call \in [Calls -> CallState] /\ \A c \in Calls : call[c] = Never
  BY <1>1 DEF RestInit
<1>4. Unasked \in [dexes : SUBSET RestDex, outcome : {"none", "list", "limited", "raised"}]
  BY DEF Unasked
<1>5. CallsTypeOK BY <1>3, <1>4 DEF RestInit, CallsTypeOK
<1>6. OneConstructs BY <1>2, <1>3 DEF RestInit, OneConstructs
<1>7. UnaskedIsIdle BY <1>3 DEF UnaskedIsIdle, Calls
<1>8. CooldownCoversBackoff BY <1>2, <1>3 DEF CooldownCoversBackoff
<1>9. WeightsInv
  <2>1. Window \in Nat /\ MaxWeight \in Nat BY RestAssumption
  <2>2. /\ IsFiniteSet(Ages) /\ IsFiniteSet(0..Window) /\ 0..Window \subseteq Ages
    <3>1. 0 \in Int /\ Window \in Int /\ Window + 1 \in Int BY <2>1
    <3> QED BY <2>1, <3>1, FS_Interval DEF Ages
  <2>3. /\ requests \in [Ages -> Nat] /\ dispatched \in [Ages -> Nat] /\ current = 0
        /\ \A a \in Ages : requests[a] = 0 /\ dispatched[a] = 0
    BY DEF RestInit
  <2>4. SumOver(requests, Ages) = 0 BY <2>2, <2>3, SumZero
  <2>5. SumOver(dispatched, 0..Window) = 0 BY <2>2, <2>3, SumZero
  <2>6. BudgetHolds BY <2>1, <2>5 DEF BudgetHolds, Total, SumOver
  <2>7. current = Total(requests, Ages) BY <2>3, <2>4 DEF Total, SumOver
  <2> QED BY <2>2, <2>3, <2>6, <2>7 DEF WeightsInv
<1> QED BY <1>5, <1>6, <1>7, <1>8, <1>9 DEF CallsInv

\* Every step keeps both invariants.
LEMMA RestStep ==
  ASSUME CallsInv, WeightsInv, [RestNext]_restVars
  PROVE  CallsInv' /\ WeightsInv'
<1>1. ASSUME UNCHANGED limiter PROVE WeightsInv'
  BY <1>1 DEF limiter, WeightsInv, BudgetHolds
<1>2. CASE UNCHANGED restVars
  <2>1. CallsInv'
    BY <1>2 DEF restVars, CallsInv, CallsTypeOK, OneConstructs, UnaskedIsIdle,
                CooldownCoversBackoff
  <2> QED BY <1>1, <1>2, <2>1 DEF restVars
<1>3. CASE \E c \in Calls : CallMoves(c)
  <2>1. PICK c \in Calls : CallMoves(c) BY <1>3
  <2>2. CASE Acquire(c) BY <2>2, AcquireStep
  <2>3. CASE \/ EnsureInitialized(c) \/ InitLocked(c) \/ AwaitGlobalCooldown(c)
             \/ Wakes(c) \/ TakePermit(c)
    <3>1. UNCHANGED limiter
      BY <2>3 DEF EnsureInitialized, InitLocked, AwaitGlobalCooldown, Wakes, TakePermit
    <3> QED BY <1>1, <2>3, <3>1, CallMovesOn
  <2> QED BY <2>1, <2>2, <2>3 DEF CallMoves
<1>4. CASE \E c \in Calls : CallAnswered(c)
  <2>1. PICK c \in Calls : CallAnswered(c) BY <1>4
  <2>2. UNCHANGED limiter
    BY <2>1 DEF CallAnswered, Constructed, ConstructFails, ConstructRaises, Answered, Fails, RateLimited
  <2> QED BY <1>1, <2>1, <2>2, AnswerStep, ConstructStep DEF CallAnswered
<1>5. CASE RequestMoves \/ Asks
  <2>1. UNCHANGED limiter
    BY <1>5 DEF RequestMoves, Asks, NamesArrive, NamesFail, GatherEnds, AskSnapshots,
                AskPositions
  <2> QED BY <1>1, <1>5, <2>1, RequestStep
<1>6. CASE Second BY <1>6, SecondStep
<1> QED BY <1>2, <1>3, <1>4, <1>5, <1>6 DEF RestNext

\* Both invariants hold in every reachable state.
LEMMA RestInvariants == RestSpec => [](CallsInv /\ WeightsInv)
<1>1. RestInit => CallsInv /\ WeightsInv BY RestStart
<1>2. (CallsInv /\ WeightsInv) /\ [RestNext]_restVars => (CallsInv /\ WeightsInv)'
  BY RestStep
<1> QED BY <1>1, <1>2, PTL DEF RestSpec

\* The weight that leaves within any window stays in the budget, for every budget,
\* window and number of calls (rate_limiter.py:53-82).
THEOREM BudgetIsKept == RestSpec => []BudgetHolds
<1>1. CallsInv /\ WeightsInv => BudgetHolds BY DEF WeightsInv
<1> QED BY <1>1, RestInvariants, PTL

\* The client is constructed once, under the lock, before any call uses it
\* (client.py:110-117).
THEOREM ClientIsConstructedOnce == RestSpec => []InitBeforeUse
<1>1. ASSUME CallsInv PROVE InitBeforeUse
  <2>1. OneConstructs BY <1>1 DEF CallsInv
  <2>2. {c \in Calls : call[c].init} = initLock BY <2>1 DEF OneConstructs
  <2>3. Cardinality(initLock) <= 1
    <3>1. CASE initLock = {} BY <3>1, FS_EmptySet
    <3>2. CASE initLock # {}
      <4>1. PICK c \in initLock : TRUE BY <3>2
      <4>2. initLock = {c} BY <2>1 DEF OneConstructs
      <4> QED BY <4>2, FS_Singleton
    <3> QED BY <3>1, <3>2
  <2>4. Cardinality({c \in Calls : call[c].init}) <= 1 BY <2>2, <2>3
  <2> QED BY <2>1, <2>4 DEF OneConstructs, InitBeforeUse
<1> QED BY <1>1, RestInvariants, PTL

\* The shared cooldown outlasts every back-off after a 429 (client.py:170-175).
THEOREM CooldownCovers == RestSpec => []CooldownCoversBackoff
<1>1. CallsInv => CooldownCoversBackoff BY DEF CallsInv
<1> QED BY <1>1, RestInvariants, PTL

\* Nothing waits for a lock or a permit whose holder cannot go on (client.py:110-146).
THEOREM NothingIsStuck == RestSpec => []NeverStuck
<1>1. ASSUME CallsInv PROVE NeverStuck
  <2> DEFINE going(c) == Ready(c) \/ c \in InFlight \/ call[c].sleep > 0
  <2>1. OneConstructs /\ call \in [Calls -> CallState]
    BY <1>1 DEF CallsInv, CallsTypeOK
  <2>2. Permits \in Nat /\ Permits > 0 BY RestAssumption
  <2>3. ASSUME NEW c \in Calls,
               call[c].at \in {"called", "attempt", "weight", "flight", "cooling",
                              "throttled", "backoff"}
        PROVE  going(c)
    <3>1. call[c].sleep \in Nat BY <2>1 DEF CallState
    <3> QED BY <2>3, <3>1 DEF Ready, InFlight
  <2>4. ASSUME NEW c \in Calls, call[c].at = "permit", ~going(c)
        PROVE  \E h \in Permitted : going(h)
    <3>1. ~(Cardinality(Permitted) < Permits) BY <2>4 DEF Ready
    <3>2. Permitted # {} BY <2>2, <3>1, FS_EmptySet
    <3>3. PICK h \in Permitted : TRUE BY <3>2
    <3>4. h \in Calls /\ call[h].at \in {"weight", "throttled", "flight"}
      BY DEF Permitted
    <3>5. going(h) BY <2>3, <3>4
    <3> QED BY <3>5
  <2>5. ASSUME NEW c \in Calls, call[c].at = "lock", ~going(c)
        PROVE  \E h \in initLock : going(h)
    <3>1. initLock # {} BY <2>5 DEF Ready
    <3>2. PICK h \in initLock : TRUE BY <3>1
    <3>3. /\ h \in Calls /\ ~info
          /\ call[h].at \in {"permit", "weight", "throttled", "flight", "backoff"}
      BY <2>1 DEF OneConstructs
    <3>4. CASE call[h].at = "permit"
      <4>1. \A d \in Permitted : d = h
        BY <2>1, <3>3 DEF OneConstructs, Permitted
      <4>2. Permitted = {} BY <3>4, <4>1 DEF Permitted
      <4>3. Cardinality(Permitted) < Permits BY <2>2, <4>2, FS_EmptySet
      <4>4. going(h) BY <3>4, <4>3 DEF Ready
      <4> QED BY <4>4
    <3>5. CASE call[h].at # "permit"
      <4>1. going(h) BY <2>3, <3>3, <3>5
      <4> QED BY <4>1
    <3> QED BY <3>4, <3>5
  <2>6. \A c \in Calls : call[c].at \in {"idle", "called", "lock", "attempt", "cooling",
          "permit", "weight", "throttled", "flight", "backoff", "some", "empty"} \union Failures
    BY <2>1 DEF CallState
  <2> SUFFICES ASSUME NEW c \in Calls,
                      call[c].at \notin {"idle", "some", "empty"} \union Failures
               PROVE  \/ going(c)
                      \/ call[c].at = "lock" /\ \E h \in initLock : going(h)
                      \/ call[c].at = "permit" /\ \E h \in Permitted : going(h)
    BY DEF NeverStuck
  <2> HIDE DEF going
  <2> QED BY <2>3, <2>4, <2>5, <2>6
<1> QED BY <1>1, RestInvariants, PTL

(***************************************************************************)
(* SettingsStore: a PATCH of a setting and the write of its override.      *)
(***************************************************************************)

(* The handlers that wait will write the live value last: a pending write    *)
(* that is followed by no other one carries what the page shows.             *)
LastWriteIsLive ==
    saving # <<>> => live = Loaded(saving[Len(saving)])

SettingsTypeOK ==
    /\ live \in SettingValue
    /\ override \in SettingValue \union {Invalid, NoOverride}
    /\ saving \in Seq(SettingValue \union {NoOverride})
    /\ unsaved \in BOOLEAN

SettingsInv == SettingsTypeOK /\ LastWriteIsLive /\ SavedMatchesLive

(* What the live value is after a handler has appended its write.            *)
LEMMA WriteAppended ==
    ASSUME NEW row \in SettingValue \union {NoOverride}, SettingsInv,
           saving' = Append(saving, row), live' = Loaded(row),
           UNCHANGED <<override, unsaved>>
    PROVE  SettingsInv'
<1>1. /\ saving' \in Seq(SettingValue \union {NoOverride})
      /\ saving' # <<>> /\ saving'[Len(saving')] = row
  BY DEF SettingsInv, SettingsTypeOK
<1>2. live' \in SettingValue
  BY SettingsAssumption DEF SettingsAssumption, Loaded
<1> QED BY <1>1, <1>2 DEF SettingsInv, SettingsTypeOK, LastWriteIsLive, SavedMatchesLive

(* Whatever order the edits, the failed writes and the restarts come in, a   *)
(* restart with nothing pending and nothing failed loads the live value.     *)
THEOREM SettingsAgree == SettingsSpec => []SavedMatchesLive
<1> USE SettingsAssumption DEF SettingsAssumption
<1>1. SettingsInit => SettingsInv
  BY DEF SettingsInit, SettingsInv, SettingsTypeOK, LastWriteIsLive, SavedMatchesLive, Loaded
<1>2. SettingsInv /\ [SettingsNext]_settingsVars => SettingsInv'
  <2> SUFFICES ASSUME SettingsInv, [SettingsNext]_settingsVars PROVE SettingsInv'
    OBVIOUS
  <2>1. ASSUME NEW v \in SettingValue \union {Invalid}, PutField(v) PROVE SettingsInv'
    <3>1. v \in SettingValue /\ Loaded(v) = v
      BY <2>1 DEF PutField, Loaded
    <3> QED BY <2>1, <3>1, WriteAppended DEF PutField
  <2>2. CASE DeleteField
    <3>1. Loaded(NoOverride) = DefaultValue
      BY DEF Loaded
    <3> QED BY <2>2, <3>1, WriteAppended DEF DeleteField
  <2>3. ASSUME saving # <<>>, saving' = Tail(saving)
        PROVE  /\ saving' \in Seq(SettingValue \union {NoOverride})
               /\ saving' # <<>> => saving'[Len(saving')] = saving[Len(saving)]
               /\ saving' = <<>> => Head(saving) = saving[Len(saving)]
    <3>1. /\ Len(saving) \in Nat /\ Len(saving) > 0
          /\ saving \in Seq(SettingValue \union {NoOverride})
      BY <2>3 DEF SettingsInv, SettingsTypeOK
    <3>2. /\ Len(saving') = Len(saving) - 1
          /\ saving' \in Seq(SettingValue \union {NoOverride})
          /\ \A i \in 1..Len(saving') : saving'[i] = saving[i + 1]
          /\ Head(saving) = saving[1]
      BY <2>3, <3>1
    <3>3. saving' # <<>> => saving'[Len(saving')] = saving[Len(saving)]
      BY <3>1, <3>2
    <3>4. saving' = <<>> => Len(saving) = 1
      BY <3>1, <3>2
    <3> QED BY <3>1, <3>2, <3>3, <3>4
  <2>4. CASE Saved
    <3>1. Head(saving) \in SettingValue \union {NoOverride}
      BY <2>4 DEF Saved, SettingsInv, SettingsTypeOK
    <3> QED
      BY <2>3, <2>4, <3>1 DEF Saved, SettingsInv, SettingsTypeOK, LastWriteIsLive, SavedMatchesLive
  <2>5. CASE SaveFails
    BY <2>3, <2>5 DEF SaveFails, SettingsInv, SettingsTypeOK, LastWriteIsLive, SavedMatchesLive
  <2>6. CASE Restart
    BY <2>6 DEF Restart, SettingsInv, SettingsTypeOK, LastWriteIsLive, SavedMatchesLive, Loaded
  <2>7. CASE UNCHANGED settingsVars
    BY <2>7 DEF settingsVars, SettingsInv, SettingsTypeOK, LastWriteIsLive, SavedMatchesLive
  <2> QED BY <2>1, <2>2, <2>4, <2>5, <2>6, <2>7 DEF SettingsNext
<1>3. SettingsInv => SavedMatchesLive
  BY DEF SettingsInv
<1> QED BY <1>1, <1>2, <1>3, PTL DEF SettingsSpec

(***************************************************************************)
(* AddressCache: how old a served answer may be.                           *)
(***************************************************************************)

\* What the cache may hold: a value that is still served has left of its time to
\* live what its age, less the time its fetch took, has not used up.
FreshEntry ==
  {e \in [wallet : Wallet, left : 0..Ttl, age : Nat] :
     e.left > 0 => e.age + e.left <= Ttl + MaxFetch}

\* A fetch under way is not too old, and neither is what was served.
RenderFresh ==
  \A r \in Render :
    /\ render[r].waiting # {} => render[r].at = "fetch"
    /\ render[r].at = "fetch" => render[r].wallet \in Wallet /\ render[r].age \in 0..MaxFetch
    /\ render[r].at = "served" => render[r].age \in Nat /\ render[r].age < Ttl + MaxFetch

RenderState == [at : {"idle", "fetch", "served"}, wallet : Wallet \union {Resting.wallet},
                age : Nat, waiting : SUBSET Parts]

CacheInv ==
  /\ entries \in Seq(FreshEntry)
  /\ render \in [Render -> RenderState]
  /\ RenderFresh

\* What stays in the cache was in it.
LEMMA OthersFresh == ASSUME CacheInv, NEW w PROVE Others(w) \in Seq(FreshEntry)
BY FilterElements DEF CacheInv, Others

\* Eviction leaves fresh entries.
LEMMA EvictedFresh ==
  ASSUME NEW es \in Seq(FreshEntry) PROVE Evicted(es) \in Seq(FreshEntry)
<1> DEFINE valid == Filter(es, {e \in Range(es) : e.left > 0})
           excess == IF Len(valid) > MaxEntries THEN Len(valid) - MaxEntries ELSE 0
<1>1. valid \in Seq(FreshEntry) BY FilterElements
<1> HIDE DEF valid
<1>2. Len(valid) \in Nat /\ MaxEntries \in Nat BY <1>1, CacheAssumption DEF CacheAssumption
<1>3. excess + 1 \in 1..(Len(valid) + 1) BY <1>2
<1> HIDE DEF excess
<1>4. SubSeq(valid, excess + 1, Len(valid)) \in Seq(FreshEntry) BY <1>1, <1>3, DropProperties
<1> QED BY <1>4 DEF Evicted, valid, excess

\* One request goes on.
LEMMA RenderMoves ==
  ASSUME CacheInv, NEW r \in Render, NEW x \in RenderState,
         render' = [render EXCEPT ![r] = x], entries' \in Seq(FreshEntry),
         x.waiting # {} => x.at = "fetch",
         x.at = "fetch" => x.wallet \in Wallet /\ x.age \in 0..MaxFetch,
         x.at = "served" => x.age < Ttl + MaxFetch
  PROVE  CacheInv'
<1>1. /\ render' \in [Render -> RenderState] /\ render'[r] = x
      /\ \A q \in Render : q # r => render'[q] = render[q]
  BY DEF CacheInv
<1>2. x.age \in Nat BY DEF RenderState
<1>3. RenderFresh' BY <1>1, <1>2 DEF CacheInv, RenderFresh
<1> QED BY <1>1, <1>3 DEF CacheInv

\* What is served was true of the exchange at most one time to live and one fetch
\* ago, however many requests, concurrent fetches, hits and evictions there are.
THEOREM ServedIsFresh == CacheSpec => []ServedFresh
<1> USE CacheAssumption DEF CacheAssumption
<1>0. Resting \in RenderState /\ Resting.at = "idle" /\ Resting.waiting = {}
  BY DEF RenderState, Resting
<1>1. CacheInit => CacheInv
  BY <1>0 DEF CacheInit, CacheInv, RenderFresh
<1>2. CacheInv /\ [CacheNext]_cacheVars => CacheInv'
  <2> SUFFICES ASSUME CacheInv, [CacheNext]_cacheVars PROVE CacheInv'
    OBVIOUS
  <2> USE DEF CacheInv
  <2>0. Ttl \in Nat /\ Ttl > 0 /\ MaxFetch \in Nat /\ MaxFetch > 0 OBVIOUS
  <2>1. ASSUME NEW r \in Render, NEW w \in Wallet, Look(r, w) PROVE CacheInv'
    <3>1. CASE Valid(w) = {}
      <4> DEFINE x == [at |-> "fetch", wallet |-> w, age |-> 0, waiting |-> Parts]
      <4>1. /\ x \in RenderState /\ x.at = "fetch" /\ x.wallet = w
            /\ x.age = 0 /\ 0 \in 0..MaxFetch
        BY <2>0 DEF RenderState
      <4>2. render' = [render EXCEPT ![r] = x] /\ entries' = entries
        BY <2>1, <3>1 DEF Look
      <4> HIDE DEF x
      <4> QED BY <2>0, <4>1, <4>2, RenderMoves
    <3>2. CASE Valid(w) # {}
      <4>1. PICK i \in Valid(w) :
              /\ render' = [render EXCEPT ![r] = [at |-> "served", wallet |-> w,
                                                  age |-> entries[i].age, waiting |-> {}]]
              /\ entries' = Hit(i)
        BY <2>1, <3>2 DEF Look
      <4>2. i \in 1..Len(entries) /\ entries[i] \in FreshEntry /\ entries[i].left > 0
        BY <4>1 DEF Valid
      <4>3. entries[i].age \in Nat /\ entries[i].age < Ttl + MaxFetch
        BY <2>0, <4>2 DEF FreshEntry
      <4>4. Hit(i) \in Seq(FreshEntry)
        BY <4>2, OthersFresh DEF Hit
      <4> DEFINE x == [at |-> "served", wallet |-> w, age |-> entries[i].age, waiting |-> {}]
      <4>5. x \in RenderState BY <4>3 DEF RenderState
      <4> QED BY <4>1, <4>3, <4>4, <4>5, RenderMoves
    <3> QED BY <3>1, <3>2
  <2>2. ASSUME NEW r \in Render, NEW part \in Parts, Arrives(r, part) PROVE CacheInv'
    <3>1. /\ render[r].at = "fetch" /\ render[r].wallet \in Wallet
          /\ render[r].age \in 0..MaxFetch
      BY <2>2 DEF Arrives, RenderFresh
    <3>2. CASE render[r].waiting = {part}
      <4> DEFINE new == [wallet |-> render[r].wallet, left |-> Ttl, age |-> render[r].age]
      <4>1. new \in FreshEntry BY <2>0, <3>1 DEF FreshEntry
      <4>2. entries' = Evicted(Append(Others(render[r].wallet), new))
        BY <2>2, <3>2 DEF Arrives
      <4> HIDE DEF new
      <4>3. Append(Others(render[r].wallet), new) \in Seq(FreshEntry)
        BY <4>1, OthersFresh
      <4>4. entries' \in Seq(FreshEntry) BY <4>2, <4>3, EvictedFresh
      <4> DEFINE x == [render[r] EXCEPT !.at = "served", !.waiting = {}]
      <4>5. render' = [render EXCEPT ![r] = x]
        BY <2>2, <3>2 DEF Arrives
      <4>6. /\ x \in RenderState /\ x.at = "served" /\ x.waiting = {}
            /\ x.age = render[r].age
        BY DEF RenderState
      <4>7. x.age < Ttl + MaxFetch BY <2>0, <3>1, <4>6
      <4> HIDE DEF x
      <4> QED BY <4>4, <4>5, <4>6, <4>7, RenderMoves
    <3>3. CASE render[r].waiting # {part}
      <4> DEFINE x == [render[r] EXCEPT !.waiting = {part2 \in Parts : part2 # part}]
      <4>1. render' = [render EXCEPT ![r] = x] /\ entries' = entries
        BY <2>2, <3>3 DEF Arrives
      <4>2. /\ x \in RenderState /\ x.at = "fetch" /\ x.wallet = render[r].wallet
            /\ x.age = render[r].age
        BY <3>1 DEF RenderState
      <4> HIDE DEF x
      <4> QED BY <3>1, <4>1, <4>2, RenderMoves
    <3> QED BY <3>2, <3>3
  <2>3. ASSUME NEW r \in Render, FetchFails(r) \/ Rendered(r) PROVE CacheInv'
    <3>1. render' = [render EXCEPT ![r] = Resting] /\ entries' = entries
      BY <2>3 DEF FetchFails, Rendered
    <3> QED BY <1>0, <3>1, RenderMoves
  <2>4. CASE CacheAges
    <3>1. \A e \in FreshEntry :
            [e EXCEPT !.left = IF @ > 0 THEN @ - 1 ELSE 0,
                      !.age = IF e.left > 0 THEN @ + 1 ELSE @] \in FreshEntry
      <4> SUFFICES ASSUME NEW e \in FreshEntry
                   PROVE [e EXCEPT !.left = IF @ > 0 THEN @ - 1 ELSE 0,
                                   !.age = IF e.left > 0 THEN @ + 1 ELSE @] \in FreshEntry
        OBVIOUS
      <4>1. /\ e.left \in 0..Ttl /\ e.age \in Nat
            /\ e.left > 0 => e.age + e.left <= Ttl + MaxFetch
            /\ e \in [wallet : Wallet, left : 0..Ttl, age : Nat]
        BY DEF FreshEntry
      <4> DEFINE l == IF e.left > 0 THEN e.left - 1 ELSE 0
                 n == IF e.left > 0 THEN e.age + 1 ELSE e.age
                 f == [e EXCEPT !.left = l, !.age = n]
      <4>2. /\ l \in 0..Ttl /\ n \in Nat
            /\ l > 0 => n + l <= Ttl + MaxFetch
        BY <2>0, <4>1
      <4> HIDE DEF l, n
      <4>3. /\ f \in [wallet : Wallet, left : 0..Ttl, age : Nat]
            /\ f.left = l /\ f.age = n
        BY <4>1, <4>2
      <4> QED BY <4>2, <4>3 DEF FreshEntry, l, n
    <3>2. entries' \in Seq(FreshEntry)
      <4>1. Len(entries) \in Nat /\ DOMAIN entries = 1..Len(entries) OBVIOUS
      <4>2. \A i \in 1..Len(entries) : entries[i] \in FreshEntry OBVIOUS
      <4>3. entries' = [i \in 1..Len(entries) |->
                         [entries[i] EXCEPT !.left = IF @ > 0 THEN @ - 1 ELSE 0,
                                            !.age = IF entries[i].left > 0 THEN @ + 1 ELSE @]]
        BY <2>4, <4>1 DEF CacheAges
      <4> HIDE DEF CacheInv
      <4>4. entries' \in [1..Len(entries) -> FreshEntry] BY <3>1, <4>2, <4>3
      <4> QED BY <4>1, <4>4, SeqDef
    <3>3. ASSUME NEW r \in Render
          PROVE  render'[r] = IF render[r].at = "fetch"
                              THEN [render[r] EXCEPT !.age = @ + 1] ELSE render[r]
      BY <2>4 DEF CacheAges
    <3>4. \A r \in Render : render[r].at = "fetch" => render[r].age < MaxFetch
      BY <2>4 DEF CacheAges
    <3>5. ASSUME NEW r \in Render
          PROVE  /\ render'[r] \in RenderState
                 /\ render'[r].at = render[r].at /\ render'[r].waiting = render[r].waiting
                 /\ render'[r].wallet = render[r].wallet
                 /\ render[r].at = "fetch" => render'[r].age = render[r].age + 1
                 /\ render[r].at # "fetch" => render'[r].age = render[r].age
      <4>1. render[r] \in RenderState OBVIOUS
      <4>2. CASE render[r].at = "fetch"
        <5>1. render'[r] = [render[r] EXCEPT !.age = render[r].age + 1] BY <3>3, <4>2
        <5> QED BY <4>1, <4>2, <5>1 DEF RenderState
      <4>3. CASE render[r].at # "fetch" BY <3>3, <4>1, <4>3
      <4> QED BY <4>2, <4>3
    <3>6. render' \in [Render -> RenderState]
      <4>1. render' = [r \in Render |-> render'[r]] BY <2>4 DEF CacheAges
      <4> QED BY <3>5, <4>1
    <3>7. RenderFresh'
      <4> SUFFICES ASSUME NEW r \in Render
                   PROVE  /\ render'[r].waiting # {} => render'[r].at = "fetch"
                          /\ render'[r].at = "fetch" =>
                               render'[r].wallet \in Wallet /\ render'[r].age \in 0..MaxFetch
                          /\ render'[r].at = "served" =>
                               render'[r].age \in Nat /\ render'[r].age < Ttl + MaxFetch
        BY DEF RenderFresh
      <4> QED BY <2>0, <3>4, <3>5 DEF RenderFresh
    <3> QED BY <3>2, <3>6, <3>7
  <2>5. CASE UNCHANGED cacheVars
    BY <2>5 DEF cacheVars, RenderFresh
  <2> QED BY <2>1, <2>2, <2>3, <2>4, <2>5 DEF CacheNext
<1>3. CacheInv => ServedFresh
  BY DEF CacheInv, RenderFresh, ServedFresh
<1> QED BY <1>1, <1>2, <1>3, PTL DEF CacheSpec

(***************************************************************************)
(* FillHistory: the walk that sums the profit, and the pages of fills.     *)
(***************************************************************************)

\* Fills per time, and those newer than a time.
Fills == [Time -> Nat]
Newer(fills, t) == SumOver(fills, (t + 1)..LastTime)

\* The size of a set of fills is the sum of the fills of its times.
LEMMA SizeIsSum == ASSUME NEW fills PROVE Size(fills) = SumOver(fills, Time)
BY DEF Size, SumOver

\* What the newest n fills are, time by time.
LEMMA NewestValue ==
  ASSUME NEW fills \in Fills, NEW n \in Nat
  PROVE  /\ DOMAIN NewestFills(fills, n) = Time
         /\ NewestFills(fills, n) = [t \in Time |-> NewestFills(fills, n)[t]]
         /\ \A t \in Time :
              LET room == IF Newer(fills, t) < n THEN n - Newer(fills, t) ELSE 0
              IN  NewestFills(fills, n)[t] = IF fills[t] < room THEN fills[t] ELSE room
BY DEF NewestFills, Newer, SumOver

\* The fills after a time are a number, and include those of each later time.
LEMMA NewerType ==
  ASSUME NEW fills \in Fills, NEW t \in Time
  PROVE  /\ Newer(fills, t) \in Nat
         /\ \A u \in Time : u > t => fills[u] + Newer(fills, u) <= Newer(fills, t)
<1>1. LastTime \in Nat /\ t \in Nat BY FillAssumption DEF FillAssumption, Time
<1>2. /\ IsFiniteSet((t + 1)..LastTime)
      /\ (t + 1)..LastTime \subseteq Time
  <2>1. t + 1 \in Int /\ LastTime \in Int BY <1>1
  <2> QED BY <1>1, <2>1, FS_Interval DEF Time
<1>3. \A u \in (t + 1)..LastTime : fills[u] \in Nat BY <1>2 DEF Fills
<1>4. ASSUME NEW u \in Time, u > t PROVE fills[u] + Newer(fills, u) <= Newer(fills, t)
  <2> DEFINE after == (u + 1)..LastTime
  <2>1. /\ after \union {u} \in SUBSET ((t + 1)..LastTime) /\ u \notin after
        /\ u + 1 \in Int /\ LastTime \in Int
    BY <1>1, <1>4 DEF Time
  <2>2. IsFiniteSet(after) BY <2>1, FS_Interval
  <2>3. \A v \in after \union {u} : fills[v] \in Nat BY <1>3, <2>1
  <2>4. SumOver(fills, after) = Newer(fills, u) BY DEF Newer
  <2> HIDE DEF after
  <2>5. SumOver(fills, after \union {u}) = fills[u] + SumOver(fills, after)
    BY <2>1, <2>2, <2>3, SumAdd
  <2>6. SumOver(fills, after \union {u}) <= SumOver(fills, (t + 1)..LastTime)
    BY <1>2, <1>3, <2>1, SumSubset
  <2> QED BY <2>4, <2>5, <2>6 DEF Newer
<1> QED BY <1>2, <1>3, <1>4, SumType DEF Newer

\* The newest fills are some of the fills; when they are fewer than asked for they
\* are all of them; and they are all that are newer than any one of them.
LEMMA NewestProperties ==
  ASSUME NEW fills \in Fills, NEW n \in Nat
  PROVE  /\ NewestFills(fills, n) \in Fills
         /\ \A t \in Time : NewestFills(fills, n)[t] <= fills[t]
         /\ Size(NewestFills(fills, n)) \in Nat
         /\ Size(NewestFills(fills, n)) < n => NewestFills(fills, n) = fills
         /\ \A t, u \in Time : NewestFills(fills, n)[t] > 0 /\ u > t =>
                 NewestFills(fills, n)[u] = fills[u]
<1> DEFINE new == NewestFills(fills, n)
           room(t) == IF Newer(fills, t) < n THEN n - Newer(fills, t) ELSE 0
<1>1. /\ DOMAIN new = Time /\ new = [t \in Time |-> new[t]]
      /\ \A t \in Time : new[t] = IF fills[t] < room(t) THEN fills[t] ELSE room(t)
  BY NewestValue
<1>2. LastTime \in Nat /\ IsFiniteSet(Time) /\ \A t \in Time : t \in Nat /\ t >= 1 /\ t <= LastTime
  <2>1. LastTime \in Nat /\ 1 \in Int /\ LastTime \in Int BY FillAssumption DEF FillAssumption
  <2> QED BY <2>1, FS_Interval DEF Time
<1>3. \A t \in Time : fills[t] \in Nat /\ Newer(fills, t) \in Nat
  BY NewerType DEF Fills
<1> HIDE DEF new
<1>4. \A t \in Time : new[t] \in Nat /\ new[t] <= fills[t] BY <1>1, <1>3
<1>5. new \in Fills BY <1>1, <1>4 DEF Fills
<1>6. Size(new) \in Nat BY <1>2, <1>4, SizeIsSum, SumType
<1>7. ASSUME new # fills PROVE Size(new) >= n
  <2> DEFINE differ == {t \in Time : new[t] # fills[t]}
  <2>1. differ # {} BY <1>5, <1>7 DEF Fills
  <2>2. differ \in SUBSET Nat /\ \A t \in differ : t <= LastTime BY <1>2
  <2>3. Max(differ) \in differ /\ \A t \in differ : t <= Max(differ)
    BY <1>2, <2>1, <2>2, MaxProperties
  <2>4. PICK m \in Time : new[m] # fills[m] /\ \A t \in Time : t > m => new[t] = fills[t]
    <3> DEFINE m == Max(differ)
    <3>1. m \in Time /\ m \in Nat /\ new[m] # fills[m] BY <1>2, <2>3
    <3>2. \A t \in Time : new[t] # fills[t] => t <= m BY <2>3
    <3> HIDE DEF m
    <3>3. ASSUME NEW t \in Time, t > m PROVE new[t] = fills[t]
      <4>1. t \in Nat BY <1>2
      <4>2. m \in Nat BY <3>1
      <4>3. ~(t <= m) BY <3>3, <4>1, <4>2
      <4> QED BY <3>2, <4>3
    <3> QED BY <3>1, <3>3
  <2> DEFINE after == (m + 1)..LastTime
  <2>5. /\ IsFiniteSet(after) /\ after \in SUBSET Time /\ m \notin after
        /\ \A u \in after : u > m
    <3>1. m + 1 \in Int /\ LastTime \in Int /\ m \in Nat BY <1>2
    <3>2. IsFiniteSet(after) BY <3>1, FS_Interval
    <3> QED BY <1>2, <3>1, <3>2 DEF Time
  <2>6. SumOver(new, after) = Newer(fills, m)
    <3> HIDE DEF after
    <3>1. \A u \in after : new[u] \in Nat /\ new[u] = fills[u] BY <1>4, <2>4, <2>5
    <3>2. SumOver(new, after) = SumOver(fills, after) BY <2>5, <3>1, SumEqual
    <3> QED BY <3>2 DEF Newer, after
  <2>7. SumOver(new, after \union {m}) = new[m] + SumOver(new, after)
    <3> HIDE DEF after
    <3>1. \A u \in after \union {m} : new[u] \in Nat BY <1>4, <2>5
    <3> QED BY <2>5, <3>1, SumAdd
  <2>8. SumOver(new, after \union {m}) <= SumOver(new, Time)
    <3> HIDE DEF after
    <3>1. after \union {m} \in SUBSET Time BY <2>5
    <3> QED BY <1>2, <1>4, <3>1, SumSubset
  <2>9. new[m] + Newer(fills, m) >= n
    <3> HIDE DEF differ, after
    <3>1. new[m] = room(m) BY <1>1, <1>3, <2>4
    <3> QED BY <1>3, <3>1
  <2> HIDE DEF differ, after
  <2>10. Size(new) >= new[m] + Newer(fills, m) BY <2>6, <2>7, <2>8, SizeIsSum
  <2> QED BY <1>3, <1>4, <1>6, <2>9, <2>10
<1>8. ASSUME NEW t \in Time, NEW u \in Time, new[t] > 0, u > t
      PROVE  new[u] = fills[u]
  <2>1. fills[u] + Newer(fills, u) <= Newer(fills, t) BY <1>8, NewerType
  <2>2. Newer(fills, t) < n BY <1>1, <1>3, <1>8
  <2>3. room(u) >= fills[u] BY <1>3, <2>1, <2>2
  <2> QED BY <1>1, <1>3, <1>8, <2>3
<1>9. Size(new) < n => new = fills BY <1>6, <1>7
<1> QED BY <1>4, <1>5, <1>6, <1>8, <1>9 DEF new

\* What _fetch_raw_fills answers for a window that ends at some time.
Inside(start, end) == [t \in Time |-> IF start <= t /\ t < end THEN history[t] ELSE 0]

\* An answer leaves out older fills of its window only when it is full, and has all
\* fills of the window that are newer than any of its own.
Served(raw, start, end) ==
  /\ raw \in Fills /\ Size(raw) \in Nat
  /\ \A t \in Time : raw[t] <= Inside(start, end)[t]
  /\ Size(raw) < FillCap => raw = Inside(start, end)
  /\ \A t, u \in Time : raw[t] > 0 /\ u > t => raw[u] = Inside(start, end)[u]

\* The fills of a window are fills.
LEMMA InsideType ==
  ASSUME history \in Fills, NEW start \in Nat, NEW end \in Nat
  PROVE  /\ Inside(start, end) \in Fills
         /\ \A t \in Time : Inside(start, end)[t] <= history[t]
BY DEF Inside, Fills

\* What the exchange answers to a window lies in it, oldest fills first.
LEMMA RawAnswers ==
  ASSUME history \in Fills, NEW start \in Nat, NEW end \in Nat
  PROVE  Served(RawFills(start, end), start, end)
<1>1. Inside(start, end) \in Fills /\ FillCap \in Nat
  BY InsideType, FillAssumption DEF FillAssumption
<1>2. RawFills(start, end) = NewestFills(Inside(start, end), FillCap) BY DEF RawFills, Inside
<1> DEFINE in == Inside(start, end)
           new == NewestFills(in, FillCap)
<1> HIDE DEF in
<1>4. in \in Fills /\ FillCap \in Nat BY <1>1 DEF in
<1>5. /\ new \in Fills
      /\ \A t \in Time : new[t] <= in[t]
      /\ Size(new) \in Nat
      /\ Size(new) < FillCap => new = in
      /\ \A t, u \in Time : new[t] > 0 /\ u > t => new[u] = in[u]
  BY <1>4, NewestProperties
<1> HIDE DEF new
<1>6. Served(new, start, end) BY <1>4, <1>5 DEF Served, in
<1> QED BY <1>2, <1>6 DEF new, in

\* The oldest of some fills, which are not none.
LEMMA OldestProperties ==
  ASSUME NEW fills \in Fills, Size(fills) > 0 \/ fills # None
  PROVE  /\ Oldest(fills) \in Time /\ Oldest(fills) \in Nat
         /\ fills[Oldest(fills)] > 0
         /\ \A t \in Time : t < Oldest(fills) => fills[t] = 0
<1> DEFINE T == {t \in Time : fills[t] > 0}
<1>1. T \in SUBSET Nat /\ IsFiniteSet(Time) /\ \A t \in Time : t \in Nat /\ fills[t] \in Nat
  <2>1. 1 \in Int /\ LastTime \in Int BY FillAssumption DEF FillAssumption
  <2>2. IsFiniteSet(Time) BY <2>1, FS_Interval DEF Time
  <2> QED BY <2>1, <2>2 DEF Time, Fills
<1>2. T # {}
  <2> SUFFICES ASSUME \A t \in Time : fills[t] = 0 PROVE FALSE BY <1>1
  <2>1. fills = None BY DEF None, Fills
  <2>2. SumOver(fills, Time) = 0 BY <1>1, SumZero
  <2> QED BY <2>1, <2>2, SizeIsSum
<1>3. Min(T) \in T /\ \A t \in T : Min(T) <= t BY <1>1, <1>2, MinProperties
<1>4. Oldest(fills) = Min(T) BY DEF Oldest
<1> DEFINE o == Oldest(fills)
<1>5. o \in Time /\ o \in Nat /\ fills[o] > 0 /\ \A t \in Time : fills[t] > 0 => o <= t
  BY <1>1, <1>3, <1>4
<1> HIDE DEF o
<1>6. \A t \in Time : t < o => fills[t] = 0 BY <1>1, <1>5
<1> QED BY <1>5, <1>6 DEF o

\* The fills that the walk has counted: all from its end on.
CountedFrom(counted, start, end) ==
  \A t \in Time : counted[t] = IF t >= end /\ t >= start THEN history[t] ELSE 0

WalkInv ==
  /\ walk.at \in {"walking", "done"} /\ walk.start \in Nat /\ walk.end \in Nat
  /\ walk.counted \in Fills
  /\ walk.split \in BOOLEAN
  /\ DOMAIN walk = {"at", "start", "end", "counted", "pages", "complete", "split"}
  /\ walk = [f \in DOMAIN walk |-> walk[f]]
  /\ ~walk.split /\ walk.at = "walking" => CountedFrom(walk.counted, walk.start, walk.end)
  /\ CompleteIsExact

\* The fills that the client has seen: all from its cursor on.
ClientInv ==
  /\ client.at \in {"asking", "done"} /\ client.limit \in 1..FillCap /\ client.end \in Nat
  /\ client.seen \in Fills
  /\ client.split \in BOOLEAN
  /\ DOMAIN client = {"at", "limit", "end", "seen", "split"}
  /\ client = [f \in DOMAIN client |-> client[f]]
  /\ ~client.split /\ client.at = "asking" => CountedFrom(client.seen, 0, client.end)
  /\ CursorsReachAll

FillInv == history \in Fills /\ WalkInv /\ ClientInv

\* Two sets of fills add up to one.
LEMMA PlusType ==
  ASSUME NEW f \in Fills, NEW g \in Fills
  PROVE  Plus(f, g) \in Fills /\ \A t \in Time : Plus(f, g)[t] = f[t] + g[t]
BY DEF Plus, Fills

\* One page of the walk extends what is counted without a gap.
LEMMA WalkStep == ASSUME FillInv, WalkPage PROVE FillInv'
<1> DEFINE raw == RawFills(walk.start, walk.end)
           full == Size(raw) >= FillCap
           stuck == full /\ walk.pages > 0 /\ Oldest(raw) >= walk.end
           last == walk.pages + 1 = MaxPages
           inside == Inside(walk.start, walk.end)
<1>1. /\ history \in Fills /\ walk.start \in Nat /\ walk.end \in Nat /\ walk.counted \in Fills
      /\ walk.at = "walking"
  BY DEF FillInv, WalkInv, WalkPage
<1>2. Served(raw, walk.start, walk.end) BY <1>1, RawAnswers
<1>3. /\ DOMAIN walk = {"at", "start", "end", "counted", "pages", "complete", "split"}
      /\ walk = [f \in DOMAIN walk |-> walk[f]]
      /\ walk' = [walk EXCEPT
              !.counted = Plus(@, raw), !.pages = @ + 1,
              !.end = IF full THEN NextEnd(raw) ELSE @,
              !.at = IF full /\ ~stuck /\ ~last THEN "walking" ELSE "done",
              !.complete = WalkComplete(stuck, full, last),
              !.split = @ \/ (full /\ Splits(raw))]
      /\ UNCHANGED <<history, client>>
  BY DEF WalkPage, FillInv, WalkInv
<1>4. /\ DOMAIN walk' = {"at", "start", "end", "counted", "pages", "complete", "split"}
      /\ walk' = [f \in DOMAIN walk' |-> walk'[f]]
      /\ walk'.start = walk.start /\ walk'.counted = Plus(walk.counted, raw)
      /\ walk'.end = IF full THEN NextEnd(raw) ELSE walk.end
      /\ walk'.at = IF full /\ ~stuck /\ ~last THEN "walking" ELSE "done"
      /\ walk'.complete = WalkComplete(stuck, full, last)
      /\ walk'.split = (walk.split \/ (full /\ Splits(raw)))
      /\ history' = history /\ client' = client
  <2> HIDE DEF raw, full, stuck, last
  <2> QED BY <1>3
<1> HIDE DEF raw, inside
<1>5. /\ raw \in Fills /\ Size(raw) \in Nat /\ FillCap \in Nat /\ FillCap > 0
      /\ \A t \in Time : raw[t] <= inside[t]
      /\ Size(raw) < FillCap => raw = inside
      /\ \A t, u \in Time : raw[t] > 0 /\ u > t => raw[u] = inside[u]
      /\ \A t \in Time : inside[t] = IF walk.start <= t /\ t < walk.end THEN history[t] ELSE 0
  BY <1>2, FillAssumption DEF Served, inside, Inside, FillAssumption
<1>6. /\ Plus(walk.counted, raw) \in Fills
      /\ \A t \in Time : Plus(walk.counted, raw)[t] = walk.counted[t] + raw[t]
  BY <1>1, <1>5, PlusType
<1>7. \A t \in Time : t \in Nat /\ raw[t] \in Nat /\ history[t] \in Nat
  BY <1>1, <1>5 DEF Time, Fills
<1>8. ASSUME ~walk.split PROVE CountedFrom(walk.counted, walk.start, walk.end)
  BY <1>1, <1>8 DEF FillInv, WalkInv
<1>9. ASSUME full PROVE /\ Oldest(raw) \in Time /\ Oldest(raw) \in Nat /\ ~stuck
                        /\ walk.start <= Oldest(raw) /\ Oldest(raw) < walk.end
                        /\ ~walk.split /\ ~Splits(raw) => CountedFrom(Plus(walk.counted, raw), walk.start, Oldest(raw))
  <2> DEFINE o == Oldest(raw)
  <2>1. o \in Time /\ o \in Nat /\ raw[o] > 0 /\ \A t \in Time : t < o => raw[t] = 0
    BY <1>5, <1>9, OldestProperties
  <2> HIDE DEF o
  <2>2. walk.start <= o /\ o < walk.end BY <1>1, <1>5, <1>7, <2>1
  <2>3. ASSUME ~walk.split, ~ history[o] > raw[o], NEW t \in Time
        PROVE  walk.counted[t] + raw[t] = IF t >= o /\ t >= walk.start THEN history[t] ELSE 0
    <3>1. walk.counted[t] = IF t >= walk.end /\ t >= walk.start THEN history[t] ELSE 0
      BY <1>8, <2>3 DEF CountedFrom
    <3>2. CASE t < o BY <1>1, <1>7, <2>1, <2>2, <3>1, <3>2
    <3>3. CASE t >= o
      <4>1. raw[t] = inside[t]
        <5>1. CASE t = o
          <6>1. raw[o] <= inside[o] /\ inside[o] \in {0, history[o]} BY <1>5, <2>1
          <6> QED BY <1>7, <2>1, <2>3, <5>1, <6>1
        <5>2. CASE t > o BY <1>5, <2>1, <5>2
        <5> QED BY <1>7, <2>1, <3>3, <5>1, <5>2
      <4>2. inside[t] = IF walk.start <= t /\ t < walk.end THEN history[t] ELSE 0 BY <1>5
      <4>3. walk.start <= t
        <5>1. walk.start \in Nat /\ o \in Nat /\ t \in Nat BY <1>1, <1>7, <2>1
        <5> QED BY <2>2, <3>3, <5>1
      <4>4. CASE t < walk.end
        <5>1. walk.counted[t] = 0 /\ raw[t] = history[t] BY <1>1, <1>7, <3>1, <4>1, <4>2, <4>3, <4>4
        <5> QED BY <1>7, <3>3, <4>3, <5>1
      <4>5. CASE t >= walk.end
        <5>1. walk.counted[t] = history[t] /\ raw[t] = 0 BY <1>1, <1>7, <3>1, <4>1, <4>2, <4>3, <4>5
        <5> QED BY <1>7, <3>3, <4>3, <5>1
      <4> QED BY <1>1, <1>7, <4>4, <4>5
    <3>4. t < o \/ t >= o BY <1>7, <2>1
    <3> QED BY <3>2, <3>3, <3>4, Zenon
  <2>4. ~stuck BY <1>1, <2>1, <2>2 DEF o
  <2> QED BY <1>6, <2>1, <2>2, <2>3, <2>4 DEF o, CountedFrom, Splits
<1>10. ASSUME ~full, ~walk.split
       PROVE  \A t \in Time :
                Plus(walk.counted, raw)[t] = IF t >= walk.start THEN history[t] ELSE 0
  <2> SUFFICES ASSUME NEW t \in Time
               PROVE  walk.counted[t] + raw[t] = IF t >= walk.start THEN history[t] ELSE 0
    BY <1>6
  <2>1. walk.counted[t] = IF t >= walk.end /\ t >= walk.start THEN history[t] ELSE 0
    BY <1>8, <1>10 DEF CountedFrom
  <2>2. raw[t] = inside[t] BY <1>5, <1>10
  <2> QED BY <1>1, <1>5, <1>7, <2>1, <2>2
<1> HIDE DEF stuck, last
<1>11. walk'.at \in {"walking", "done"} /\ walk'.start \in Nat /\ walk'.end \in Nat /\ walk'.counted \in Fills
  BY <1>1, <1>4, <1>6, <1>9 DEF NextEnd
<1>12. walk'.split \in BOOLEAN BY <1>4
<1>13. ~walk'.split /\ walk'.at = "walking" => CountedFrom(walk.counted, walk.start, walk.end)'
  <2>1. ASSUME ~walk'.split, walk'.at = "walking" PROVE CountedFrom(walk.counted, walk.start, walk.end)'
    <3>1. full /\ ~walk.split /\ ~Splits(raw) BY <1>4, <2>1
    <3> QED BY <1>4, <1>9, <2>1, <3>1 DEF CountedFrom, NextEnd
  <2> QED BY <2>1
<1>14. CompleteIsExact'
  <2> SUFFICES ASSUME walk'.at = "done", walk'.complete, ~walk'.split
               PROVE  \A t \in Time :
                        walk'.counted[t] = IF t >= walk'.start THEN history'[t] ELSE 0
    BY DEF CompleteIsExact
  <2>1. ~full /\ ~walk.split BY <1>4, <1>9 DEF WalkComplete
  <2> QED BY <1>4, <1>10, <2>1
<1>15. ClientInv'
  BY <1>4 DEF FillInv, ClientInv, CountedFrom, CursorsReachAll
<1> QED BY <1>1, <1>4, <1>11, <1>12, <1>13, <1>14, <1>15 DEF FillInv, WalkInv

\* Fills that are no more than others anywhere and as many in all are the others.
LEMMA SameSize ==
  ASSUME NEW f \in Fills, NEW g \in Fills, \A t \in Time : f[t] <= g[t], Size(g) <= Size(f)
  PROVE  f = g
<1> SUFFICES ASSUME NEW t \in Time, f[t] # g[t] PROVE FALSE BY DEF Fills
<1>1. IsFiniteSet(Time) /\ \A u \in Time : f[u] \in Nat /\ g[u] \in Nat
  <2>1. 1 \in Int /\ LastTime \in Int BY FillAssumption DEF FillAssumption
  <2>2. IsFiniteSet(Time) BY <2>1, FS_Interval DEF Time
  <2> QED BY <2>2 DEF Fills
<1>2. SumOver(f, Time) = f[t] + SumOver(f, Time \ {t}) BY <1>1, SumRemove
<1>3. SumOver(g, Time) = g[t] + SumOver(g, Time \ {t}) BY <1>1, SumRemove
<1>4. IsFiniteSet(Time \ {t}) BY <1>1, FS_Subset
<1>5. SumOver(f, Time \ {t}) <= SumOver(g, Time \ {t}) BY <1>1, <1>4, SumBelow
<1>6. SumOver(f, Time \ {t}) \in Nat /\ SumOver(g, Time \ {t}) \in Nat BY <1>1, <1>4, SumType
<1>7. f[t] < g[t] BY <1>1
<1> QED BY <1>1, <1>2, <1>3, <1>5, <1>6, <1>7, SizeIsSum

\* One page of get_fills brings the client to its next cursor or to the end.
LEMMA ClientStep == ASSUME FillInv, FillsPage PROVE FillInv'
<1> DEFINE start == IF client.end > NarrowWindow THEN client.end - NarrowWindow ELSE 0
           narrow == RawFills(start, client.end)
           widen == Size(narrow) < client.limit /\ Size(narrow) < FillCap /\ start > 0
           from == IF widen THEN 0 ELSE start
           raw == RawFills(from, client.end)
           in == Inside(from, client.end)
           newest == NewestFills(raw, client.limit)
           more == /\ newest # None
                   /\ \/ Size(raw) > Size(newest) \/ Size(raw) >= FillCap
                      \/ MayHideOlder(raw, widen \/ start = 0, client.limit)
<1>1. /\ history \in Fills /\ client.end \in Nat /\ client.seen \in Fills
      /\ client.limit \in Nat /\ client.limit > 0 /\ client.at = "asking"
      /\ FillCap \in Nat /\ FillCap > 0 /\ NarrowWindow \in Nat
      /\ client.limit \in 1..FillCap
  BY FillAssumption DEF FillInv, ClientInv, FillsPage, FillAssumption
<1>2. start \in Nat /\ from \in Nat BY <1>1
<1>3. /\ client' = [client EXCEPT !.seen = Plus(@, newest),
                                  !.end = IF more THEN Oldest(newest) ELSE @,
                                  !.at = IF more THEN "asking" ELSE "done",
                                  !.split = @ \/ (more /\ Splits(newest))]
      /\ UNCHANGED <<history, walk>>
  <2>1. raw = IF widen THEN RawFills(0, client.end) ELSE narrow OBVIOUS
  <2> HIDE DEF raw
  <2> QED BY <2>1, Zenon DEF FillsPage
<1> HIDE DEF start, narrow, widen, from, raw, newest, more
<1>4. /\ DOMAIN client' = {"at", "limit", "end", "seen", "split"}
      /\ client' = [f \in DOMAIN client' |-> client'[f]]
      /\ client'.limit = client.limit /\ client'.seen = Plus(client.seen, newest)
      /\ client'.end = IF more THEN Oldest(newest) ELSE client.end
      /\ client'.at = IF more THEN "asking" ELSE "done"
      /\ client'.split = (client.split \/ (more /\ Splits(newest)))
      /\ history' = history /\ walk' = walk
  BY <1>3 DEF FillInv, ClientInv
<1>5. Served(raw, from, client.end) BY <1>1, <1>2, RawAnswers DEF raw
<1> HIDE DEF in
<1>6. /\ raw \in Fills /\ Size(raw) \in Nat
      /\ \A t \in Time : raw[t] <= in[t]
      /\ Size(raw) < FillCap => raw = in
      /\ \A t, u \in Time : raw[t] > 0 /\ u > t => raw[u] = in[u]
      /\ \A t \in Time : in[t] = IF from <= t /\ t < client.end THEN history[t] ELSE 0
  BY <1>5 DEF Served, in, Inside
<1>7. \A t \in Time : t \in Nat /\ raw[t] \in Nat /\ history[t] \in Nat /\ in[t] \in Nat
  BY <1>1, <1>6 DEF Time, Fills
<1>9. /\ newest \in Fills
      /\ \A t \in Time : newest[t] <= raw[t]
      /\ Size(newest) \in Nat
      /\ Size(newest) < client.limit => newest = raw
      /\ \A t, u \in Time : newest[t] > 0 /\ u > t => newest[u] = raw[u]
  BY <1>1, <1>6, NewestProperties DEF newest
<1>10. /\ Plus(client.seen, newest) \in Fills
       /\ \A t \in Time : Plus(client.seen, newest)[t] = client.seen[t] + newest[t]
  BY <1>1, <1>9, PlusType
<1>11. ASSUME ~client.split PROVE CountedFrom(client.seen, 0, client.end)
  BY <1>1, <1>11 DEF FillInv, ClientInv
<1>12. ASSUME more
       PROVE  /\ Oldest(newest) \in Nat
              /\ ~client.split /\ ~Splits(newest) => CountedFrom(Plus(client.seen, newest), 0, Oldest(newest))
  <2> DEFINE o == Oldest(newest)
  <2>1. newest # None BY <1>12 DEF more
  <2>2. o \in Time /\ o \in Nat /\ newest[o] > 0 /\ \A t \in Time : t < o => newest[t] = 0
    BY <1>9, <2>1, OldestProperties
  <2> HIDE DEF o
  <2>3. raw[o] > 0 /\ in[o] > 0
    <3>1. newest[o] \in Nat BY <1>9, <2>2 DEF Fills
    <3>2. newest[o] <= raw[o] /\ raw[o] <= in[o] BY <1>6, <1>9, <2>2
    <3> QED BY <1>7, <2>2, <3>1, <3>2
  <2>4. from <= o /\ o < client.end BY <1>6, <2>2, <2>3
  <2>5. ASSUME ~client.split, ~ history[o] > newest[o], NEW t \in Time
        PROVE  client.seen[t] + newest[t] = IF t >= o /\ t >= 0 THEN history[t] ELSE 0
    <3>1. client.seen[t] = IF t >= client.end /\ t >= 0 THEN history[t] ELSE 0
      BY <1>11, <2>5 DEF CountedFrom
    <3>2. CASE t < o
      <4>1. newest[t] = 0 /\ t < client.end /\ ~(t >= o) BY <1>1, <1>7, <2>2, <2>4, <3>2
      <4>2. client.seen[t] = 0 BY <1>1, <1>7, <3>1, <4>1
      <4> QED BY <4>1, <4>2
    <3>3. CASE t >= o
      <4>1. newest[t] = in[t]
        <5>1. CASE t = o
          <6>1. newest[o] <= raw[o] /\ raw[o] <= in[o] /\ in[o] \in {0, history[o]}
            BY <1>6, <1>9, <2>2
          <6>2. newest[o] \in Nat BY <1>9, <2>2 DEF Fills
          <6> QED BY <1>7, <2>2, <2>5, <5>1, <6>1, <6>2
        <5>2. CASE t > o BY <1>6, <1>9, <2>2, <2>3, <5>2
        <5> QED BY <1>7, <2>2, <3>3, <5>1, <5>2
      <4>3. in[t] = IF t < client.end THEN history[t] ELSE 0
        BY <1>2, <1>6, <1>7, <2>2, <2>4, <3>3
      <4> QED BY <1>1, <1>7, <3>1, <3>3, <4>1, <4>3
    <3>4. t < o \/ t >= o BY <1>7, <2>2
    <3> QED BY <3>2, <3>3, <3>4, Zenon
  <2> QED BY <1>10, <2>2, <2>5 DEF o, CountedFrom, Splits
<1>13. ASSUME ~more PROVE newest = Inside(0, client.end)
  <2>1. (Size(newest) = 0 /\ newest = raw) \/ newest # None
    <3> SUFFICES ASSUME newest = None PROVE Size(newest) = 0 /\ newest = raw OBVIOUS
    <3>1. IsFiniteSet(Time) /\ \A t \in Time : None[t] = 0
      <4>1. 1 \in Int /\ LastTime \in Int BY FillAssumption DEF FillAssumption
      <4> QED BY <4>1, FS_Interval DEF Time, None
    <3>2. Size(newest) = 0 BY <3>1, SizeIsSum, SumZero
    <3> QED BY <1>1, <1>9, <3>2
  <2>2. Size(raw) <= Size(newest) /\ Size(raw) < FillCap
        /\ (Size(raw) < client.limit \/ widen \/ start = 0)
    <3>1. CASE newest # None
      BY <1>1, <1>6, <1>9, <1>13, <3>1 DEF more, MayHideOlder
    <3>2. CASE Size(newest) = 0 /\ newest = raw
      BY <1>1, <3>2
    <3> QED BY <2>1, <3>1, <3>2
  <2>3. newest = raw BY <1>6, <1>9, <2>2, SameSize
  <2>4. raw = in BY <1>6, <2>2
  <2>5. from = 0
    <3> SUFFICES ASSUME ~widen, start # 0 PROVE FALSE BY DEF from
    <3>1. raw = narrow BY DEF raw, narrow, from
    <3> QED BY <1>1, <1>2, <1>6, <2>2, <3>1 DEF widen
  <2> QED BY <2>3, <2>4, <2>5 DEF in
<1>14. ASSUME ~more, ~client.split PROVE Plus(client.seen, newest) = history
  <2>1. ASSUME NEW t \in Time PROVE client.seen[t] + newest[t] = history[t]
    <3>1. client.seen[t] = IF t >= client.end /\ t >= 0 THEN history[t] ELSE 0
      BY <1>11, <1>14 DEF CountedFrom
    <3>2. newest[t] = IF 0 <= t /\ t < client.end THEN history[t] ELSE 0
      BY <1>13, <1>14 DEF Inside
    <3> QED BY <1>1, <1>7, <3>1, <3>2
  <2> QED BY <1>1, <1>10, <2>1 DEF Fills
<1>15. /\ client'.at \in {"asking", "done"} /\ client'.limit \in 1..FillCap
       /\ client'.end \in Nat /\ client'.seen \in Fills /\ client'.split \in BOOLEAN
  BY <1>1, <1>4, <1>10, <1>12
<1>17. ~client'.split /\ client'.at = "asking" => CountedFrom(client.seen, 0, client.end)'
  <2> SUFFICES ASSUME ~client'.split, client'.at = "asking"
               PROVE  CountedFrom(client.seen, 0, client.end)'
    OBVIOUS
  <2>1. more /\ ~client.split /\ ~Splits(newest) BY <1>4
  <2> QED BY <1>4, <1>12, <2>1 DEF CountedFrom
<1>18. CursorsReachAll' BY <1>4, <1>14 DEF CursorsReachAll
<1>19. WalkInv'
  BY <1>4 DEF FillInv, WalkInv, CountedFrom, CompleteIsExact
<1> QED BY <1>1, <1>4, <1>15, <1>17, <1>18, <1>19 DEF FillInv, ClientInv

\* Nothing is counted and nothing was read at first.
LEMMA FillStart == FillInit => FillInv
<1> SUFFICES ASSUME FillInit PROVE FillInv OBVIOUS
<1>1. /\ LastTime \in Nat /\ LastTime > 0 /\ MaxPerTime \in Nat /\ FillLimits \subseteq 1..FillCap
  BY FillAssumption DEF FillAssumption
<1>2. history \in Fills BY <1>1 DEF FillInit, Fills
<1>3. None \in Fills /\ \A t \in Time : None[t] = 0 /\ t \in Nat /\ t < LastTime + 1
  BY <1>1 DEF None, Fills, Time
<1>4. PICK start \in {0, LastTime - 1} :
         walk = [at |-> "walking", start |-> start, end |-> LastTime + 1,
                 counted |-> None, pages |-> 0, complete |-> TRUE, split |-> FALSE]
  BY DEF FillInit
<1>5. PICK limit \in FillLimits :
         client = [at |-> "asking", limit |-> limit, end |-> LastTime + 1, seen |-> None,
                   split |-> FALSE]
  BY DEF FillInit
<1>6. \A s : CountedFrom(None, s, LastTime + 1)
  BY <1>1, <1>3 DEF CountedFrom
<1>7. WalkInv BY <1>1, <1>3, <1>4, <1>6 DEF WalkInv, CompleteIsExact
<1>8. ClientInv BY <1>1, <1>3, <1>5, <1>6 DEF ClientInv, CursorsReachAll
<1> QED BY <1>2, <1>7, <1>8 DEF FillInv

\* Both walks keep their invariants.
LEMMA FillInvariant == FillSpec => []FillInv
<1>1. FillInv /\ [FillNext]_fillVars => FillInv'
  <2> SUFFICES ASSUME FillInv, [FillNext]_fillVars PROVE FillInv' OBVIOUS
  <2>1. CASE UNCHANGED fillVars
    <3>1. history' = history /\ walk' = walk /\ client' = client BY <2>1 DEF fillVars
    <3> QED
      BY <3>1 DEF FillInv, WalkInv, ClientInv, CountedFrom, CompleteIsExact, CursorsReachAll
  <2> QED BY <2>1, WalkStep, ClientStep DEF FillNext
<1> QED BY <1>1, FillStart, PTL DEF FillSpec

\* A sum of fills that _fetch_pnl calls complete counts each fill of its range once,
\* for every history, cap and number of pages, unless one of the walk's own page
\* boundaries parted fills of one millisecond.
THEOREM CompleteSumsAreExact == FillSpec => []CompleteIsExact
<1>1. FillInv => CompleteIsExact BY DEF FillInv, WalkInv
<1> QED BY <1>1, FillInvariant, PTL

\* A client that followed next_cursor to its end has seen every fill once, unless one
\* of its own page boundaries parted fills of one millisecond.
THEOREM CursorsCoverHistory == FillSpec => []CursorsReachAll
<1>1. FillInv => CursorsReachAll BY DEF FillInv, ClientInv
<1> QED BY <1>1, FillInvariant, PTL

(***************************************************************************)
(* CandleHistory: the pages of candles.  Every step keeps the cache whole, *)
(* save for the bars that were skipped, and a walk that ends early ends at *)
(* a chunk without bars.                                                   *)
(***************************************************************************)

\* An answer is a part of the range; a range of at most a chunk is answered in full.
LEMMA SnapshotProperties ==
  ASSUME NEW first \in Nat, NEW last \in Int, clock \in Nat
  PROVE  /\ TradedBars(first, last) \subseteq 0..clock
         /\ \A bars \in Snapshots(first, last) : bars \subseteq TradedBars(first, last)
         /\ last - first < ChunkBars => Snapshots(first, last) = {TradedBars(first, last)}
<1> DEFINE has == TradedBars(first, last)
<1>1. ChunkBars \in Nat /\ ChunkBars > 0 BY HistoryAssumption DEF HistoryAssumption
<1>2. has \subseteq 0..clock /\ has \subseteq first..last BY DEF TradedBars
<1>3. /\ IsFiniteSet(first..last)
      /\ Cardinality(first..last) = IF first > last THEN 0 ELSE last - first + 1
  <2>1. first \in Int OBVIOUS
  <2> QED BY <2>1, FS_Interval
<1>4. /\ IsFiniteSet(has) /\ Cardinality(has) \in Nat
      /\ Cardinality(has) <= Cardinality(first..last)
  BY <1>2, <1>3, FS_Subset, FS_CardinalityType
<1>5. Snapshots(first, last) =
        IF Cardinality(has) <= ChunkBars THEN {has}
        ELSE {NewestBars(ChunkBars, has), OldestBars(ChunkBars, has)}
  BY DEF Snapshots
<1> HIDE DEF has
<1>6. \A bars \in Snapshots(first, last) : bars \subseteq has
  <2>1. NewestBars(ChunkBars, has) \subseteq has BY DEF NewestBars
  <2>2. OldestBars(ChunkBars, has) \subseteq has BY DEF OldestBars
  <2> QED BY <1>5, <2>1, <2>2
<1>7. last - first < ChunkBars => Cardinality(has) <= ChunkBars BY <1>1, <1>3, <1>4
<1> QED BY <1>2, <1>5, <1>6, <1>7 DEF has

PageState ==
  [at : {"idle", "lock", "topup", "count", "fill", "release", "read", "served"},
   asked : Nat \union {NoBar}, limit : Nat, now : Nat, end : Nat, anchor : Nat \union {NoBar},
   chunks : Nat, bars : SUBSET Nat, linked : BOOLEAN]

HistoryTypeOK ==
  /\ clock \in Nat /\ skipped \in SUBSET Nat /\ historyFaults \in Nat
  /\ closed \subseteq 0..clock /\ open \subseteq 0..clock
  /\ page \in [PageRequest -> PageState]
  /\ \A r \in PageRequest : page[r].now <= clock

Holding == {"topup", "count", "fill", "release"}

\* One request at a time fetches.
OneFetches ==
  /\ \A r \in PageRequest : page[r].at \in Holding => r \in fetchLock
  /\ \A r, s \in fetchLock : r = s

\* Between two cached bars all that were traded are cached or were skipped.
NoGaps(bars, left) ==
  \A a, b \in bars : \A c \in Nat : a <= c /\ c <= b => c \in bars \union NeverTraded \union left

Below(end, bars) == {b \in bars : b < end}

\* A linked cursor is the place of a cached bar.
CursorIsCached(p, bars) == p.linked => p.end = p.asked /\ p.asked \in bars

\* A walk goes on below all that is cached before its end.
AnchorHolds(p, bars) ==
  p.at = "fill" =>
    /\ p.anchor \in Nat /\ p.anchor <= p.end
    /\ p.anchor = p.end \/ p.anchor \in bars
    /\ \A b \in bars : b < p.end => p.anchor <= b

\* What PagesHaveNoHoles says of one page.
WholePage(p, left) ==
  p.at = "served" /\ p.bars # {} =>
    LET last == IF p.linked THEN p.asked - 1 ELSE Max(p.bars)
    IN  \A b \in Min(p.bars)..last : b \in p.bars \union NeverTraded \union left

PageHolds(p, bars, left) == CursorIsCached(p, bars) /\ AnchorHolds(p, bars) /\ WholePage(p, left)

\* No bar of the chunk before a place was traded by the time of the request.
PauseBefore(a, p) ==
  \A b \in Nat : a - ChunkBars <= b /\ b < a /\ b <= p.now => b \in NeverTraded

\* A walk that ended with less than it wanted met a pause.
WalkMetPause(p, bars) ==
  p.at \in {"release", "read"} /\ p.chunks < MaxChunks /\ Cardinality(Below(p.end, bars)) < p.limit
    => \E a \in Below(p.end, bars) \union {p.end} : PauseBefore(a, p)

\* What ShortPagesMeetAPause says of one page.
PageShowsPause(p) ==
  p.at = "served" /\ p.chunks < MaxChunks /\ Cardinality(p.bars) < p.limit
    => \E a \in p.bars \union {p.end} : PauseBefore(a, p)

MeetsPauses(p, bars) == WalkMetPause(p, bars) /\ PageShowsPause(p)

HistoryInv ==
  /\ HistoryTypeOK /\ OneFetches /\ NoGaps(Cached, skipped)
  /\ \A r \in PageRequest : PageHolds(page[r], Cached, skipped)
  /\ historyFaults = 0 => \A r \in PageRequest : MeetsPauses(page[r], Cached)

\* The cache is a finite set of bars up to the present.
LEMMA CachedBars ==
  ASSUME HistoryTypeOK
  PROVE  /\ Cached \in SUBSET Nat /\ Cached \subseteq 0..clock /\ \A b \in Cached : b <= clock
         /\ IsFiniteSet(Cached)
<1>1. clock \in Nat /\ Cached \subseteq 0..clock BY DEF HistoryTypeOK, Cached
<1>2. 0 \in Int /\ clock \in Int BY <1>1
<1>3. IsFiniteSet(0..clock) BY <1>2, FS_Interval
<1>4. IsFiniteSet(Cached) BY <1>1, <1>3, FS_Subset
<1> QED BY <1>1, <1>4

\* A cache that grows still has what it had.
LEMMA StillMeetsPauses ==
  ASSUME NEW p \in PageState, NEW bars, NEW more, bars \subseteq more, IsFiniteSet(more),
         MeetsPauses(p, bars)
  PROVE  MeetsPauses(p, more)
<1>0. PageShowsPause(p) BY DEF MeetsPauses
<1> SUFFICES WalkMetPause(p, more) BY <1>0 DEF MeetsPauses
<1> SUFFICES ASSUME p.at \in {"release", "read"}, p.chunks < MaxChunks,
                    Cardinality(Below(p.end, more)) < p.limit
             PROVE  \E a \in Below(p.end, more) \union {p.end} : PauseBefore(a, p)
  BY DEF WalkMetPause
<1>1. Below(p.end, bars) \subseteq Below(p.end, more) BY DEF Below
<1>2. IsFiniteSet(Below(p.end, more))
  <2>1. Below(p.end, more) \subseteq more BY DEF Below
  <2> QED BY <2>1, FS_Subset
<1>3. /\ Cardinality(Below(p.end, bars)) <= Cardinality(Below(p.end, more))
      /\ Cardinality(Below(p.end, bars)) \in Nat /\ Cardinality(Below(p.end, more)) \in Nat
  BY <1>1, <1>2, FS_Subset, FS_CardinalityType
<1>4. p.limit \in Nat BY DEF PageState
<1>5. Cardinality(Below(p.end, bars)) < p.limit BY <1>3, <1>4
<1>6. PICK a \in Below(p.end, bars) \union {p.end} : PauseBefore(a, p)
  BY <1>5 DEF MeetsPauses, WalkMetPause
<1> QED BY <1>1, <1>6

\* One request goes on, and may add bars to the cache when it holds the lock.
LEMMA PageGoesOn ==
  ASSUME HistoryInv, NEW r \in PageRequest, NEW x \in PageState, NEW new \in SUBSET (0..clock),
         page' = [page EXCEPT ![r] = x], clock' = clock,
         closed' \subseteq 0..clock, open' \subseteq 0..clock, Cached' = Cached \union new,
         skipped \subseteq skipped', skipped' \in SUBSET Nat,
         historyFaults' \in Nat, historyFaults' = 0 => historyFaults = 0,
         x.at \in Holding => r \in fetchLock',
         \A s \in fetchLock : s # r => s \in fetchLock',
         \A s, u \in fetchLock' : s = u,
         new = {} \/ r \in fetchLock,
         NoGaps(Cached \union new, skipped'),
         x.now <= clock, PageHolds(x, Cached \union new, skipped'),
         historyFaults' = 0 => MeetsPauses(x, Cached \union new)
  PROVE  HistoryInv'
<1>1. /\ HistoryTypeOK /\ OneFetches
      /\ \A s \in PageRequest : page[s] \in PageState /\ PageHolds(page[s], Cached, skipped)
  BY DEF HistoryInv, HistoryTypeOK
<1>2. /\ page' \in [PageRequest -> PageState] /\ page'[r] = x
      /\ \A s \in PageRequest : s # r => page'[s] = page[s]
  BY DEF HistoryInv, HistoryTypeOK
<1>3. HistoryTypeOK' BY <1>2 DEF HistoryInv, HistoryTypeOK
<1>4. OneFetches' BY <1>2 DEF HistoryInv, OneFetches
<1>5. ASSUME NEW s \in PageRequest PROVE PageHolds(page'[s], Cached', skipped')
  <2>1. CASE s = r BY <1>2, <2>1
  <2>2. CASE s # r
    <3>1. /\ page'[s] = page[s] /\ CursorIsCached(page[s], Cached)
          /\ AnchorHolds(page[s], Cached) /\ WholePage(page[s], skipped)
      BY <1>1, <1>2, <2>2 DEF PageHolds
    <3>2. CursorIsCached(page[s], Cached') BY <3>1 DEF CursorIsCached
    <3>3. AnchorHolds(page[s], Cached')
      <4>1. page[s].at = "fill" => new = {}
        BY <1>1, <2>2 DEF OneFetches, Holding
      <4>2. new = {} => Cached' = Cached OBVIOUS
      <4>3. page[s].at # "fill" => AnchorHolds(page[s], Cached') BY DEF AnchorHolds
      <4> QED BY <3>1, <4>1, <4>2, <4>3
    <3>4. WholePage(page[s], skipped') BY <3>1 DEF WholePage
    <3> QED BY <3>1, <3>2, <3>3, <3>4 DEF PageHolds
  <2> QED BY <2>1, <2>2
<1>6. ASSUME historyFaults' = 0, NEW s \in PageRequest PROVE MeetsPauses(page'[s], Cached')
  <2>1. CASE s = r BY <1>2, <1>6, <2>1
  <2>2. CASE s # r
    <3>1. MeetsPauses(page[s], Cached) BY <1>6 DEF HistoryInv
    <3>2. clock' \in Nat /\ Cached' \subseteq 0..clock BY <1>1 DEF HistoryTypeOK, Cached
    <3>3. 0 \in Int /\ clock \in Int BY <3>2
    <3>4. IsFiniteSet(0..clock) BY <3>3, FS_Interval
    <3>5. IsFiniteSet(Cached') /\ Cached \subseteq Cached' BY <3>2, <3>4, FS_Subset
    <3> HIDE DEF HistoryInv
    <3>6. MeetsPauses(page[s], Cached') BY <1>1, <3>1, <3>5, StillMeetsPauses
    <3> QED BY <1>2, <2>2, <3>6
  <2> QED BY <2>1, <2>2
<1>7. NoGaps(Cached', skipped') OBVIOUS
<1> QED
  BY <1>3, <1>4, <1>5, <1>6, <1>7
  DEF HistoryInv, PageHolds, CursorIsCached, AnchorHolds, WholePage, NoGaps, MeetsPauses,
      WalkMetPause, PageShowsPause, PauseBefore, Below

\* A request goes on without a bar for the cache.
LEMMA PageMovesAlone ==
  ASSUME HistoryInv, NEW r \in PageRequest, NEW x \in PageState,
         page' = [page EXCEPT ![r] = x], UNCHANGED <<clock, cache, skipped>>,
         historyFaults' \in Nat, historyFaults' = 0 => historyFaults = 0,
         x.at \in Holding => r \in fetchLock',
         \A s \in fetchLock : s # r => s \in fetchLock',
         \A s, u \in fetchLock' : s = u,
         x.now <= clock, PageHolds(x, Cached, skipped),
         historyFaults' = 0 => MeetsPauses(x, Cached)
  PROVE  HistoryInv'
<1>1. /\ clock' = clock /\ skipped \subseteq skipped' /\ skipped' \in SUBSET Nat /\ skipped' = skipped
      /\ closed' \subseteq 0..clock /\ open' \subseteq 0..clock
      /\ Cached' = Cached \union {} /\ Cached \union {} = Cached
  BY DEF cache, HistoryInv, HistoryTypeOK, Cached
<1>2. {} \in SUBSET (0..clock) OBVIOUS
<1>3. NoGaps(Cached \union {}, skipped') BY <1>1 DEF HistoryInv
<1>4. PageHolds(x, Cached \union {}, skipped') BY <1>1
<1>5. historyFaults' = 0 => MeetsPauses(x, Cached \union {}) BY <1>1
<1> QED BY <1>1, <1>2, <1>3, <1>4, <1>5, PageGoesOn

\* What is known of a request and of the cache.
LEMMA PageParts ==
  ASSUME HistoryInv, NEW r \in PageRequest
  PROVE  /\ page[r] \in PageState /\ page[r].end \in Nat /\ page[r].now \in Nat
         /\ page[r].limit \in Nat /\ page[r].chunks \in Nat
         /\ page[r].now <= clock /\ clock \in Nat /\ historyFaults \in Nat
         /\ CursorIsCached(page[r], Cached) /\ AnchorHolds(page[r], Cached)
         /\ page[r].at \in Holding => r \in fetchLock
         /\ \A s, u \in fetchLock : s = u
         /\ ChunkBars \in Nat /\ ChunkBars > 0 /\ MaxChunks \in Nat
         /\ HistoryTypeOK /\ NoGaps(Cached, skipped)
<1>1. page[r] \in PageState BY DEF HistoryInv, HistoryTypeOK
<1>2. ChunkBars \in Nat /\ ChunkBars > 0 /\ MaxChunks \in Nat
  BY HistoryAssumption DEF HistoryAssumption
<1> QED BY <1>1, <1>2 DEF HistoryInv, HistoryTypeOK, OneFetches, PageHolds, PageState

\* A new request: its end is its cursor or the present.
LEMMA GetPageStep ==
  ASSUME HistoryInv, NEW r \in PageRequest, NEW cursor \in Cursors \union {NoBar},
         NEW limit \in PageSizes, GetPage(r, cursor, limit)
  PROVE  HistoryInv'
<1> DEFINE end == IF cursor = NoBar THEN clock + 1 ELSE cursor
           linked == cursor \in Cached
           x == [NoPage EXCEPT !.at = "lock", !.asked = cursor, !.limit = limit, !.now = clock,
                               !.end = end, !.linked = linked]
<1>1. /\ page' = [page EXCEPT ![r] = x]
      /\ UNCHANGED <<clock, cache, fetchLock, historyFaults, skipped>>
  BY DEF GetPage, cache
<1>2. /\ clock \in Nat /\ historyFaults \in Nat /\ \A s, u \in fetchLock : s = u
      /\ Cached \in SUBSET Nat
  BY PageParts, CachedBars
<1>3. cursor \in Nat \union {NoBar} /\ limit \in Nat /\ NoBar \notin Nat
  BY HistoryAssumption DEF HistoryAssumption
<1>4. end \in Nat /\ linked \in BOOLEAN /\ (linked => end = cursor) BY <1>2, <1>3
<1> HIDE DEF end, linked
<1>5. NoPage \in PageState /\ NoPage.chunks = 0 BY DEF NoPage, PageState
<1>6. /\ x \in PageState
      /\ x.at = "lock" /\ x.now = clock /\ x.linked = linked /\ x.end = end /\ x.asked = cursor
  BY <1>2, <1>3, <1>4, <1>5 DEF PageState
<1>7. x.at = "lock" /\ x.now = clock /\ x.linked = linked /\ x.end = end /\ x.asked = cursor BY <1>6
<1> HIDE DEF x
<1>8. PageHolds(x, Cached, skipped)
  <2>1. CursorIsCached(x, Cached) BY <1>4, <1>7 DEF CursorIsCached, linked
  <2> QED BY <1>7, <2>1 DEF PageHolds, AnchorHolds, WholePage
<1>9. MeetsPauses(x, Cached) /\ x.at \notin Holding /\ x.now <= clock
  BY <1>2, <1>7 DEF MeetsPauses, WalkMetPause, PageShowsPause, Holding
<1> QED BY <1>1, <1>2, <1>6, <1>8, <1>9, PageMovesAlone

\* A request takes the lock.
LEMMA LockedStep ==
  ASSUME HistoryInv, NEW r \in PageRequest, Locked(r) PROVE HistoryInv'
<1> DEFINE at == IF page[r].asked = NoBar THEN "topup" ELSE "count"
           x == [page[r] EXCEPT !.at = at]
<1>1. /\ page' = [page EXCEPT ![r] = x] /\ UNCHANGED <<clock, cache, historyFaults, skipped>>
      /\ page[r].at = "lock" /\ fetchLock = {} /\ fetchLock' = {r}
  BY DEF Locked, cache
<1>2. /\ at \in {"topup", "count"}
      /\ at \in {"idle", "lock", "topup", "count", "fill", "release", "read", "served"}
  OBVIOUS
<1> HIDE DEF at
<1>3. /\ page[r] \in PageState /\ page[r].now <= clock /\ historyFaults \in Nat
      /\ CursorIsCached(page[r], Cached)
  BY PageParts
<1>4. /\ x \in PageState /\ x.at = at /\ x.asked = page[r].asked /\ x.end = page[r].end
      /\ x.linked = page[r].linked /\ x.now = page[r].now
  BY <1>2, <1>3 DEF PageState
<1> HIDE DEF x
<1>5. PageHolds(x, Cached, skipped)
  BY <1>2, <1>3, <1>4 DEF PageHolds, CursorIsCached, AnchorHolds, WholePage
<1>6. MeetsPauses(x, Cached)
  BY <1>2, <1>4 DEF MeetsPauses, WalkMetPause, PageShowsPause
<1> QED BY <1>1, <1>3, <1>4, <1>5, <1>6, PageMovesAlone

\* A request that finds enough bars in the cache does not fetch.
LEMMA CountStep ==
  ASSUME HistoryInv, NEW r \in PageRequest, Count(r) PROVE HistoryInv'
<1> DEFINE have == Before(page[r].end)
           at == IF Cardinality(have) < page[r].limit THEN "fill" ELSE "release"
           anchor == IF have = {} THEN page[r].end ELSE Min(have)
           x == [page[r] EXCEPT !.at = at, !.anchor = anchor]
<1>1. /\ page' = [page EXCEPT ![r] = x]
      /\ UNCHANGED <<clock, cache, fetchLock, historyFaults, skipped>>
      /\ page[r].at = "count"
  BY DEF Count, cache
<1>2. /\ page[r] \in PageState /\ page[r].end \in Nat /\ page[r].now <= clock
      /\ historyFaults \in Nat /\ CursorIsCached(page[r], Cached)
      /\ r \in fetchLock /\ \A s, u \in fetchLock : s = u
      /\ Cached \in SUBSET Nat
  BY <1>1, PageParts, CachedBars DEF Holding
<1>3. have \in SUBSET Nat /\ have = Below(page[r].end, Cached) BY <1>2 DEF Before, Below
<1> HIDE DEF have
<1>4. /\ anchor \in Nat /\ anchor <= page[r].end
      /\ anchor = page[r].end \/ anchor \in Cached
      /\ \A b \in Cached : b < page[r].end => anchor <= b
  <2>1. CASE have = {}
    <3>1. anchor = page[r].end BY <2>1
    <3>2. \A b \in Cached : ~ b < page[r].end BY <1>3, <2>1 DEF Below
    <3> HIDE DEF anchor
    <3>3. anchor \in Nat /\ anchor <= page[r].end BY <1>2, <3>1
    <3> QED BY <1>2, <3>1, <3>2, <3>3
  <2>2. CASE have # {}
    <3>1. anchor = Min(have) BY <2>2
    <3>2. anchor \in have /\ anchor \in Nat /\ \A b \in have : anchor <= b
      <4> HIDE DEF anchor
      <4>1. Min(have) \in have /\ \A b \in have : Min(have) <= b BY <1>3, <2>2, MinProperties
      <4> QED BY <1>3, <3>1, <4>1
    <3> HIDE DEF anchor
    <3>3. anchor \in Below(page[r].end, Cached) BY <1>3, <3>2
    <3>4. anchor \in Cached /\ anchor < page[r].end BY <3>3 DEF Below
    <3>5. \A b \in Cached : b < page[r].end => anchor <= b
      <4> TAKE b \in Cached
      <4> HAVE b < page[r].end
      <4>1. b \in Below(page[r].end, Cached) BY DEF Below
      <4> QED BY <1>3, <3>2, <4>1
    <3>6. anchor <= page[r].end BY <1>2, <3>2, <3>4
    <3> QED BY <3>2, <3>4, <3>5, <3>6
  <2> QED BY <2>1, <2>2
<1>5. at \in {"fill", "release"} /\ (at = "release" => ~ Cardinality(have) < page[r].limit)
  OBVIOUS
<1> HIDE DEF at, anchor
<1>6. /\ x \in PageState /\ x.at = at /\ x.asked = page[r].asked /\ x.end = page[r].end
      /\ x.linked = page[r].linked /\ x.now = page[r].now /\ x.limit = page[r].limit
      /\ x.anchor = anchor
  BY <1>2, <1>4, <1>5 DEF PageState
<1> HIDE DEF x
<1>7. PageHolds(x, Cached, skipped)
  BY <1>2, <1>4, <1>5, <1>6 DEF PageHolds, CursorIsCached, AnchorHolds, WholePage
<1>8. MeetsPauses(x, Cached)
  <2>1. x.at = "release" => ~ Cardinality(Below(x.end, Cached)) < x.limit BY <1>3, <1>5, <1>6
  <2>2. x.at \notin {"read", "served"} BY <1>5, <1>6
  <2> QED BY <2>1, <2>2 DEF MeetsPauses, WalkMetPause, PageShowsPause
<1> QED BY <1>1, <1>2, <1>6, <1>7, <1>8, PageMovesAlone

\* A request gives the lock back.
LEMMA ReleaseStep ==
  ASSUME HistoryInv, NEW r \in PageRequest, Release(r) PROVE HistoryInv'
<1> DEFINE x == [page[r] EXCEPT !.at = "read", !.anchor = NoBar]
<1>1. /\ page' = [page EXCEPT ![r] = x] /\ UNCHANGED <<clock, cache, historyFaults, skipped>>
      /\ page[r].at = "release" /\ fetchLock' = {}
  BY DEF Release, cache
<1>2. /\ page[r] \in PageState /\ page[r].now <= clock /\ historyFaults \in Nat
      /\ CursorIsCached(page[r], Cached) /\ r \in fetchLock /\ \A s, u \in fetchLock : s = u
  BY <1>1, PageParts DEF Holding
<1>3. /\ x \in PageState /\ x.at = "read" /\ x.asked = page[r].asked /\ x.end = page[r].end
      /\ x.linked = page[r].linked /\ x.now = page[r].now /\ x.limit = page[r].limit
      /\ x.chunks = page[r].chunks
  BY <1>2 DEF PageState
<1> HIDE DEF x
<1>4. PageHolds(x, Cached, skipped) /\ x.at \notin Holding
  BY <1>2, <1>3 DEF PageHolds, CursorIsCached, AnchorHolds, WholePage, Holding
<1>5. historyFaults' = 0 => MeetsPauses(x, Cached)
  <2> SUFFICES ASSUME historyFaults = 0 PROVE MeetsPauses(x, Cached) BY <1>1
  <2>1. WalkMetPause(page[r], Cached) BY DEF HistoryInv, MeetsPauses
  <2>2. WalkMetPause(x, Cached) BY <1>1, <1>3, <2>1 DEF WalkMetPause, PauseBefore
  <2> QED BY <1>3, <2>2 DEF MeetsPauses, PageShowsPause
<1> QED BY <1>1, <1>2, <1>3, <1>4, <1>5, PageMovesAlone

\* A served request is forgotten.
LEMMA ForgetStep ==
  ASSUME HistoryInv, NEW r \in PageRequest, Forget(r) PROVE HistoryInv'
<1>1. /\ page' = [page EXCEPT ![r] = NoPage]
      /\ UNCHANGED <<clock, cache, fetchLock, historyFaults, skipped>>
  BY DEF Forget, cache
<1>2. NoPage \in PageState /\ NoPage.at = "idle" /\ NoPage.now = 0 /\ NoPage.linked = FALSE
  BY DEF NoPage, PageState
<1>3. (\A s, u \in fetchLock : s = u) /\ historyFaults \in Nat /\ clock \in Nat BY PageParts
<1>4. NoPage.at \notin Holding /\ NoPage.now <= clock BY <1>2, <1>3 DEF Holding
<1>5. PageHolds(NoPage, Cached, skipped) /\ MeetsPauses(NoPage, Cached)
  BY <1>2 DEF PageHolds, CursorIsCached, AnchorHolds, WholePage, MeetsPauses, WalkMetPause,
              PageShowsPause
<1> QED BY <1>1, <1>2, <1>3, <1>4, <1>5, PageMovesAlone

\* The newest bars of a set are its upper part.
LEMMA NewestAreUpper ==
  ASSUME NEW bars, IsFiniteSet(bars), bars \subseteq Nat, NEW n \in Nat
  PROVE  /\ NewestBars(n, bars) \subseteq bars
         /\ \A b \in NewestBars(n, bars), c \in bars : c >= b => c \in NewestBars(n, bars)
<1> SUFFICES ASSUME NEW b \in NewestBars(n, bars), NEW c \in bars, c >= b
             PROVE  c \in NewestBars(n, bars)
  BY DEF NewestBars
<1> DEFINE A == {d \in bars : d > b}
           C == {d \in bars : d > c}
<1>1. b \in bars /\ Cardinality(A) < n BY DEF NewestBars
<1>2. b \in Nat /\ c \in Nat /\ \A d \in bars : d \in Nat BY <1>1
<1>3. \A d \in bars : d > c => d > b BY <1>2
<1>4. C \subseteq A BY <1>3
<1>5. IsFiniteSet(A) BY FS_Subset
<1>6. Cardinality(C) <= Cardinality(A) /\ IsFiniteSet(C) BY <1>4, <1>5, FS_Subset
<1>7. Cardinality(C) \in Nat /\ Cardinality(A) \in Nat BY <1>5, <1>6, FS_CardinalityType
<1> HIDE DEF A
<1>8. Cardinality(C) < n BY <1>1, <1>6, <1>7
<1> QED BY <1>8 DEF NewestBars

\* Of fewer bars than asked for all are given.
LEMMA NewestOfFew ==
  ASSUME NEW B \in SUBSET Nat, IsFiniteSet(B), NEW end \in Nat, \A b \in B : b < end,
         NEW n \in Nat, Cardinality(NewestBars(n, B)) < n
  PROVE  NewestBars(n, B) = B
<1> DEFINE N == NewestBars(n, B)
           left == B \ N
<1>1. N \subseteq B BY DEF NewestBars
<1>2. SUFFICES ASSUME left # {} PROVE FALSE BY <1>1
<1>4. left \in SUBSET Nat /\ \A b \in left : b <= end
  <2>1. \A b \in left : b \in B /\ b \in Nat BY DEF left
  <2>2. \A b \in left : b < end BY <2>1
  <2> HIDE DEF left
  <2>3. \A b \in left : b <= end BY <2>1, <2>2
  <2> QED BY <2>1, <2>3
<1> DEFINE m == Max(left)
<1> HIDE DEF left
<1>5. m \in left /\ \A b \in left : b <= m BY <1>2, <1>4, MaxProperties
<1> HIDE DEF m
<1> DEFINE over == {c \in B : c > m}
<1>6. m \in B /\ ~ Cardinality(over) < n BY <1>5 DEF left, NewestBars
<1>7. over \subseteq N
  <2> SUFFICES ASSUME NEW c \in B, c > m, c \notin N PROVE FALSE OBVIOUS
  <2>1. c \in left BY DEF left
  <2>2. c <= m /\ c \in Nat /\ m \in Nat BY <1>5, <1>6, <2>1
  <2> QED BY <2>2
<1> HIDE DEF over, N
<1>8. IsFiniteSet(N) /\ Cardinality(N) \in Nat BY <1>1, FS_Subset, FS_CardinalityType
<1>9. Cardinality(over) <= Cardinality(N) /\ Cardinality(over) \in Nat
  BY <1>7, <1>8, FS_Subset, FS_CardinalityType
<1> QED BY <1>6, <1>8, <1>9 DEF N

\* The page is read: it has no holes because the cache has none, and if it is short
\* it has all that is cached before its end.
LEMMA ReadPageStep ==
  ASSUME HistoryInv, NEW r \in PageRequest, ReadPage(r) PROVE HistoryInv'
<1> DEFINE before == Below(page[r].end, Cached)
           bars == NewestBars(page[r].limit, before)
           x == [page[r] EXCEPT !.at = "served", !.bars = bars]
<1>1. /\ page' = [page EXCEPT ![r] = x]
      /\ UNCHANGED <<clock, cache, fetchLock, historyFaults, skipped>>
      /\ page[r].at = "read"
  BY DEF ReadPage, cache, Before, Below
<1>2. /\ page[r] \in PageState /\ page[r].end \in Nat /\ page[r].limit \in Nat
      /\ page[r].now <= clock /\ clock \in Nat /\ historyFaults \in Nat
      /\ CursorIsCached(page[r], Cached) /\ NoGaps(Cached, skipped)
      /\ \A s, u \in fetchLock : s = u
      /\ Cached \in SUBSET Nat /\ IsFiniteSet(Cached) /\ \A b \in Cached : b <= clock
  BY PageParts, CachedBars
<1>3. /\ before \in SUBSET Cached /\ before \in SUBSET Nat
      /\ \A b \in Cached : b < page[r].end <=> b \in before
  BY <1>2 DEF Below
<1>4. IsFiniteSet(before) BY <1>2, <1>3, FS_Subset
<1> HIDE DEF before
<1>5. /\ bars \subseteq before
      /\ \A b \in bars, c \in before : c >= b => c \in bars
  BY <1>2, <1>3, <1>4, NewestAreUpper
<1>6. Cardinality(bars) < page[r].limit => bars = before
  <2>1. \A b \in before : b < page[r].end BY <1>3
  <2> QED BY <1>2, <1>3, <1>4, <2>1, NewestOfFew
<1> HIDE DEF bars
<1>7. /\ x \in PageState /\ x.at = "served" /\ x.bars = bars /\ x.asked = page[r].asked
      /\ x.end = page[r].end /\ x.linked = page[r].linked /\ x.now = page[r].now
      /\ x.limit = page[r].limit /\ x.chunks = page[r].chunks
  BY <1>2, <1>3, <1>5 DEF PageState
<1> HIDE DEF x
<1>8. WholePage(x, skipped)
  <2> SUFFICES ASSUME bars # {},
                      NEW b \in Min(bars)..(IF page[r].linked THEN page[r].asked - 1 ELSE Max(bars))
               PROVE  b \in bars \union NeverTraded \union skipped
    BY <1>7 DEF WholePage
  <2>1. bars \in SUBSET Nat /\ \A c \in bars : c <= clock BY <1>2, <1>3, <1>5
  <2>2. Min(bars) \in bars BY <2>1, MinProperties
  <2>3. Max(bars) \in bars BY <1>2, <2>1, MaxProperties
  <2>4. PICK m \in bars : m = Min(bars) BY <2>2
  <2>5. m \in Cached /\ m \in Nat BY <1>3, <1>5, <2>1
  <2>6. PICK l \in Cached : b <= l /\ b < page[r].end /\ b \in Nat /\ m <= b
    <3>1. CASE ~page[r].linked
      <4>1. PICK l \in bars : l = Max(bars) BY <2>3
      <4>2. l \in Cached /\ l \in Nat /\ l < page[r].end BY <1>3, <1>5, <2>1
      <4>3. b \in m..l BY <2>4, <3>1, <4>1
      <4> QED BY <1>2, <2>5, <4>2, <4>3
    <3>2. CASE page[r].linked
      <4>1. page[r].end = page[r].asked /\ page[r].end \in Cached
        BY <1>2, <3>2 DEF CursorIsCached
      <4>2. b \in m..(page[r].end - 1) BY <2>4, <3>2, <4>1
      <4> QED BY <1>2, <2>5, <4>1, <4>2
    <3> QED BY <3>1, <3>2
  <2>7. b \in Cached \union NeverTraded \union skipped
    BY <1>2, <2>5, <2>6 DEF NoGaps
  <2>8. b \in Cached => b \in bars BY <1>3, <1>5, <2>5, <2>6
  <2> QED BY <2>7, <2>8
<1>9. PageHolds(x, Cached, skipped)
  BY <1>2, <1>7, <1>8 DEF PageHolds, CursorIsCached, AnchorHolds
<1>10. historyFaults' = 0 => MeetsPauses(x, Cached)
  <2> SUFFICES ASSUME historyFaults = 0, page[r].chunks < MaxChunks,
                      Cardinality(bars) < page[r].limit
               PROVE  \E a \in bars \union {page[r].end} : PauseBefore(a, page[r])
    <3>1. (\E a \in bars \union {page[r].end} : PauseBefore(a, page[r]))
             => \E a \in x.bars \union {x.end} : PauseBefore(a, x)
      BY <1>7 DEF PauseBefore
    <3>2. WalkMetPause(x, Cached) BY <1>7 DEF WalkMetPause
    <3> QED BY <1>1, <1>7, <3>1, <3>2 DEF MeetsPauses, PageShowsPause
  <2>1. WalkMetPause(page[r], Cached) BY DEF HistoryInv, MeetsPauses
  <2>2. Below(page[r].end, Cached) = bars BY <1>6 DEF before
  <2> QED BY <1>1, <2>1, <2>2 DEF WalkMetPause
<1>11. x.at \notin Holding BY <1>7 DEF Holding
<1> QED BY <1>1, <1>2, <1>7, <1>9, <1>10, <1>11, PageMovesAlone

\* A bar closes and the next one opens.
LEMMA TimeStep ==
  ASSUME HistoryInv, TimePasses PROVE HistoryInv'
<1> USE DEF HistoryInv
<1>1. /\ clock' = clock + 1 /\ clock \in Nat
      /\ closed' = closed /\ open' = open /\ page' = page /\ fetchLock' = fetchLock
      /\ skipped' = skipped /\ historyFaults' = historyFaults /\ Cached' = Cached
  BY DEF TimePasses, cache, Cached, HistoryTypeOK
<1>2. HistoryTypeOK'
  <2>1. 0..clock \subseteq 0..(clock + 1) BY <1>1
  <2>2. \A r \in PageRequest : page[r].now \in Nat /\ page[r].now <= clock
    BY DEF HistoryTypeOK, PageState
  <2>3. \A r \in PageRequest : page[r].now <= clock + 1 BY <1>1, <2>2
  <2> QED BY <1>1, <2>1, <2>3 DEF HistoryTypeOK
<1>3. OneFetches' /\ NoGaps(Cached, skipped)' BY <1>1 DEF OneFetches, NoGaps
<1>4. (\A r \in PageRequest : PageHolds(page[r], Cached, skipped))'
  BY <1>1 DEF PageHolds, CursorIsCached, AnchorHolds, WholePage
<1>5. (historyFaults = 0 => \A r \in PageRequest : MeetsPauses(page[r], Cached))'
  BY <1>1 DEF MeetsPauses, WalkMetPause, PageShowsPause, PauseBefore, Below
<1> QED BY <1>2, <1>3, <1>4, <1>5

\* An answer that is stored adds its bars to the cache.
LEMMA UpsertAdds ==
  ASSUME clock \in Nat, closed \subseteq 0..clock, open \subseteq 0..clock,
         NEW bars \in SUBSET (0..clock), Upsert(bars)
  PROVE  /\ closed' \subseteq 0..clock /\ open' \subseteq 0..clock
         /\ Cached' = Cached \union bars
BY DEF Upsert, Cached

\* The start of a chunk is not before time 0.
LEMMA MaxOfZero ==
  ASSUME NEW k \in Int
  PROVE  Max({0, k}) \in Nat /\ k <= Max({0, k}) /\ (Max({0, k}) = 0 \/ Max({0, k}) = k)
<1>1. \E m \in {0, k} : \A n \in {0, k} : m >= n OBVIOUS
<1>2. Max({0, k}) \in {0, k} /\ \A n \in {0, k} : Max({0, k}) >= n BY <1>1 DEF Max
<1> QED BY <1>2

\* A chunk that is answered in full joins the cache without a gap, but for the bars
\* between the end of a walk and a cache that lies above it.
LEMMA JoinedBelow ==
  ASSUME HistoryTypeOK, NoGaps(Cached, skipped), NEW first \in Nat, NEW anchor \in Nat,
         NEW end \in Nat, anchor <= end, anchor = end \/ anchor \in Cached,
         \A b \in Cached : b < end => anchor <= b
  PROVE  NoGaps(Cached \union TradedBars(first, anchor - 1), skipped \union PassedOver(end))
<1> DEFINE has == TradedBars(first, anchor - 1)
           passed == PassedOver(end)
<1>1. \A b \in Nat : b \in has <=>
        first <= b /\ b <= anchor - 1 /\ b <= clock /\ b \notin NeverTraded
  BY DEF TradedBars
<1>2. has \subseteq Nat /\ Cached \in SUBSET Nat /\ \A b \in Cached : b <= clock
  BY CachedBars DEF TradedBars
<1>3. clock \in Nat BY DEF HistoryTypeOK
<1> HIDE DEF has, passed
<1> SUFFICES ASSUME NEW a \in Cached \union has, NEW b \in Cached \union has,
                    NEW c \in Nat, a <= c, c <= b, c \notin NeverTraded
             PROVE  c \in Cached \union has \union skipped \union passed
  BY DEF NoGaps, has, passed
<1>4. a \in Nat /\ b \in Nat /\ c <= clock BY <1>1, <1>2, <1>3
<1>5. CASE a \in Cached /\ b \in Cached BY <1>5 DEF NoGaps
<1>6. CASE c <= anchor - 1 /\ first <= c BY <1>1, <1>3, <1>4, <1>6
<1>7. CASE ~ c <= anchor - 1
  <2>1. b \in Cached BY <1>1, <1>2, <1>4, <1>7
  <2>2. CASE anchor \in Cached BY <1>4, <1>7, <2>1, <2>2 DEF NoGaps
  <2>3. CASE anchor = end
    <3>1. \A d \in Cached : ~ d < end BY <1>2, <2>3
    <3>2. Min(Cached) \in Cached BY <1>2, <2>1, MinProperties
    <3>3. PICK m \in Cached : m = Min(Cached) BY <3>2
    <3>4. passed = end..(m - 1) BY <2>1, <3>1, <3>3 DEF passed, PassedOver, Before
    <3>5. CASE m <= c BY <2>1, <3>5 DEF NoGaps
    <3>6. CASE ~ m <= c
      <4>1. m \in Nat BY <1>2
      <4> QED BY <1>7, <2>3, <3>4, <3>6, <4>1
    <3> QED BY <3>5, <3>6
  <2> QED BY <2>2, <2>3
<1>8. CASE c <= anchor - 1 /\ ~ first <= c
  <2>1. a \in Cached BY <1>1, <1>2, <1>4, <1>8
  <2>2. a < end /\ ~ anchor <= a BY <1>4, <1>8
  <2> QED BY <2>1, <2>2
<1> QED BY <1>5, <1>6, <1>7, <1>8

\* An answer from above the cache joins it without a gap, but for what it leaves out.
LEMMA JoinedAbove ==
  ASSUME HistoryTypeOK, NoGaps(Cached, skipped), NEW first \in Nat, NEW last \in Int,
         Cached # {} => first = Max(Cached) + 1,
         NEW bars \in SUBSET TradedBars(first, last)
  PROVE  NoGaps(Cached \union bars, skipped \union (TradedBars(first, last) \ bars))
<1> DEFINE has == TradedBars(first, last)
<1>1. \A b \in Nat : b \in has <=>
        first <= b /\ b <= last /\ b <= clock /\ b \notin NeverTraded
  BY DEF TradedBars
<1>2. has \subseteq Nat /\ Cached \in SUBSET Nat /\ \A b \in Cached : b <= clock
  BY CachedBars DEF TradedBars
<1>3. clock \in Nat BY DEF HistoryTypeOK
<1>4. Cached # {} => Max(Cached) \in Cached /\ \A b \in Cached : b <= Max(Cached)
  BY <1>2, <1>3, MaxProperties
<1> HIDE DEF has
<1> SUFFICES ASSUME NEW a \in Cached \union bars, NEW b \in Cached \union bars,
                    NEW c \in Nat, a <= c, c <= b, c \notin NeverTraded
             PROVE  c \in Cached \union has \union skipped
  BY DEF NoGaps, has
<1>5. a \in Nat /\ b \in Nat /\ bars \subseteq has BY <1>2 DEF has
<1>6. CASE first <= c
  <2>1. CASE b \in has BY <1>1, <1>3, <1>5, <1>6, <2>1
  <2>2. CASE b \in Cached
    <3>1. PICK m \in Nat : m = Max(Cached) /\ b <= m /\ first = m + 1 BY <1>2, <1>4, <2>2
    <3> QED BY <1>5, <1>6, <3>1
  <2> QED BY <1>5, <2>1, <2>2
<1>7. CASE ~ first <= c
  <2>1. a \in Cached BY <1>1, <1>5, <1>7
  <2>2. PICK m \in Cached : first = m + 1 BY <1>4, <2>1
  <2>3. c <= m /\ m \in Nat BY <1>2, <1>7, <2>2
  <2> QED BY <2>1, <2>3 DEF NoGaps
<1> QED BY <1>6, <1>7

\* The top-up stores bars that join the cache, and what it leaves out is skipped.
LEMMA TopUpStep ==
  ASSUME HistoryInv, NEW r \in PageRequest, TopUp(r) PROVE HistoryInv'
<1> DEFINE now == page[r].now
           first == TopUpFrom(r)
           x == [page[r] EXCEPT !.at = "count"]
<1>1. /\ page[r].at = "topup" /\ page' = [page EXCEPT ![r] = x]
      /\ clock' = clock /\ fetchLock' = fetchLock
      /\ \/ UNCHANGED <<cache, skipped>>
            /\ (historyFaults' = historyFaults \/ historyFaults' = historyFaults + 1)
         \/ /\ historyFaults' = historyFaults
            /\ \E bars \in Snapshots(first, now) :
                 /\ Upsert(bars)
                 /\ skipped' = skipped \union (TradedBars(first, now) \ bars)
  BY DEF TopUp, PageGoes, HistoryFault
<1>2. /\ page[r] \in PageState /\ page[r].now \in Nat /\ page[r].now <= clock
      /\ page[r].limit \in Nat /\ clock \in Nat /\ historyFaults \in Nat
      /\ CursorIsCached(page[r], Cached) /\ HistoryTypeOK /\ NoGaps(Cached, skipped)
      /\ r \in fetchLock /\ \A s, u \in fetchLock : s = u
      /\ Cached \in SUBSET Nat /\ \A b \in Cached : b <= clock
      /\ skipped \in SUBSET Nat /\ closed \subseteq 0..clock /\ open \subseteq 0..clock
  BY <1>1, PageParts, CachedBars DEF Holding, HistoryTypeOK
<1>3. /\ x \in PageState /\ x.at = "count" /\ x.asked = page[r].asked /\ x.end = page[r].end
      /\ x.linked = page[r].linked /\ x.now = page[r].now
  BY <1>2 DEF PageState
<1> HIDE DEF x, now
<1>4. \A bars, left : Cached \subseteq bars => PageHolds(x, bars, left) /\ MeetsPauses(x, bars)
  BY <1>2, <1>3
  DEF PageHolds, CursorIsCached, AnchorHolds, WholePage, MeetsPauses, WalkMetPause, PageShowsPause
<1>5. x.at \in Holding => r \in fetchLock' BY <1>1, <1>2
<1>6. CASE UNCHANGED <<cache, skipped>>
           /\ (historyFaults' = historyFaults \/ historyFaults' = historyFaults + 1)
  <2>1. historyFaults' \in Nat /\ (historyFaults' = 0 => historyFaults = 0) BY <1>2, <1>6
  <2>2. PageHolds(x, Cached, skipped) /\ MeetsPauses(x, Cached) BY <1>4
  <2> QED BY <1>1, <1>2, <1>3, <1>5, <1>6, <2>1, <2>2, PageMovesAlone
<1>7. ASSUME NEW bars \in Snapshots(first, now), Upsert(bars), historyFaults' = historyFaults,
             skipped' = skipped \union (TradedBars(first, now) \ bars)
      PROVE  HistoryInv'
  <2>1. /\ first \in Nat
        /\ Cached # {} => first = Max(Cached) + 1
    <3>1. Cached # {} => Max(Cached) \in Nat BY <1>2, MaxProperties
    <3>2. now \in Int /\ now - page[r].limit \in Int BY <1>2 DEF now
    <3>3. Cached = {} => first = Max({0, now - page[r].limit}) BY DEF TopUpFrom, now
    <3>4. Cached # {} => first = Max(Cached) + 1 BY DEF TopUpFrom
    <3>5. Max({0, now - page[r].limit}) \in Nat BY <3>2, MaxOfZero
    <3> HIDE DEF first
    <3> QED BY <3>1, <3>3, <3>4, <3>5
  <2> HIDE DEF first
  <2>2. now \in Int BY <1>2 DEF now
  <2>3. /\ TradedBars(first, now) \subseteq 0..clock
        /\ bars \in SUBSET TradedBars(first, now)
    BY <1>2, <1>7, <2>1, <2>2, SnapshotProperties
  <2>4. bars \in SUBSET (0..clock) /\ 0..clock \subseteq Nat BY <2>3
  <2>5. /\ closed' \subseteq 0..clock /\ open' \subseteq 0..clock
        /\ Cached' = Cached \union bars
    BY <1>2, <1>7, <2>4, UpsertAdds
  <2>6. skipped \subseteq skipped' /\ skipped' \in SUBSET Nat BY <1>2, <1>7, <2>3, <2>4
  <2>7. NoGaps(Cached \union bars, skipped') BY <1>2, <1>7, <2>1, <2>2, <2>3, JoinedAbove
  <2>8. PageHolds(x, Cached \union bars, skipped') /\ MeetsPauses(x, Cached \union bars)
    BY <1>4
  <2> QED
    BY <1>1, <1>2, <1>3, <1>5, <1>7, <2>4, <2>5, <2>6, <2>7, <2>8, PageGoesOn
<1> QED BY <1>1, <1>6, <1>7

\* A chunk below the anchor joins the cache, and an empty one is a pause.
LEMMA FillStep ==
  ASSUME HistoryInv, NEW r \in PageRequest, Fill(r) PROVE HistoryInv'
<1> DEFINE anchor == page[r].anchor
           first == Max({0, anchor - ChunkBars})
           end == page[r].end
           stop == [page[r] EXCEPT !.at = "release"]
           at(bars) == IF WalkGoesOn(r, bars) THEN "fill" ELSE "release"
           next(bars) == [page[r] EXCEPT !.at = at(bars), !.anchor = Min(bars),
                                         !.chunks = page[r].chunks + 1]
<1>1. page[r] \in PageState BY PageParts
<1>2. /\ page[r].at = "fill" /\ clock' = clock /\ fetchLock' = fetchLock
      /\ \/ /\ historyFaults' = historyFaults + 1
            /\ page' = [page EXCEPT ![r] = stop] /\ UNCHANGED <<cache, skipped>>
         \/ /\ historyFaults' = historyFaults /\ {} \in Snapshots(first, FillTo(r))
            /\ page' = [page EXCEPT ![r] = stop] /\ UNCHANGED <<cache, skipped>>
         \/ /\ historyFaults' = historyFaults
            /\ \E bars \in Snapshots(first, FillTo(r)) :
                 /\ bars # {} /\ Upsert(bars)
                 /\ skipped' = skipped \union PassedOver(end)
                 /\ page' = [page EXCEPT ![r] = next(bars)]
  <2>1. /\ page[r].at = "fill" /\ clock' = clock /\ fetchLock' = fetchLock BY DEF Fill
  <2>2. CASE HistoryFault /\ PageGoes(r, "release") /\ UNCHANGED <<cache, skipped>>
    BY <2>1, <2>2 DEF HistoryFault, PageGoes
  <2>3. ASSUME NEW bars \in Snapshots(first, FillTo(r)), bars = {}, UNCHANGED historyFaults,
               PageGoes(r, "release") /\ UNCHANGED <<cache, skipped>>
        PROVE  /\ historyFaults' = historyFaults /\ {} \in Snapshots(first, FillTo(r))
               /\ page' = [page EXCEPT ![r] = stop] /\ UNCHANGED <<cache, skipped>>
    BY <2>3 DEF PageGoes
  <2>4. ASSUME NEW bars \in Snapshots(first, FillTo(r)), bars # {},
               page' = [page EXCEPT ![r].at = IF WalkGoesOn(r, bars) THEN "fill" ELSE "release",
                                    ![r].anchor = Min(bars), ![r].chunks = @ + 1]
        PROVE  page' = [page EXCEPT ![r] = next(bars)]
    <3> DEFINE A == at(bars)
               M == Min(bars)
    <3>1. page' = [page EXCEPT ![r].at = A, ![r].anchor = M, ![r].chunks = @ + 1] BY <2>4
    <3>2. next(bars) = [page[r] EXCEPT !.at = A, !.anchor = M, !.chunks = page[r].chunks + 1]
      OBVIOUS
    <3>3. page \in [PageRequest -> PageState] BY DEF HistoryInv, HistoryTypeOK
    <3> HIDE DEF A, M, next
    <3> QED BY <3>1, <3>2, <3>3 DEF PageState
  <2> HIDE DEF first, stop, next
  <2> QED BY <2>1, <2>2, <2>3, <2>4 DEF Fill, first
<1>3. /\ end \in Nat /\ page[r].now \in Nat /\ page[r].now <= clock /\ page[r].chunks \in Nat
      /\ clock \in Nat /\ historyFaults \in Nat /\ ChunkBars \in Nat /\ ChunkBars > 0
      /\ CursorIsCached(page[r], Cached) /\ HistoryTypeOK /\ NoGaps(Cached, skipped)
      /\ r \in fetchLock /\ \A s, u \in fetchLock : s = u
      /\ Cached \in SUBSET Nat /\ \A b \in Cached : b <= clock
      /\ skipped \in SUBSET Nat /\ closed \subseteq 0..clock /\ open \subseteq 0..clock
  BY <1>2, PageParts, CachedBars DEF Holding, HistoryTypeOK
<1>4. /\ anchor \in Nat /\ anchor <= end /\ (anchor = end \/ anchor \in Cached)
      /\ \A b \in Cached : b < end => anchor <= b
  BY <1>2, PageParts DEF AnchorHolds
<1>5. FillTo(r) = anchor - 1 BY DEF FillTo
<1> HIDE DEF anchor
<1>6. first \in Nat /\ anchor - ChunkBars <= first /\ (first = 0 \/ first = anchor - ChunkBars)
  <2>1. anchor - ChunkBars \in Int BY <1>3, <1>4
  <2> QED BY <2>1, MaxOfZero
<1> HIDE DEF first
<1>7. /\ Snapshots(first, FillTo(r)) = {TradedBars(first, anchor - 1)}
      /\ TradedBars(first, anchor - 1) \subseteq 0..clock
  <2>1. anchor - 1 \in Int /\ (anchor - 1) - first < ChunkBars BY <1>3, <1>4, <1>6
  <2> QED BY <1>3, <1>5, <1>6, <2>1, SnapshotProperties
<1>8. /\ stop \in PageState /\ stop.at = "release" /\ stop.asked = page[r].asked
      /\ stop.end = end /\ stop.linked = page[r].linked /\ stop.now = page[r].now
  BY <1>1 DEF PageState
<1> HIDE DEF stop
<1>9. PageHolds(stop, Cached, skipped)
  BY <1>3, <1>8 DEF PageHolds, CursorIsCached, AnchorHolds, WholePage
<1>10. CASE /\ historyFaults' = historyFaults + 1
            /\ page' = [page EXCEPT ![r] = stop] /\ UNCHANGED <<cache, skipped>>
  <2>1. historyFaults' \in Nat /\ historyFaults' # 0 BY <1>3, <1>10
  <2> QED BY <1>2, <1>3, <1>8, <1>9, <1>10, <2>1, PageMovesAlone
<1>11. CASE /\ historyFaults' = historyFaults /\ {} \in Snapshots(first, FillTo(r))
            /\ page' = [page EXCEPT ![r] = stop] /\ UNCHANGED <<cache, skipped>>
  <2>1. TradedBars(first, anchor - 1) = {} BY <1>7, <1>11
  <2>2. ASSUME NEW b \in Nat, anchor - ChunkBars <= b, b < anchor, b <= page[r].now
        PROVE  b \in NeverTraded
    <3>1. first <= b BY <1>6, <2>2
    <3>2. b \in first..(anchor - 1) /\ b >= 0 /\ b <= clock BY <1>3, <1>4, <1>6, <2>2, <3>1
    <3> QED BY <2>1, <3>2 DEF TradedBars
  <2>3. PauseBefore(anchor, stop) BY <1>8, <2>2 DEF PauseBefore
  <2>4. anchor \in Below(stop.end, Cached) \union {stop.end}
    <3>1. CASE anchor = end BY <1>8, <3>1
    <3>2. CASE anchor # end
      <4>1. anchor \in Cached /\ anchor < end BY <1>3, <1>4, <3>2
      <4> QED BY <1>8, <4>1 DEF Below
    <3> QED BY <3>1, <3>2
  <2>5. MeetsPauses(stop, Cached)
    BY <1>8, <2>3, <2>4 DEF MeetsPauses, WalkMetPause, PageShowsPause
  <2> QED BY <1>2, <1>3, <1>8, <1>9, <1>11, <2>5, PageMovesAlone
<1>12. ASSUME historyFaults' = historyFaults, NEW bars \in Snapshots(first, FillTo(r)),
              bars # {}, Upsert(bars), skipped' = skipped \union PassedOver(end),
              page' = [page EXCEPT ![r] = next(bars)]
       PROVE  HistoryInv'
  <2>1. bars = TradedBars(first, anchor - 1) /\ bars \in SUBSET (0..clock) BY <1>7, <1>12
  <2>2. bars \in SUBSET Nat /\ \A b \in bars : b < anchor /\ b < end
    <3>1. bars \in SUBSET Nat BY <1>3, <2>1
    <3>2. \A b \in bars : b \in first..(anchor - 1) BY <2>1 DEF TradedBars
    <3> QED BY <1>3, <1>4, <1>6, <3>1, <3>2
  <2>3. /\ closed' \subseteq 0..clock /\ open' \subseteq 0..clock
        /\ Cached' = Cached \union bars
    BY <1>3, <1>12, <2>1, UpsertAdds
  <2>4. NoGaps(Cached \union bars, skipped') BY <1>3, <1>4, <1>6, <1>12, <2>1, JoinedBelow
  <2>5. skipped \subseteq skipped' /\ skipped' \in SUBSET Nat
    <3>1. PassedOver(end) \subseteq Nat
      <4> SUFFICES ASSUME Cached # {} PROVE end..(Min(Cached) - 1) \subseteq Nat
        BY DEF PassedOver
      <4>1. Min(Cached) \in Nat BY <1>3, MinProperties
      <4> QED BY <1>3, <4>1
    <3> QED BY <1>3, <1>12, <3>1
  <2> DEFINE m == Min(bars)
             x == next(bars)
  <2>6. m \in bars /\ \A b \in bars : m <= b BY <1>12, <2>2, MinProperties
  <2>7. at(bars) \in {"fill", "release"} /\ (at(bars) = "release" => ~WalkGoesOn(r, bars))
    OBVIOUS
  <2> HIDE DEF m, at
  <2>8. /\ x \in PageState /\ x.at = at(bars) /\ x.asked = page[r].asked /\ x.end = end
        /\ x.linked = page[r].linked /\ x.now = page[r].now /\ x.limit = page[r].limit
        /\ x.anchor = m /\ x.chunks = page[r].chunks + 1
    <3>1. x = [page[r] EXCEPT !.at = at(bars), !.anchor = m, !.chunks = page[r].chunks + 1]
      BY DEF m
    <3>2. m \in Nat /\ page[r].chunks + 1 \in Nat BY <1>3, <2>2, <2>6
    <3> HIDE DEF x, next
    <3> QED BY <1>1, <2>7, <3>1, <3>2 DEF PageState
  <2>9. page' = [page EXCEPT ![r] = x] BY <1>12
  <2> HIDE DEF x, next
  <2>10. CursorIsCached(x, Cached \union bars) BY <1>3, <2>8 DEF CursorIsCached
  <2>11. AnchorHolds(x, Cached \union bars)
    <3>1. m \in Nat /\ m < end /\ m < anchor BY <2>2, <2>6
    <3>2. \A b \in Cached : b < end => m <= b BY <1>3, <1>4, <3>1
    <3> QED BY <1>3, <2>6, <2>8, <3>1, <3>2 DEF AnchorHolds
  <2>12. PageHolds(x, Cached \union bars, skipped')
    BY <2>7, <2>8, <2>10, <2>11 DEF PageHolds, WholePage
  <2>13. MeetsPauses(x, Cached \union bars)
    <3> SUFFICES ASSUME x.at = "release", x.chunks < MaxChunks,
                        Cardinality(Below(x.end, Cached \union bars)) < x.limit
                 PROVE  FALSE
      BY <2>7, <2>8 DEF MeetsPauses, WalkMetPause, PageShowsPause
    <3>1. ~WalkGoesOn(r, bars) BY <2>7, <2>8
    <3>2. m < page[r].anchor BY <2>2, <2>6 DEF anchor
    <3>3. Below(x.end, Cached \union bars) = {b \in Cached \union bars : b < page[r].end}
      BY <2>8 DEF Below
    <3> QED BY <2>8, <3>1, <3>2, <3>3 DEF WalkGoesOn, m
  <2>14. x.at \in Holding => r \in fetchLock' BY <1>2, <1>3
  <2> QED
    BY <1>2, <1>3, <1>12, <2>1, <2>3, <2>4, <2>5, <2>8, <2>9, <2>12, <2>13, <2>14, PageGoesOn
<1> QED BY <1>2, <1>10, <1>11, <1>12

\* The cache is empty at first.
LEMMA HistoryStart == HistoryInit => HistoryInv
<1> SUFFICES ASSUME HistoryInit PROVE HistoryInv OBVIOUS
<1>1. /\ clock \in Nat /\ Cached = {} /\ closed = {} /\ open = {} /\ fetchLock = {}
      /\ skipped = {} /\ historyFaults = 0 /\ page = [r \in PageRequest |-> NoPage]
  BY HistoryAssumption DEF HistoryInit, HistoryAssumption, Cached
<1>2. NoPage \in PageState /\ NoPage.at = "idle" /\ NoPage.now = 0 /\ NoPage.linked = FALSE
  BY DEF NoPage, PageState
<1>3. PageHolds(NoPage, Cached, skipped) /\ MeetsPauses(NoPage, Cached)
  BY <1>2 DEF PageHolds, CursorIsCached, AnchorHolds, WholePage, MeetsPauses, WalkMetPause,
              PageShowsPause
<1>4. HistoryTypeOK BY <1>1, <1>2 DEF HistoryTypeOK
<1>5. OneFetches /\ NoGaps(Cached, skipped) BY <1>1, <1>2 DEF OneFetches, Holding, NoGaps
<1> QED BY <1>1, <1>3, <1>4, <1>5 DEF HistoryInv

\* Every step keeps it.
LEMMA HistoryStep == HistoryInv /\ [HistoryNext]_historyVars => HistoryInv'
<1> SUFFICES ASSUME HistoryInv, [HistoryNext]_historyVars PROVE HistoryInv' OBVIOUS
<1>1. CASE UNCHANGED historyVars
  <2>1. /\ clock' = clock /\ closed' = closed /\ open' = open /\ page' = page
        /\ fetchLock' = fetchLock /\ skipped' = skipped /\ historyFaults' = historyFaults
        /\ Cached' = Cached
    BY <1>1 DEF historyVars, Cached
  <2> QED
    BY <2>1 DEF HistoryInv, HistoryTypeOK, OneFetches, NoGaps, PageHolds, CursorIsCached, AnchorHolds,
                WholePage, MeetsPauses, WalkMetPause, PageShowsPause, PauseBefore, Below
<1>2. ASSUME NEW r \in PageRequest, NEW cursor \in Cursors \union {NoBar}, NEW limit \in PageSizes,
             GetPage(r, cursor, limit)
      PROVE  HistoryInv'
  BY <1>2, GetPageStep
<1>3. ASSUME NEW r \in PageRequest,
             Locked(r) \/ TopUp(r) \/ Count(r) \/ Fill(r) \/ Release(r) \/ ReadPage(r) \/ Forget(r)
      PROVE  HistoryInv'
  BY <1>3, LockedStep, TopUpStep, CountStep, FillStep, ReleaseStep, ReadPageStep, ForgetStep
<1> QED BY <1>1, <1>2, <1>3, TimeStep DEF HistoryNext

\* For every cursor, page size and chunk size, however many requests, failed fetches and
\* pauses there are: no page skips a bar that the exchange has, but for those that a cut
\* answer left out and those between a cache and a walk that began below it.
THEOREM PagesAreWhole == HistorySpec => []PagesHaveNoHoles
<1>1. HistoryInv => PagesHaveNoHoles
  BY DEF HistoryInv, PageHolds, WholePage, PagesHaveNoHoles
<1> QED BY <1>1, HistoryStart, HistoryStep, PTL DEF HistorySpec

\* Whatever requests, top-ups and walks interleave with it: a page that is short, although
\* no fetch failed and no chunk limit was met, has a whole chunk without bars right before
\* its end or before one of its bars (_backfill_until_count in candle_service.py).
THEOREM WalksEndAtPauses == HistorySpec => []ShortPagesMeetAPause
<1>1. HistoryInv => ShortPagesMeetAPause
  <2> SUFFICES ASSUME HistoryInv, NEW r \in PageRequest, page[r].at = "served",
                      Cardinality(page[r].bars) < page[r].limit, historyFaults = 0,
                      page[r].chunks < MaxChunks
               PROVE  \E a \in page[r].bars \union {page[r].end} :
                        \A b \in Max({0, a - ChunkBars})..(a - 1) :
                          b <= page[r].now => b \in NeverTraded
    BY DEF ShortPagesMeetAPause
  <2>1. PICK a \in page[r].bars \union {page[r].end} : PauseBefore(a, page[r])
    BY DEF HistoryInv, MeetsPauses, PageShowsPause
  <2>2. a \in Nat /\ ChunkBars \in Nat BY PageParts DEF PageState
  <2>3. a - ChunkBars \in Int BY <2>2
  <2> DEFINE k == Max({0, a - ChunkBars})
  <2>4. k \in Nat /\ a - ChunkBars <= k BY <2>3, MaxOfZero
  <2> HIDE DEF k
  <2>5. ASSUME NEW b \in k..(a - 1), b <= page[r].now PROVE b \in NeverTraded
    BY <2>1, <2>2, <2>4, <2>5 DEF PauseBefore
  <2> QED BY <2>5 DEF k
<1> QED BY <1>1, HistoryStart, HistoryStep, PTL DEF HistorySpec

================================================================================
