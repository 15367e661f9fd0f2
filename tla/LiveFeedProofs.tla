---------------------------- MODULE LiveFeedProofs ----------------------------
(***************************************************************************)
(* Proofs about the slow tick of a live connection, for every number of    *)
(* coins, alerts and snapshots, and every capacity that SeenAssumption     *)
(* allows.                                                                 *)
(***************************************************************************)
EXTENDS LiveFeed, DataLemmas

(***************************************************************************)
(* The snapshots.                                                          *)
(***************************************************************************)
\* What the connection knows about the snapshots at each of its awaits.
ShownInv ==
  /\ snapshotMs \in Nat /\ sentMs \in Int /\ sentMs # 0 /\ (pc = "off" => sentMs = -1)
  /\ pc = "health" /\ ~raced =>
       health[2] = snapshotMs /\ (sentMs = snapshotMs => gotSnapshots = snapshots)
  /\ pc = "snapshots" /\ ~raced => frame = snapshots
  /\ pc = "alerts" /\ ~raced /\ snapshotMs # 0 => gotSnapshots = snapshots
  /\ SnapshotsShownUnlessRaced

\* The alerts, and the end of a push, leave the snapshots shown.
LEMMA AlertsStageShown ==
  ASSUME ShownInv, AlertsStage, UNCHANGED <<snapshots, snapshotMs, raced>>,
         ~raced /\ snapshotMs # 0 => gotSnapshots' = snapshots
  PROVE  ShownInv'
<1>1. \/ pc' = "wait" /\ sentMs' = IF snapshotMs = 0 THEN sentMs ELSE snapshotMs
      \/ pc' = "alerts" /\ sentMs' = sentMs
  BY DEF AlertsStage, EndPush
<1> QED BY <1>1 DEF ShownInv, SnapshotsShownUnlessRaced

\* From the snapshots on, with the health that was read at the start of the push.
LEMMA SnapshotsStageShown ==
  ASSUME ShownInv, SnapshotsStage, UNCHANGED <<snapshots, snapshotMs, gotSnapshots>>,
         ~raced => health'[2] = snapshotMs /\ (sentMs = snapshotMs => gotSnapshots = snapshots)
  PROVE  ShownInv'
<1>1. CASE health'[2] \notin {0, sentMs}
  BY <1>1 DEF SnapshotsStage, ShownInv, SnapshotsShownUnlessRaced
<1>2. CASE health'[2] \in {0, sentMs}
  <2>1. AlertsStage /\ raced' = raced BY <1>2 DEF SnapshotsStage
  <2>2. ~raced /\ snapshotMs # 0 => gotSnapshots' = snapshots BY <1>2
  <2>3. UNCHANGED <<snapshots, snapshotMs, raced>> BY <2>1
  <2> QED BY <2>1, <2>2, <2>3, AlertsStageShown
<1> QED BY <1>1, <1>2

\* Every step keeps it.
LEMMA ShownStep == ASSUME ShownInv, [Next]_vars PROVE ShownInv'
<1>1. ASSUME NEW c \in Coins, PushSnapshot(c) PROVE ShownInv'
  <2>1. PICK ms \in Int : /\ snapshotMs' = ms /\ ms >= 1
                          /\ raced' = (raced \/ pc # "wait" \/ ms = sentMs)
    <3> DEFINE revision == 1 + Max({snapshots[d] : d \in Coins})
    <3>1. revision \in Revisions /\ \E ms \in 1..revision :
            snapshotMs' = ms /\ raced' = (raced \/ pc # "wait" \/ ms = sentMs)
      BY <1>1 DEF PushSnapshot
    <3>2. revision \in Int BY <3>1, SeenAssumption, LiveBoundsAssumption DEF Revisions
    <3> HIDE DEF revision
    <3> QED BY <3>1, <3>2
  <2>2. UNCHANGED <<pc, sentMs>> BY <1>1 DEF PushSnapshot, loopVars
  <2>3. ~raced' => pc = "wait" /\ snapshotMs' # sentMs BY <2>1, Zenon
  <2>4. snapshotMs' \in Nat BY <2>1
  <2>5. sentMs \in Int /\ sentMs # 0 /\ (pc = "off" => sentMs = -1) BY DEF ShownInv
  <2>6. CASE raced' BY <2>2, <2>4, <2>5, <2>6 DEF ShownInv, SnapshotsShownUnlessRaced
  <2>7. CASE ~raced' BY <2>2, <2>3, <2>4, <2>5, <2>7 DEF ShownInv, SnapshotsShownUnlessRaced
  <2> QED BY <2>6, <2>7
<1>2. CASE PushAlert \/ SetRunning \/ UNCHANGED vars
  BY <1>2 DEF PushAlert, SetRunning, vars, stateVars, loopVars, gotVars, markVars, ShownInv,
              SnapshotsShownUnlessRaced
<1>3. CASE Connect
  BY <1>3 DEF Connect, stateVars, gotVars, ShownInv, SnapshotsShownUnlessRaced
<1>4. CASE Disconnect
  BY <1>4 DEF Disconnect, stateVars, ShownInv, SnapshotsShownUnlessRaced
<1>5. CASE StartPush
  <2>1. /\ pc = "wait" /\ health' = Health /\ health'[2] = snapshotMs
        /\ UNCHANGED <<snapshots, snapshotMs, gotSnapshots>>
    BY <1>5 DEF StartPush, Health, stateVars, gotVars
  <2>2. CASE health' # signature
    BY <1>5, <2>1, <2>2 DEF StartPush, markVars, ShownInv, SnapshotsShownUnlessRaced
  <2>3. CASE health' = signature
    <3>1. SnapshotsStage BY <1>5, <2>3 DEF StartPush
    <3>2. ~raced => (sentMs = snapshotMs => gotSnapshots = snapshots)
      BY <2>1 DEF ShownInv, SnapshotsShownUnlessRaced
    <3> QED BY <2>1, <3>1, <3>2, SnapshotsStageShown
  <2> QED BY <2>2, <2>3
<1>6. CASE HealthSent
  <2>1. /\ pc = "health" /\ health' = health /\ SnapshotsStage
        /\ UNCHANGED <<snapshots, snapshotMs, gotSnapshots>>
    BY <1>6 DEF HealthSent, stateVars
  <2> QED BY <2>1, SnapshotsStageShown DEF ShownInv
<1>7. CASE SnapshotsSent
  <2>1. /\ pc = "snapshots" /\ gotSnapshots' = frame /\ AlertsStage
        /\ UNCHANGED <<snapshots, snapshotMs, raced>>
    BY <1>7 DEF SnapshotsSent, stateVars
  <2> QED BY <2>1, AlertsStageShown DEF ShownInv
<1>8. CASE AlertSent
  <2>1. /\ pc = "alerts" /\ UNCHANGED <<snapshots, snapshotMs, gotSnapshots, raced>>
        /\ \/ UNCHANGED <<pc, sentMs>>
           \/ pc' = "wait" /\ sentMs' = IF snapshotMs = 0 THEN sentMs ELSE snapshotMs
    BY <1>8 DEF AlertSent, EndPush, stateVars, markVars
  <2> QED BY <2>1 DEF ShownInv, SnapshotsShownUnlessRaced
<1> QED BY <1>1, <1>2, <1>3, <1>4, <1>5, <1>6, <1>7, <1>8 DEF Next, Push

\* Whatever the runner stores while frames are awaited, a browser whose connection takes
\* the stored snapshots for sent shows them, unless one was stored during a push or under
\* the time of the last frame (ws.py, _push_full and _send_loop).
THEOREM SnapshotsAreShown == Spec => []SnapshotsShownUnlessRaced
<1>1. Init => ShownInv BY DEF Init, ShownInv, SnapshotsShownUnlessRaced
<1>2. ShownInv /\ [Next]_vars => ShownInv' BY ShownStep
<1>3. ShownInv => SnapshotsShownUnlessRaced BY DEF ShownInv
<1> QED BY <1>1, <1>2, <1>3, PTL DEF Spec

(***************************************************************************)
(* The alerts.                                                             *)
(***************************************************************************)
\* What the assumptions say of each capacity.
LEMMA Capacities ==
  /\ DequeCap \in Nat /\ Limit \in Nat /\ SeenCap \in Nat /\ MaxAlerts \in Nat
  /\ Limit >= 1 /\ Limit <= DequeCap /\ SeenCap >= 2 * Limit - 1 /\ SeenCap >= 1
BY SeenAssumption, LiveBoundsAssumption

\* Max, which the community modules define by CHOOSE, of two numbers.
LEMMA MaxOfTwo ==
  ASSUME NEW a \in Int, NEW b \in Int
  PROVE  Max({a, b}) = IF a >= b THEN a ELSE b
<1>1. \E k \in {a, b} : \A n \in {a, b} : k >= n
  <2>1. CASE a >= b BY <2>1
  <2>2. CASE ~(a >= b) BY <2>2
  <2> QED BY <2>1, <2>2
<1>2. Max({a, b}) \in {a, b} /\ \A n \in {a, b} : Max({a, b}) >= n BY <1>1 DEF Max
<1> QED BY <1>2

\* The deque has the newest alerts, without a gap.
DequeInv ==
  /\ alertMs \in Nat /\ alerts \in Seq(Nat)
  /\ Len(alerts) = IF alertMs <= DequeCap THEN alertMs ELSE DequeCap
  /\ \A i \in 1..Len(alerts) : alerts[i] = alertMs - Len(alerts) + i

\* A push reads the newest alerts, newest first.
LEMMA RecentProperties ==
  ASSUME DequeInv
  PROVE  /\ Recent \in Seq(Nat)
         /\ Len(Recent) = IF alertMs <= Limit THEN alertMs ELSE Limit
         /\ \A i \in 1..Len(Recent) : Recent[i] = alertMs - i + 1
<1> DEFINE n == Len(alerts)
           from == Max({1, n - Limit + 1})
           part == SubSeq(alerts, from, n)
<1>1. /\ n \in Nat /\ Limit \in Nat /\ DequeCap \in Nat /\ alertMs \in Nat /\ alerts \in Seq(Nat)
      /\ Limit >= 1 /\ Limit <= DequeCap /\ n = IF alertMs <= DequeCap THEN alertMs ELSE DequeCap
  BY Capacities DEF DequeInv
<1>2. from = IF 1 >= n - Limit + 1 THEN 1 ELSE n - Limit + 1
  <2>1. 1 \in Int /\ n - Limit + 1 \in Int BY <1>1
  <2> QED BY <2>1, MaxOfTwo
<1>3. \A i \in 1..n : alerts[i] = alertMs - n + i BY DEF DequeInv
<1>4. Recent = Reverse(part) BY DEF Recent
<1> HIDE DEF n
<1>5. from \in Nat /\ from >= 1 /\ from <= n + 1 BY <1>1, <1>2
<1> HIDE DEF from
<1>6. /\ part \in Seq(Nat) /\ Len(part) = n - from + 1
      /\ \A i \in 1..(n - from + 1) : part[i] = alerts[from + i - 1]
  <2>1. n = Len(alerts) BY DEF n
  <2>2. \A i \in from..n : i \in 1..n BY <1>1, <1>5
  <2> QED BY <1>1, <1>5, <2>1, <2>2
<1> HIDE DEF part
<1>7. n - from + 1 = IF alertMs <= Limit THEN alertMs ELSE Limit BY <1>1, <1>2
<1> DEFINE m == n - from + 1
<1>8. m \in Nat /\ Len(part) = m BY <1>1, <1>5, <1>6
<1>9. Recent = [i \in 1..m |-> part[(m - i) + 1]] BY <1>4, <1>8 DEF Reverse
<1>10. \A i \in 1..m : part[(m - i) + 1] = alertMs - i + 1
  <2> SUFFICES ASSUME NEW i \in 1..m PROVE part[(m - i) + 1] = alertMs - i + 1 OBVIOUS
  <2>1. (m - i) + 1 \in 1..m BY <1>8
  <2>2. part[(m - i) + 1] = alerts[from + ((m - i) + 1) - 1] BY <1>6, <2>1
  <2>3. from + ((m - i) + 1) - 1 = n - i + 1 /\ n - i + 1 \in 1..n BY <1>1, <1>5, <1>8, <2>1
  <2>4. alerts[n - i + 1] = alertMs - n + (n - i + 1) BY <1>3, <2>3
  <2> QED BY <1>1, <2>2, <2>3, <2>4
<1>11. \A i \in 1..m : part[(m - i) + 1] \in Nat
  <2>1. \A i \in 1..m : (m - i) + 1 \in 1..m BY <1>8
  <2> QED BY <1>6, <1>8, <2>1
<1> HIDE DEF m
<1>12. Recent \in Seq(Nat) /\ Len(Recent) = m BY <1>8, <1>9, <1>11
<1> QED BY <1>7, <1>9, <1>10, <1>12 DEF m

\* A falling list of numbers between two bounds is not longer than their distance.
LEMMA FallingLength ==
  ASSUME NEW s \in Seq(Nat), NEW lo \in Nat, NEW top \in Nat, lo <= top,
         \A i \in 1..Len(s) : lo < s[i] /\ s[i] <= top,
         \A i, j \in 1..Len(s) : i < j => s[i] > s[j]
  PROVE  Len(s) <= top - lo
<1>1. Len(s) \in Nat /\ \A i \in 1..Len(s) : s[i] \in Nat OBVIOUS
<1> DEFINE f == [i \in 1..Len(s) |-> s[i]]
           T == (lo + 1)..top
<1>2. /\ IsFiniteSet(1..Len(s)) /\ Cardinality(1..Len(s)) = Len(s)
  <2>1. 1 \in Int /\ Len(s) \in Int BY <1>1
  <2>2. IsFiniteSet(1..Len(s)) /\ Cardinality(1..Len(s)) = IF 1 > Len(s) THEN 0 ELSE Len(s) - 1 + 1
    BY <2>1, FS_Interval
  <2> QED BY <1>1, <2>2
<1>3. /\ IsFiniteSet(T) /\ Cardinality(T) = top - lo
  <2>1. lo + 1 \in Int /\ top \in Int OBVIOUS
  <2>2. IsFiniteSet(T) /\ Cardinality(T) = IF lo + 1 > top THEN 0 ELSE top - (lo + 1) + 1
    BY <2>1, FS_Interval
  <2> HIDE DEF T
  <2> QED BY <2>2
<1>4. f \in [1..Len(s) -> T] BY <1>1
<1>5. \A i, j \in 1..Len(s) : f[i] = f[j] => i = j BY <1>1
<1> HIDE DEF f, T
<1>6. f \in Injection(1..Len(s), T) BY <1>4, <1>5 DEF Injection, IsInjective
<1> QED BY <1>2, <1>3, <1>6, FS_Injection

(***************************************************************************)
(* What is remembered: of the alerts up to the newest that was sent, those *)
(* that a push may still read are among the ids, not deeper than the later *)
(* alerts and one push.                                                    *)
(***************************************************************************)
Remembered(s, lo) ==
  /\ \A p \in 1..Len(s) : s[p] <= lo
  /\ \A a \in 1..lo : lo - Limit < a =>
       \E p \in 1..Len(s) : s[p] = a /\ Len(s) - p < lo - a + Limit

\* A list of alerts between two numbers that has all those a push reads.
Fetched(s, lo, top) ==
  /\ Len(s) <= Limit /\ Len(s) <= top - lo
  /\ \A i \in 1..Len(s) : s[i] <= top
  /\ \A a \in 1..top : lo < a /\ top - Limit < a => \E i \in 1..Len(s) : s[i] = a

\* A push selects the alerts that were not sent, newest first.
LEMMA UnsentProperties ==
  ASSUME DequeInv, seen \in Seq(Nat), NEW lo \in Nat, lo <= alertMs, Remembered(seen, lo)
  PROVE  /\ Unsent \in Seq(Nat) /\ Fetched(Unsent, lo, alertMs)
         /\ \A i \in 1..Len(Unsent) : lo < Unsent[i]
         /\ \A i, j \in 1..Len(Unsent) : i < j => Unsent[i] > Unsent[j]
<1> DEFINE R == Recent
           U == Unsent
           S == ToSet(R) \ ToSet(seen)
<1>1. /\ R \in Seq(Nat) /\ Len(R) = (IF alertMs <= Limit THEN alertMs ELSE Limit)
      /\ \A i \in 1..Len(R) : R[i] = alertMs - i + 1
      /\ alertMs \in Nat /\ Limit \in Nat
  BY RecentProperties, Capacities DEF DequeInv
<1>2. U \in Seq(Nat) /\ Picks(U, R, S, Len(R)) BY <1>1, FilterProperties DEF Unsent
<1> HIDE DEF U
<1>3. PICK h \in [1..Len(U) -> 1..Len(R)] :
        /\ \A i, j \in 1..Len(U) : i < j => h[i] < h[j]
        /\ \A i \in 1..Len(U) : U[i] = R[h[i]] /\ R[h[i]] \in S
        /\ \A m \in 1..Len(R) : R[m] \in S => \E i \in 1..Len(U) : h[i] = m
  BY <1>2 DEF Picks
<1>4. Len(R) \in Nat /\ Len(U) \in Nat /\ Len(R) <= alertMs /\ Len(R) <= Limit BY <1>1, <1>2
<1>5. \A x : x \in ToSet(seen) <=> \E p \in 1..Len(seen) : seen[p] = x
  <2>1. DOMAIN seen = 1..Len(seen) OBVIOUS
  <2> QED BY <2>1 DEF ToSet
<1>6. \A x : x \in ToSet(R) <=> \E p \in 1..Len(R) : R[p] = x
  <2>1. DOMAIN R = 1..Len(R) BY <1>1
  <2> QED BY <2>1 DEF ToSet
<1> HIDE DEF R
<1>7. ASSUME NEW i \in 1..Len(U)
      PROVE  /\ lo < U[i] /\ U[i] <= alertMs /\ alertMs - Limit < U[i] /\ U[i] \in Nat
             /\ h[i] \in 1..Len(R) /\ U[i] = alertMs - h[i] + 1
  <2>1. /\ h[i] \in 1..Len(R) /\ U[i] = R[h[i]] /\ R[h[i]] \in S BY <1>3
  <2>2. U[i] = alertMs - h[i] + 1 BY <1>1, <2>1
  <2>3. U[i] \in 1..alertMs /\ alertMs - Limit < U[i] BY <1>1, <1>4, <2>1, <2>2
  <2>4. U[i] \notin ToSet(seen) BY <2>1
  <2>5. lo < U[i]
    <3> SUFFICES ASSUME ~(lo < U[i]) PROVE FALSE OBVIOUS
    <3>1. U[i] \in 1..lo /\ lo - Limit < U[i] BY <1>1, <2>3
    <3>2. \E p \in 1..Len(seen) : seen[p] = U[i] BY <3>1 DEF Remembered
    <3> QED BY <1>5, <2>4, <3>2
  <2> QED BY <2>1, <2>2, <2>3, <2>5
<1>8. ASSUME NEW i \in 1..Len(U), NEW j \in 1..Len(U), i < j PROVE U[i] > U[j]
  <2>1. h[i] < h[j] BY <1>3, <1>8
  <2>2. h[i] \in 1..Len(R) /\ h[j] \in 1..Len(R) BY <1>7
  <2>3. U[i] = alertMs - h[i] + 1 /\ U[j] = alertMs - h[j] + 1 BY <1>7
  <2> QED BY <1>1, <1>4, <2>1, <2>2, <2>3
<1>9. Len(U) <= alertMs - lo
  <2>1. \A i \in 1..Len(U) : lo < U[i] /\ U[i] <= alertMs BY <1>7
  <2> QED BY <1>1, <1>2, <1>8, <2>1, FallingLength
<1>10. Len(U) <= Limit
  <2> DEFINE low == IF alertMs <= Limit THEN 0 ELSE alertMs - Limit
  <2>1. low \in Nat /\ low <= alertMs /\ alertMs - low <= Limit BY <1>1
  <2>2. \A i \in 1..Len(U) : low < U[i] /\ U[i] <= alertMs
    <3> SUFFICES ASSUME NEW i \in 1..Len(U) PROVE low < U[i] /\ U[i] <= alertMs OBVIOUS
    <3>1. lo < U[i] /\ U[i] <= alertMs /\ alertMs - Limit < U[i] /\ U[i] \in Nat BY <1>7
    <3> QED BY <1>1, <3>1
  <2> HIDE DEF low
  <2>3. Len(U) <= alertMs - low BY <1>1, <1>2, <1>8, <2>1, <2>2, FallingLength
  <2> QED BY <1>1, <1>4, <2>1, <2>3
<1>11. ASSUME NEW a \in 1..alertMs, lo < a, alertMs - Limit < a
       PROVE  \E i \in 1..Len(U) : U[i] = a
  <2> DEFINE m == alertMs - a + 1
  <2>1. m \in 1..Len(R) /\ R[m] = a
    <3>1. m \in 1..Len(R) BY <1>1, <1>11
    <3>2. R[m] = alertMs - m + 1 BY <1>1, <3>1
    <3> QED BY <1>1, <3>1, <3>2
  <2> HIDE DEF m
  <2>2. a \in ToSet(R) BY <1>6, <2>1
  <2>3. a \notin ToSet(seen)
    <3> SUFFICES ASSUME NEW p \in 1..Len(seen), seen[p] = a PROVE FALSE BY <1>5
    <3>1. seen[p] <= lo BY DEF Remembered
    <3>2. seen[p] \in Nat OBVIOUS
    <3> QED BY <1>11, <3>1, <3>2
  <2>4. PICK i \in 1..Len(U) : h[i] = m BY <1>3, <2>1, <2>2, <2>3
  <2>5. U[i] = R[m] BY <1>3, <2>4
  <2> QED BY <2>1, <2>5
<1>12. Fetched(U, lo, alertMs) BY <1>7, <1>9, <1>10, <1>11 DEF Fetched
<1> QED BY <1>2, <1>7, <1>8, <1>12 DEF U

\* Remembering a push keeps the ids it may meet again.
LEMMA RememberProperties ==
  ASSUME seen \in Seq(Nat), NEW sent \in Seq(Nat), NEW lo \in Nat, NEW top \in Nat, lo <= top,
         Remembered(seen, lo), Fetched(sent, lo, top)
  PROVE  Remember(sent) \in Seq(Nat) /\ Remembered(Remember(sent), top)
<1> DEFINE order == seen \o sent
           n == Len(order)
           from == Max({1, n - SeenCap + 1})
           keep == SubSeq(order, from, n)
<1>1. /\ Limit \in Nat /\ SeenCap \in Nat /\ Limit >= 1 /\ SeenCap >= 2 * Limit - 1 /\ SeenCap >= 1
      /\ Len(seen) \in Nat /\ Len(sent) \in Nat
  BY Capacities
<1>2. /\ order \in Seq(Nat) /\ n = Len(seen) + Len(sent)
      /\ \A p \in 1..Len(seen) : order[p] = seen[p]
      /\ \A p \in 1..Len(sent) : order[Len(seen) + p] = sent[p]
  BY <1>1, ConcatProperties
<1>3. Remember(sent) = keep BY DEF Remember
<1> HIDE DEF order
<1>4. n \in Nat BY <1>1, <1>2
<1>5. /\ from = IF 1 >= n - SeenCap + 1 THEN 1 ELSE n - SeenCap + 1
  <2>1. 1 \in Int /\ n - SeenCap + 1 \in Int BY <1>1, <1>4
  <2> HIDE DEF n
  <2> QED BY <2>1, MaxOfTwo
<1>7. from \in Nat /\ from >= 1 /\ from <= n + 1
  <2> HIDE DEF n
  <2> QED BY <1>1, <1>4, <1>5
<1>8. /\ keep \in Seq(Nat) /\ Len(keep) = n - from + 1
      /\ \A p \in 1..(n - from + 1) : keep[p] = order[from + p - 1]
  <2> HIDE DEF from
  <2>1. \A i \in from..n : i \in 1..n BY <1>4, <1>7
  <2> QED BY <1>2, <1>4, <1>7, <2>1
<1> HIDE DEF keep
\* An id that is not too deep is kept, as deep as it was.
<1>9. ASSUME NEW p \in 1..n, n - p < SeenCap
      PROVE  \E q \in 1..Len(keep) : keep[q] = order[p] /\ Len(keep) - q = n - p
  <2> HIDE DEF n, from
  <2> DEFINE q == p - from + 1
  <2>1. from <= p BY <1>1, <1>4, <1>5, <1>9
  <2>2. q \in 1..Len(keep) /\ from + q - 1 = p BY <1>4, <1>7, <1>8, <2>1
  <2>3. keep[q] = order[p] BY <1>8, <2>2
  <2>4. Len(keep) - q = n - p BY <1>4, <1>7, <1>8
  <2> HIDE DEF q
  <2> QED BY <2>2, <2>3, <2>4
<1>10. ASSUME NEW p \in 1..n PROVE order[p] <= top
  <2>1. CASE p <= Len(seen)
    <3>1. p \in 1..Len(seen) BY <1>1, <1>4, <2>1
    <3>2. seen[p] <= lo /\ seen[p] \in Nat BY <3>1 DEF Remembered
    <3> QED BY <1>2, <3>1, <3>2
  <2>2. CASE ~(p <= Len(seen))
    <3> DEFINE i == p - Len(seen)
    <3>1. i \in 1..Len(sent) /\ Len(seen) + i = p BY <1>1, <1>2, <1>4, <2>2
    <3>2. order[Len(seen) + i] = sent[i] BY <1>2, <3>1
    <3>3. sent[i] <= top BY <3>1 DEF Fetched
    <3> QED BY <3>1, <3>2, <3>3
  <2> QED BY <2>1, <2>2
<1>11. ASSUME NEW q \in 1..Len(keep) PROVE keep[q] <= top
  <2>1. q \in 1..(n - from + 1) /\ from + q - 1 \in 1..n BY <1>4, <1>7, <1>8
  <2>2. keep[q] = order[from + q - 1] BY <1>8, <2>1
  <2> QED BY <1>10, <2>1, <2>2
<1>12. ASSUME NEW a \in 1..top, top - Limit < a
       PROVE  \E q \in 1..Len(keep) : keep[q] = a /\ Len(keep) - q < top - a + Limit
  <2>1. \E p \in 1..n : order[p] = a /\ n - p < top - a + Limit
    <3>1. CASE lo < a
      <4>1. PICK i \in 1..Len(sent) : sent[i] = a BY <1>12, <3>1 DEF Fetched
      <4>2. Len(sent) <= Limit BY DEF Fetched
      <4> DEFINE p == Len(seen) + i
      <4>3. p \in 1..n /\ order[p] = a /\ n - p = Len(sent) - i BY <1>1, <1>2, <4>1
      <4>4. n - p < top - a + Limit BY <1>1, <1>12, <4>2, <4>3
      <4> QED BY <4>3, <4>4
    <3>2. CASE ~(lo < a)
      <4>1. a \in 1..lo /\ lo - Limit < a BY <1>1, <1>12, <3>2
      <4>2. PICK p \in 1..Len(seen) : seen[p] = a /\ Len(seen) - p < lo - a + Limit
        BY <4>1 DEF Remembered
      <4>3. Len(sent) <= top - lo BY DEF Fetched
      <4>4. p \in 1..n /\ order[p] = a BY <1>1, <1>2, <4>2
      <4>5. n - p < top - a + Limit BY <1>1, <1>2, <4>2, <4>3
      <4> QED BY <4>4, <4>5
    <3> QED BY <3>1, <3>2
  <2> HIDE DEF n, from
  <2>2. PICK p \in 1..n : order[p] = a /\ n - p < top - a + Limit BY <2>1
  <2>3. n - p < SeenCap BY <1>1, <1>4, <1>12, <2>2
  <2>4. PICK q \in 1..Len(keep) : keep[q] = order[p] /\ Len(keep) - q = n - p BY <1>9, <2>3
  <2> QED BY <2>2, <2>4
<1> QED BY <1>3, <1>8, <1>11, <1>12 DEF Remembered

(***************************************************************************)
(* A connection between its pushes has got no alert newer than some lo     *)
(* whose ids it remembers; a push that is sending alerts ends at some top. *)
(***************************************************************************)
Ascending(s) == \A i, j \in 1..Len(s) : i < j => s[i] < s[j]

Delivering(lo, top) ==
  /\ Fetched(batch, lo, top)
  /\ outbox # << >> /\ Ascending(outbox)
  /\ \A j \in 1..Len(outbox) : outbox[j] <= top
  /\ \A i \in 1..Len(gotAlerts) : gotAlerts[i] <= top
  /\ \A i \in 1..Len(gotAlerts), j \in 1..Len(outbox) : gotAlerts[i] < outbox[j]

Between(lo) == \A i \in 1..Len(gotAlerts) : gotAlerts[i] <= lo

Sending(lo) == \E top \in Nat : lo <= top /\ top <= alertMs /\ Delivering(lo, top)

ListsTyped == {gotAlerts, outbox, batch, seen} \subseteq Seq(Nat)

AlertOrderInv ==
  /\ DequeInv /\ ListsTyped /\ Ascending(gotAlerts)
  /\ \E lo \in Nat :
       /\ lo <= alertMs /\ Remembered(seen, lo)
       /\ pc # "alerts" => Between(lo)
       /\ pc = "alerts" => Sending(lo)

\* push_alert keeps the newest alerts, whether or not the deque is full.
LEMMA DequeStep == ASSUME DequeInv, PushAlert PROVE DequeInv'
<1> DEFINE rest == IF Len(alerts) < DequeCap THEN alerts ELSE Tail(alerts)
<1>1. /\ alertMs' = alertMs + 1 /\ alerts' = Append(rest, alertMs + 1) BY DEF PushAlert
<1>2. /\ alertMs \in Nat /\ alerts \in Seq(Nat) /\ DequeCap \in Nat /\ DequeCap >= 1 /\ Len(alerts) \in Nat
      /\ Len(alerts) = IF alertMs <= DequeCap THEN alertMs ELSE DequeCap
  BY Capacities DEF DequeInv
<1>3. \A i \in 1..Len(alerts) : alerts[i] = alertMs - Len(alerts) + i BY DEF DequeInv
<1>4. /\ rest \in Seq(Nat)
      /\ Len(rest) + 1 = IF alertMs + 1 <= DequeCap THEN alertMs + 1 ELSE DequeCap
      /\ \A i \in 1..Len(rest) : rest[i] = alertMs - Len(rest) + i
  <2>1. CASE Len(alerts) < DequeCap BY <1>2, <1>3, <2>1
  <2>2. CASE ~(Len(alerts) < DequeCap)
    <3>1. rest = Tail(alerts) /\ alerts # << >> /\ Len(alerts) = DequeCap BY <1>2, <2>2
    <3>2. rest \in Seq(Nat) /\ Len(rest) = Len(alerts) - 1 BY <1>2, <3>1
    <3>3. \A i \in 1..Len(rest) : rest[i] = alerts[i + 1] BY <1>2, <3>1
    <3>4. \A i \in 1..Len(rest) : i + 1 \in 1..Len(alerts) BY <1>2, <3>2
    <3>5. \A i \in 1..Len(rest) : alerts[i + 1] = alertMs - Len(alerts) + (i + 1)
      BY <1>3, <3>4
    <3> HIDE DEF rest
    <3>6. \A i \in 1..Len(rest) : rest[i] = alertMs - Len(rest) + i
      BY <1>2, <3>2, <3>3, <3>5
    <3> QED BY <1>2, <2>2, <3>1, <3>2, <3>6
  <2> QED BY <2>1, <2>2
<1> HIDE DEF rest
<1>5. /\ alerts' \in Seq(Nat) /\ Len(alerts') = Len(rest) + 1 /\ alerts'[Len(rest) + 1] = alertMs + 1
      /\ \A i \in 1..Len(rest) : alerts'[i] = rest[i]
  BY <1>1, <1>2, <1>4
<1>6. \A i \in 1..Len(alerts') : alerts'[i] = alertMs' - Len(alerts') + i
  <2> SUFFICES ASSUME NEW i \in 1..Len(alerts') PROVE alerts'[i] = alertMs' - Len(alerts') + i OBVIOUS
  <2>1. Len(rest) \in Nat BY <1>4
  <2>2. CASE i = Len(rest) + 1 BY <1>1, <1>2, <1>5, <2>1, <2>2
  <2>3. CASE i # Len(rest) + 1
    <3>1. i \in 1..Len(rest) BY <1>5, <2>1, <2>3
    <3>2. rest[i] = alertMs - Len(rest) + i /\ alerts'[i] = rest[i] BY <1>4, <1>5, <3>1
    <3> QED BY <1>1, <1>2, <1>5, <2>1, <3>2
  <2> QED BY <2>2, <2>3
<1> QED BY <1>1, <1>2, <1>4, <1>5, <1>6 DEF DequeInv

\* A falling list read backwards ascends.
LEMMA FallingReversed ==
  ASSUME NEW s \in Seq(Nat), \A i, j \in 1..Len(s) : i < j => s[i] > s[j]
  PROVE  /\ Reverse(s) \in Seq(Nat) /\ Len(Reverse(s)) = Len(s) /\ Ascending(Reverse(s))
         /\ \A i \in 1..Len(s) : \E k \in 1..Len(s) : Reverse(s)[i] = s[k]
<1> DEFINE m == Len(s)
           r == Reverse(s)
<1>1. m \in Nat OBVIOUS
<1>2. r = [i \in 1..m |-> s[(m - i) + 1]] BY DEF Reverse
<1>3. \A i \in 1..m : (m - i) + 1 \in 1..m BY <1>1
<1>4. \A i \in 1..m : s[(m - i) + 1] \in Nat BY <1>3
<1>5. \A i \in 1..m : r[i] = s[(m - i) + 1] BY <1>2
<1>6. \A i, j \in 1..m : i < j => r[i] < r[j]
  <2> SUFFICES ASSUME NEW i \in 1..m, NEW j \in 1..m, i < j PROVE r[i] < r[j] OBVIOUS
  <2>1. (m - j) + 1 \in 1..m /\ (m - i) + 1 \in 1..m /\ (m - j) + 1 < (m - i) + 1 BY <1>1, <1>3
  <2>2. s[(m - j) + 1] > s[(m - i) + 1] BY <2>1
  <2>3. s[(m - j) + 1] \in Nat /\ s[(m - i) + 1] \in Nat BY <1>4
  <2> HIDE DEF r
  <2> QED BY <1>5, <2>2, <2>3
<1> HIDE DEF m
<1>7. r \in Seq(Nat) /\ Len(r) = m BY <1>1, <1>2, <1>4
<1>8. \A i \in 1..m : \E k \in 1..m : r[i] = s[k] BY <1>3, <1>5
<1> QED BY <1>6, <1>7, <1>8 DEF m, Ascending

\* A push that has come to the alerts sends those that were not sent, or ends.
LEMMA AlertsStageKeeps ==
  ASSUME AlertOrderInv, pc # "alerts", AlertsStage,
         UNCHANGED <<alerts, alertMs, seen, gotAlerts>>
  PROVE  AlertOrderInv'
<1>1. DequeInv' BY DEF AlertOrderInv, DequeInv
<1>2. DequeInv /\ seen \in Seq(Nat) /\ gotAlerts \in Seq(Nat) /\ Ascending(gotAlerts) /\ alertMs \in Nat
  BY DEF AlertOrderInv, ListsTyped, DequeInv
<1>3. PICK lo \in Nat : lo <= alertMs /\ Remembered(seen, lo) /\ Between(lo) BY DEF AlertOrderInv
<1>4. /\ Unsent \in Seq(Nat) /\ Fetched(Unsent, lo, alertMs)
      /\ \A i \in 1..Len(Unsent) : lo < Unsent[i]
      /\ \A i, j \in 1..Len(Unsent) : i < j => Unsent[i] > Unsent[j]
  BY <1>2, <1>3, UnsentProperties
<1>5. batch' = Unsent /\ outbox' = Reverse(Unsent) BY DEF AlertsStage
<1>6. /\ outbox' \in Seq(Nat) /\ Len(outbox') = Len(Unsent) /\ Ascending(outbox')
      /\ \A i \in 1..Len(Unsent) : \E k \in 1..Len(Unsent) : outbox'[i] = Unsent[k]
  BY <1>4, <1>5, FallingReversed
<1>7. ListsTyped' BY <1>2, <1>4, <1>5, <1>6 DEF ListsTyped
<1>8. Ascending(gotAlerts)' BY <1>2 DEF Ascending
<1>9. lo <= alertMs' /\ Remembered(seen, lo)' BY <1>3 DEF Remembered
<1>10. CASE Unsent = << >>
  <2>1. pc' # "alerts" BY <1>10 DEF AlertsStage, EndPush
  <2>2. Between(lo)' BY <1>3 DEF Between
  <2> QED BY <1>1, <1>7, <1>8, <1>9, <2>1, <2>2 DEF AlertOrderInv
<1>11. CASE Unsent # << >>
  <2>1. Fetched(batch', lo, alertMs') BY <1>4, <1>5
  <2>2. outbox' # << >> BY <1>4, <1>6, <1>11
  <2>3. \A j \in 1..Len(outbox') : lo < outbox'[j] /\ outbox'[j] <= alertMs'
    <3> SUFFICES ASSUME NEW j \in 1..Len(outbox') PROVE lo < outbox'[j] /\ outbox'[j] <= alertMs'
      OBVIOUS
    <3>1. PICK k \in 1..Len(Unsent) : outbox'[j] = Unsent[k] BY <1>6
    <3>2. Unsent[k] <= alertMs BY <1>4 DEF Fetched
    <3> QED BY <1>4, <3>1, <3>2
  <2>4. \A i \in 1..Len(gotAlerts') : gotAlerts'[i] \in Nat /\ gotAlerts'[i] <= lo
    BY <1>2, <1>3 DEF Between
  <2>5. \A i \in 1..Len(gotAlerts') : gotAlerts'[i] <= alertMs' BY <1>2, <1>3, <2>4
  <2>6. \A j \in 1..Len(outbox') : outbox'[j] \in Nat
    <3>1. \A k \in 1..Len(Unsent) : Unsent[k] \in Nat BY <1>4
    <3> QED BY <1>6, <3>1
  <2>7. \A i \in 1..Len(gotAlerts'), j \in 1..Len(outbox') : gotAlerts'[i] < outbox'[j]
    BY <1>3, <2>3, <2>4, <2>6
  <2>8. Delivering(lo, alertMs)' BY <1>6, <2>1, <2>2, <2>3, <2>5, <2>7 DEF Delivering
  <2>9. Sending(lo)'
    <3>1. alertMs' \in Nat /\ lo <= alertMs' /\ alertMs' <= alertMs' BY <1>2, <1>3
    <3> QED BY <2>8, <3>1 DEF Sending
  <2>10. pc' = "alerts" BY <1>11 DEF AlertsStage
  <2> QED BY <1>1, <1>7, <1>8, <1>9, <2>9, <2>10 DEF AlertOrderInv
<1> QED BY <1>10, <1>11

\* The snapshots, and a step that leaves the alerts alone outside their sending.
LEMMA SnapshotsStageKeeps ==
  ASSUME AlertOrderInv, pc # "alerts", SnapshotsStage,
         UNCHANGED <<alerts, alertMs, seen, gotAlerts>>
  PROVE  AlertOrderInv'
<1>1. CASE health'[2] \notin {0, sentMs}
  <2>1. pc' # "alerts" /\ UNCHANGED <<outbox, batch>> BY <1>1 DEF SnapshotsStage
  <2> QED BY <2>1 DEF AlertOrderInv, DequeInv, ListsTyped, Ascending, Remembered, Between
<1>2. CASE ~(health'[2] \notin {0, sentMs})
  <2>1. AlertsStage BY <1>2 DEF SnapshotsStage
  <2> QED BY <2>1, AlertsStageKeeps
<1> QED BY <1>1, <1>2

\* One alert is sent; after the last one the push is remembered.
LEMMA AlertSentKeeps == ASSUME AlertOrderInv, AlertSent PROVE AlertOrderInv'
<1>1. /\ pc = "alerts" /\ gotAlerts' = Append(gotAlerts, Head(outbox)) /\ outbox' = Tail(outbox)
      /\ alerts' = alerts /\ alertMs' = alertMs
  BY DEF AlertSent, stateVars
<1>2. /\ DequeInv /\ seen \in Seq(Nat) /\ gotAlerts \in Seq(Nat) /\ outbox \in Seq(Nat) /\ batch \in Seq(Nat)
      /\ alertMs \in Nat /\ Ascending(gotAlerts)
  BY DEF AlertOrderInv, ListsTyped, DequeInv
<1>3. PICK lo \in Nat : lo <= alertMs /\ Remembered(seen, lo) /\ Sending(lo)
  BY <1>1 DEF AlertOrderInv
<1>4. PICK top \in Nat : lo <= top /\ top <= alertMs /\ Delivering(lo, top) BY <1>3 DEF Sending
<1>5. /\ Fetched(batch, lo, top) /\ outbox # << >>
      /\ \A i, j \in 1..Len(outbox) : i < j => outbox[i] < outbox[j]
      /\ \A j \in 1..Len(outbox) : outbox[j] <= top
      /\ \A i \in 1..Len(gotAlerts) : gotAlerts[i] <= top
      /\ \A i \in 1..Len(gotAlerts), j \in 1..Len(outbox) : gotAlerts[i] < outbox[j]
  BY <1>4 DEF Delivering, Ascending
<1> DEFINE g == Len(gotAlerts)
           b == Len(outbox)
<1>6. g \in Nat /\ b \in Nat /\ b >= 1 /\ 1 \in 1..b BY <1>2, <1>5
<1>7. /\ gotAlerts' \in Seq(Nat) /\ Len(gotAlerts') = g + 1 /\ gotAlerts'[g + 1] = outbox[1]
      /\ \A i \in 1..g : gotAlerts'[i] = gotAlerts[i]
  BY <1>1, <1>2, <1>5
<1>8. /\ outbox' \in Seq(Nat) /\ Len(outbox') = b - 1 /\ \A j \in 1..(b - 1) : outbox'[j] = outbox[j + 1]
  BY <1>1, <1>2, <1>5
<1>9. \A i \in 1..g : gotAlerts[i] < outbox[1] BY <1>5, <1>6
<1>10. \A i, j \in 1..g : i < j => gotAlerts[i] < gotAlerts[j] BY <1>2 DEF Ascending
<1> HIDE DEF g, b
<1>11. Ascending(gotAlerts')
  <2> SUFFICES ASSUME NEW i \in 1..(g + 1), NEW j \in 1..(g + 1), i < j
               PROVE gotAlerts'[i] < gotAlerts'[j]
    BY <1>7 DEF Ascending
  <2>1. i \in 1..g BY <1>6
  <2>2. CASE j = g + 1 BY <1>7, <1>9, <2>1, <2>2
  <2>3. CASE j # g + 1
    <3>1. j \in 1..g BY <1>6, <2>3
    <3> QED BY <1>7, <1>10, <2>1, <3>1
  <2> QED BY <2>2, <2>3
<1>12. \A i \in 1..(g + 1) : gotAlerts'[i] <= top
  <2> SUFFICES ASSUME NEW i \in 1..(g + 1) PROVE gotAlerts'[i] <= top OBVIOUS
  <2>1. CASE i = g + 1 BY <1>5, <1>6, <1>7, <2>1 DEF b
  <2>2. CASE i # g + 1
    <3>1. i \in 1..g BY <1>6, <2>2
    <3> QED BY <1>5, <1>7, <3>1 DEF g
  <2> QED BY <2>1, <2>2
<1>13. DequeInv' BY <1>1, <1>2 DEF DequeInv
<1>14. CASE Len(outbox) > 1
  <2>1. UNCHANGED <<pc, seen, batch>> BY <1>14 DEF AlertSent
  <2>2. ListsTyped' BY <1>2, <1>7, <1>8, <2>1 DEF ListsTyped
  <2>3. lo <= alertMs' /\ Remembered(seen, lo)' BY <1>1, <1>3, <2>1 DEF Remembered
  <2>4. outbox' # << >> BY <1>6, <1>8, <1>14 DEF b
  <2>5. \A j \in 1..(b - 1) : j + 1 \in 1..b BY <1>6
  <2>6. Ascending(outbox')
    <3> SUFFICES ASSUME NEW i \in 1..(b - 1), NEW j \in 1..(b - 1), i < j PROVE outbox'[i] < outbox'[j]
      BY <1>8 DEF Ascending
    <3>1. i + 1 \in 1..b /\ j + 1 \in 1..b /\ i + 1 < j + 1 BY <1>6
    <3>2. outbox[i + 1] < outbox[j + 1] BY <1>5, <3>1 DEF b
    <3> QED BY <1>8, <3>2
  <2>7. \A j \in 1..Len(outbox') : outbox'[j] <= top
    <3> SUFFICES ASSUME NEW j \in 1..(b - 1) PROVE outbox'[j] <= top BY <1>8
    <3> QED BY <1>5, <1>8, <2>5 DEF b
  <2>8. \A i \in 1..Len(gotAlerts'), j \in 1..Len(outbox') : gotAlerts'[i] < outbox'[j]
    <3> SUFFICES ASSUME NEW i \in 1..(g + 1), NEW j \in 1..(b - 1) PROVE gotAlerts'[i] < outbox'[j]
      BY <1>7, <1>8
    <3>1. outbox'[j] = outbox[j + 1] /\ j + 1 \in 1..b BY <1>8, <2>5
    <3>2. CASE i = g + 1
      <4>1. 1 < j + 1 BY <1>6
      <4>2. outbox[1] < outbox[j + 1] BY <1>5, <1>6, <3>1, <4>1 DEF b
      <4> QED BY <1>7, <3>1, <3>2, <4>2
    <3>3. CASE i # g + 1
      <4>1. i \in 1..g BY <1>6, <3>3
      <4> QED BY <1>5, <1>7, <3>1, <4>1 DEF g, b
    <3> QED BY <3>2, <3>3
  <2>9. Fetched(batch', lo, top) BY <1>5, <2>1
  <2>10. \A i \in 1..Len(gotAlerts') : gotAlerts'[i] <= top BY <1>7, <1>12
  <2>11. Delivering(lo, top)' BY <2>4, <2>6, <2>7, <2>8, <2>9, <2>10 DEF Delivering
  <2>12. Sending(lo)' BY <1>1, <1>4, <2>11 DEF Sending
  <2>13. pc' = "alerts" BY <1>1, <2>1
  <2> QED BY <1>11, <1>13, <2>2, <2>3, <2>12, <2>13 DEF AlertOrderInv
<1>15. CASE ~(Len(outbox) > 1)
  <2>1. pc' # "alerts" /\ seen' = Remember(batch) /\ batch' = << >> BY <1>15 DEF AlertSent, EndPush
  <2>2. seen' \in Seq(Nat) /\ Remembered(seen', top)
    BY <1>2, <1>3, <1>4, <1>5, <2>1, RememberProperties
  <2>3. batch' \in Seq(Nat) BY <2>1
  <2>4. ListsTyped' BY <1>7, <1>8, <2>2, <2>3 DEF ListsTyped
  <2>5. Between(top)' BY <1>7, <1>12 DEF Between
  <2>6. Remembered(seen, top)' BY <2>2
  <2> QED BY <1>1, <1>4, <1>11, <1>13, <2>1, <2>4, <2>5, <2>6 DEF AlertOrderInv
<1> QED BY <1>14, <1>15

\* A connection that is not there has got nothing and remembers nothing.
LEMMA NothingYet ==
  ASSUME DequeInv', pc' # "alerts", gotAlerts' = << >>, outbox' = << >>, batch' = << >>, seen' = << >>
  PROVE  AlertOrderInv'
<1>1. ListsTyped' BY DEF ListsTyped
<1>2. Len(<< >>) = 0 /\ 1..0 = {} OBVIOUS
<1>3. Ascending(gotAlerts)' /\ Remembered(seen, 0)' /\ Between(0)'
  BY <1>2 DEF Ascending, Remembered, Between
<1>4. 0 \in Nat /\ 0 <= alertMs' BY DEF DequeInv
<1> QED BY <1>1, <1>3, <1>4 DEF AlertOrderInv

\* A step that leaves the connection's lists alone.
LEMMA QuietStep ==
  ASSUME AlertOrderInv, DequeInv', alertMs <= alertMs', pc' = "alerts" <=> pc = "alerts",
         UNCHANGED <<gotAlerts, outbox, batch, seen>>
  PROVE  AlertOrderInv'
<1>1. ListsTyped' /\ Ascending(gotAlerts)' BY DEF AlertOrderInv, ListsTyped, Ascending
<1>2. PICK lo \in Nat : /\ lo <= alertMs /\ Remembered(seen, lo)
                        /\ pc # "alerts" => Between(lo)
                        /\ pc = "alerts" => Sending(lo)
  BY DEF AlertOrderInv
<1>3. alertMs \in Nat /\ alertMs' \in Nat BY DEF AlertOrderInv, DequeInv
<1>4. lo <= alertMs' /\ Remembered(seen, lo)' BY <1>2, <1>3 DEF Remembered
<1>5. Between(lo) => Between(lo)' BY DEF Between
<1>6. ASSUME Sending(lo) PROVE Sending(lo)'
  <2>1. PICK top \in Nat : lo <= top /\ top <= alertMs /\ Delivering(lo, top) BY <1>6 DEF Sending
  <2>2. Delivering(lo, top)' BY <2>1 DEF Delivering, Ascending
  <2>3. top <= alertMs' BY <1>3, <2>1
  <2> QED BY <2>1, <2>2, <2>3 DEF Sending
<1> QED BY <1>1, <1>2, <1>4, <1>5, <1>6 DEF AlertOrderInv

\* Every step keeps it.
LEMMA AlertOrderStep == ASSUME AlertOrderInv, [Next]_vars PROVE AlertOrderInv'
<1>0. DequeInv /\ alertMs \in Nat BY DEF AlertOrderInv, DequeInv
<1>1. ASSUME NEW c \in Coins, PushSnapshot(c) PROVE AlertOrderInv'
  <2>1. UNCHANGED <<alerts, alertMs, pc, gotAlerts, outbox, batch, seen>>
    BY <1>1 DEF PushSnapshot, loopVars, gotVars
  <2> QED BY <1>0, <2>1, QuietStep DEF DequeInv
<1>2. CASE PushAlert
  <2>1. UNCHANGED <<pc, gotAlerts, outbox, batch, seen>> /\ alertMs' = alertMs + 1
    BY <1>2 DEF PushAlert, loopVars, gotVars
  <2>2. DequeInv' BY <1>0, <1>2, DequeStep
  <2>3. alertMs <= alertMs' BY <1>0, <2>1
  <2> QED BY <2>1, <2>2, <2>3, QuietStep
<1>3. CASE SetRunning \/ Connect \/ UNCHANGED vars
  <2>1. UNCHANGED <<alerts, alertMs, gotAlerts, outbox, batch, seen>>
    BY <1>3 DEF SetRunning, Connect, vars, stateVars, loopVars, gotVars
  <2>2. pc' = "alerts" <=> pc = "alerts"
    BY <1>3 DEF SetRunning, Connect, vars, loopVars
  <2>3. DequeInv' /\ alertMs <= alertMs' BY <1>0, <2>1 DEF DequeInv
  <2> QED BY <2>1, <2>2, <2>3, QuietStep
<1>4. CASE Disconnect
  <2>1. /\ pc' # "alerts" /\ gotAlerts' = << >> /\ outbox' = << >> /\ batch' = << >> /\ seen' = << >>
        /\ UNCHANGED <<alerts, alertMs>>
    BY <1>4 DEF Disconnect, stateVars
  <2>2. DequeInv' BY <1>0, <2>1 DEF DequeInv
  <2> QED BY <2>1, <2>2, NothingYet
<1>5. CASE StartPush
  <2>1. pc # "alerts" /\ UNCHANGED <<alerts, alertMs, seen, gotAlerts>>
    BY <1>5 DEF StartPush, stateVars, gotVars
  <2>2. CASE health' # signature
    <3>1. pc' # "alerts" /\ UNCHANGED <<outbox, batch>> BY <1>5, <2>2 DEF StartPush
    <3>2. DequeInv' /\ alertMs <= alertMs' BY <1>0, <2>1 DEF DequeInv
    <3> QED BY <2>1, <3>1, <3>2, QuietStep
  <2>3. CASE ~(health' # signature)
    <3>1. SnapshotsStage BY <1>5, <2>3 DEF StartPush
    <3> QED BY <2>1, <3>1, SnapshotsStageKeeps
  <2> QED BY <2>2, <2>3
<1>6. CASE HealthSent
  <2>1. pc # "alerts" /\ UNCHANGED <<alerts, alertMs, seen, gotAlerts>> /\ SnapshotsStage
    BY <1>6 DEF HealthSent, stateVars
  <2> QED BY <2>1, SnapshotsStageKeeps
<1>7. CASE SnapshotsSent
  <2>1. pc # "alerts" /\ UNCHANGED <<alerts, alertMs, seen, gotAlerts>> /\ AlertsStage
    BY <1>7 DEF SnapshotsSent, stateVars
  <2> QED BY <2>1, AlertsStageKeeps
<1>8. CASE AlertSent BY <1>8, AlertSentKeeps
<1> QED BY <1>1, <1>2, <1>3, <1>4, <1>5, <1>6, <1>7, <1>8 DEF Next, Push

\* A connection gets no alert twice, and its alerts in the order in which they were
\* raised, whatever is raised during a push and although ids are forgotten at the cap
\* (_select_unsent_alerts and _remember_sent_alerts in ws.py): the cap leaves room for
\* two full reads less one.
THEOREM AlertsArriveInOrder == Spec => []AlertsInOrder
<1>1. Init => AlertOrderInv
  <2> SUFFICES ASSUME Init PROVE AlertOrderInv OBVIOUS
  <2>1. /\ alerts = << >> /\ alertMs = 0 /\ pc = "off" /\ outbox = << >> /\ batch = << >>
        /\ seen = << >> /\ gotAlerts = << >>
    BY DEF Init
  <2>2. Len(<< >>) = 0 /\ 1..0 = {} /\ << >> \in Seq(Nat) OBVIOUS
  <2>3. DequeInv BY <2>1, <2>2, Capacities DEF DequeInv
  <2>4. ListsTyped /\ Ascending(gotAlerts) BY <2>1, <2>2 DEF ListsTyped, Ascending
  <2>5. Remembered(seen, 0) /\ Between(0) BY <2>1, <2>2 DEF Remembered, Between
  <2>6. 0 \in Nat /\ 0 <= alertMs BY <2>1
  <2> QED BY <2>1, <2>3, <2>4, <2>5, <2>6 DEF AlertOrderInv
<1>2. AlertOrderInv /\ [Next]_vars => AlertOrderInv' BY AlertOrderStep
<1>3. AlertOrderInv => AlertsInOrder
  <2> SUFFICES ASSUME AlertOrderInv PROVE AlertsInOrder OBVIOUS
  <2>1. gotAlerts \in Seq(Nat) /\ Ascending(gotAlerts) BY DEF AlertOrderInv, ListsTyped
  <2>2. DOMAIN gotAlerts = 1..Len(gotAlerts) BY <2>1
  <2> QED BY <2>1, <2>2 DEF Ascending, AlertsInOrder
<1> QED BY <1>1, <1>2, <1>3, PTL DEF Spec
=============================================================================
