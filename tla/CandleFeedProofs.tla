--------------------------- MODULE CandleFeedProofs ---------------------------
(***************************************************************************)
(* Proofs about CandleFeed, for any connections, keys and number of bars.  *)
(***************************************************************************)
EXTENDS CandleFeed, FiniteSetTheorems, SequenceTheorems, TLAPS

(***************************************************************************)
(* The inductive invariant.                                                *)
(***************************************************************************)

\* The registry's view in every state of the link: a fresh connection starts
\* with nothing subscribed on either side.
LinkView ==
  /\ link = "up" => subscribed = upstream
  /\ link # "up" => upstream = {} /\ wire = << >>
  /\ link = "down" => subscribed = {}

\* Sequence numbers are given out in order: no bar is newer than the counter,
\* and the bars in flight still fit in what the exchange has sent.
SeqBound ==
  /\ seq + Len(wire) <= quotes
  /\ \A k \in Keys : last[k] <= seq
  /\ \A c \in Conns : lastSeq[c] <= seq /\ sending[c][2] <= seq

\* A sequence number names one bar, also while the bar is in a frame.
SeqIdentifies ==
  \A c \in Conns, k \in Keys :
    (last[k] # 0 /\ sending[c][2] = last[k]) => sending[c][1] = k

\* The newest bars of two keys have different numbers.
LastDistinct ==
  \A j, k \in Keys : (last[j] # 0 /\ last[j] = last[k]) => j = k

CInv ==
  /\ CandleTypeOK /\ RefsMatch /\ NoLeakedBar /\ LinkView
  /\ SeqBound /\ SeqIdentifies /\ LastDistinct /\ NoSkippedBar

\* It holds at first.
LEMMA InitCInv == Init => CInv
<1> SUFFICES ASSUME Init PROVE CInv OBVIOUS
<1> USE DEF Init
<1>1. Cardinality(Conns) \in Nat BY ConnsAssumption, FS_CardinalityType
<1>2. CandleTypeOK
  BY <1>1, BarsAssumption, EmptySeq
     DEF CandleTypeOK, Bars, NoFrame, NothingToDo
<1>3. RefsMatch
  <2> SUFFICES ASSUME NEW k \in Keys PROVE refs[k] = Cardinality(Watchers(k))
    BY DEF RefsMatch
  <2>1. Watchers(k) = {} BY KeysAssumption DEF Watchers
  <2> QED BY <2>1, FS_EmptySet
<1>4. NoLeakedBar /\ LinkView BY DEF NoLeakedBar, LinkView
<1>5. SeqBound /\ SeqIdentifies /\ LastDistinct /\ NoSkippedBar
  BY DEF SeqBound, SeqIdentifies, LastDistinct, NoSkippedBar, NoFrame
<1> QED BY <1>2, <1>3, <1>4, <1>5 DEF CInv

(***************************************************************************)
(* A connection that changes what it watches.                              *)
(***************************************************************************)

\* One connection moves from its key to another or to none: the counts follow,
\* and the last watcher of the old key leaves no bar behind.
LEMMA ReserveCounts ==
  ASSUME CInv, NEW c \in Conns, NEW new \in Keys \cup {NoKey},
         Reserve(current[c], new),
         current' = [current EXCEPT ![c] = new]
  PROVE  /\ refs' \in [Keys -> 0..Cardinality(Conns)]
         /\ last' \in [Keys -> Bars]
         /\ \A k \in Keys : last'[k] \in {0, last[k]}
         /\ RefsMatch'
         /\ NoLeakedBar'
<1> DEFINE old == current[c]
<1>1. /\ refs \in [Keys -> 0..Cardinality(Conns)] /\ last \in [Keys -> Bars]
      /\ current \in [Conns -> Keys \cup {NoKey}]
  BY DEF CInv, CandleTypeOK
<1>2. Cardinality(Conns) \in Nat BY ConnsAssumption, FS_CardinalityType
<1>3. ASSUME NEW k \in Keys
      PROVE  /\ IsFiniteSet(Watchers(k)) /\ IsFiniteSet(Watchers(k)')
             /\ Cardinality(Watchers(k)) \in Nat
             /\ Cardinality(Watchers(k)') \in Nat
             /\ Cardinality(Watchers(k)') <= Cardinality(Conns)
             /\ Cardinality(Watchers(k)') =
                  Cardinality(Watchers(k)) + (IF k = new THEN 1 ELSE 0)
                                           - (IF k = old THEN 1 ELSE 0)
             /\ k = old => Cardinality(Watchers(k)) > 0
  <2>1. Watchers(k) \subseteq Conns /\ Watchers(k)' \subseteq Conns BY DEF Watchers
  <2>2. /\ IsFiniteSet(Watchers(k)) /\ IsFiniteSet(Watchers(k)')
        /\ Cardinality(Watchers(k)') <= Cardinality(Conns)
    BY <2>1, ConnsAssumption, FS_Subset
  <2>3. Cardinality(Watchers(k)) \in Nat /\ Cardinality(Watchers(k)') \in Nat
    BY <2>2, FS_CardinalityType
  <2>4. k = old => Cardinality(Watchers(k)) > 0
    <3>1. k = old => Watchers(k) # {} BY DEF Watchers
    <3> QED BY <2>2, <2>3, <3>1, FS_EmptySet
  <2>5. CASE k = new /\ k # old
    <3>1. Watchers(k)' = Watchers(k) \cup {c} /\ c \notin Watchers(k)
      BY <1>1, <2>5 DEF Watchers
    <3>2. Cardinality(Watchers(k)') = Cardinality(Watchers(k)) + 1
      BY <2>2, <3>1, FS_AddElement
    <3> QED BY <2>2, <2>3, <2>4, <2>5, <3>2
  <2>6. CASE k # new /\ k = old
    <3>1. Watchers(k)' = Watchers(k) \ {c} /\ c \in Watchers(k)
      BY <1>1, <2>6 DEF Watchers
    <3>2. Cardinality(Watchers(k)') = Cardinality(Watchers(k)) - 1
      BY <2>2, <3>1, FS_RemoveElement
    <3> QED BY <2>2, <2>3, <2>4, <2>6, <3>2
  <2>7. CASE (k = new) = (k = old)
    <3>1. Watchers(k)' = Watchers(k) BY <1>1, <2>7 DEF Watchers
    <3> QED BY <2>2, <2>3, <2>4, <2>7, <3>1
  <2> QED BY <2>5, <2>6, <2>7
<1>4. ASSUME NEW k \in Keys
      PROVE  /\ refs[k] = Cardinality(Watchers(k))
             /\ refs'[k] = Cardinality(Watchers(k)')
             /\ last'[k] = IF k = old /\ refs[k] = 1 THEN 0 ELSE last[k]
  <2>1. refs[k] = Cardinality(Watchers(k)) BY DEF CInv, RefsMatch
  <2>2. /\ refs'[k] = refs[k] + (IF k = new THEN 1 ELSE 0)
                              - (IF k = old THEN 1 ELSE 0)
        /\ last'[k] = IF k = old /\ refs[k] = 1 THEN 0 ELSE last[k]
    BY DEF Reserve
  <2> QED BY <1>3, <2>1, <2>2
<1>5. RefsMatch' BY <1>4 DEF RefsMatch
<1>6. refs' \in [Keys -> 0..Cardinality(Conns)]
  BY <1>2, <1>3, <1>4 DEF Reserve
<1>7. /\ last' \in [Keys -> Bars]
      /\ \A k \in Keys : last'[k] \in {0, last[k]}
  BY <1>1, BarsAssumption DEF Reserve, Bars
<1>8. NoLeakedBar'
  <2> SUFFICES ASSUME NEW k \in Keys, last'[k] # 0 PROVE refs'[k] > 0
    BY DEF NoLeakedBar
  <2>1. last[k] # 0 /\ refs[k] > 0 BY <1>4 DEF CInv, NoLeakedBar
  <2>2. /\ refs'[k] = refs[k] + (IF k = new THEN 1 ELSE 0)
                              - (IF k = old THEN 1 ELSE 0)
    BY DEF Reserve
  <2>3. ~(k = old /\ refs[k] = 1) BY <1>4
  <2> QED BY <1>1, <1>2, <2>1, <2>2, <2>3
<1> QED BY <1>5, <1>6, <1>7, <1>8

(***************************************************************************)
(* Steps that leave the shared state or the registry alone.                *)
(***************************************************************************)
LEMMA QuietShared ==
  ASSUME CInv, UNCHANGED <<stateVars, connVars>>
  PROVE  RefsMatch' /\ NoLeakedBar' /\ SeqIdentifies' /\ LastDistinct' /\ NoSkippedBar'
<1> USE DEF CInv, stateVars, connVars
<1>1. RefsMatch'
  <2>1. \A k \in Keys : Watchers(k)' = Watchers(k) BY DEF Watchers
  <2> QED BY <2>1 DEF RefsMatch
<1>2. NoLeakedBar' BY DEF NoLeakedBar
<1>3. SeqIdentifies' BY DEF SeqIdentifies
<1>4. LastDistinct' BY DEF LastDistinct
<1>5. NoSkippedBar' BY DEF NoSkippedBar
<1> QED BY <1>1, <1>2, <1>3, <1>4, <1>5

\* A bar is a natural number.
LEMMA Numbers ==
  ASSUME CInv
  PROVE  /\ seq \in 0..MaxBars /\ quotes \in 0..MaxBars /\ MaxBars \in Nat
         /\ Len(wire) \in Nat
         /\ \A k \in Keys : last[k] \in 0..MaxBars
         /\ \A c \in Conns : /\ lastSeq[c] \in (0..MaxBars) \cup {-1}
                            /\ sending[c][2] \in 0..MaxBars
<1>1. \A c \in Conns : sending[c] \in (Keys \X Bars) \cup {NoFrame}
  BY DEF CInv, CandleTypeOK
<1>2. \A c \in Conns : sending[c][2] \in 0..MaxBars
  BY <1>1, BarsAssumption DEF Bars, NoFrame
<1>3. Len(wire) \in Nat BY LenProperties DEF CInv, CandleTypeOK
<1> QED BY <1>2, <1>3, BarsAssumption DEF CInv, CandleTypeOK, Bars

(***************************************************************************)
(* The connections.                                                        *)
(***************************************************************************)
LEMMA WatchStep ==
  ASSUME CInv, NEW c \in Conns, NEW k \in Keys, Watch(c, k)
  PROVE  CInv'
<1> USE DEF Watch
<1>1. /\ refs' \in [Keys -> 0..Cardinality(Conns)]
      /\ last' \in [Keys -> Bars]
      /\ \A j \in Keys : last'[j] \in {0, last[j]}
      /\ RefsMatch' /\ NoLeakedBar'
  BY ReserveCounts
<1>2. /\ seq' = seq /\ UNCHANGED <<sending, registryVars, exchangeVars>>
      /\ current' = [current EXCEPT ![c] = k]
      /\ lastSeq' = [lastSeq EXCEPT ![c] = -1]
      /\ shown' = [shown EXCEPT ![c] = 0]
  BY DEF Reserve
<1> HIDE DEF Watch
<1>3. CandleTypeOK'
  BY <1>1, <1>2, BarsAssumption
     DEF CInv, CandleTypeOK, Bars, registryVars, exchangeVars
<1>4. LinkView' BY <1>2 DEF CInv, LinkView, registryVars, exchangeVars
<1>5. SeqBound'
  <2>1. \A d \in Conns : lastSeq'[d] \in {lastSeq[d], -1}
    BY <1>2 DEF CInv, CandleTypeOK
  <2>2. \A d \in Conns : lastSeq'[d] <= seq BY <2>1, Numbers DEF CInv, SeqBound
  <2>3. \A j \in Keys : last'[j] <= seq BY <1>1, Numbers DEF CInv, SeqBound
  <2>4. /\ seq' = seq /\ wire' = wire /\ quotes' = quotes /\ sending' = sending
    BY <1>2 DEF exchangeVars
  <2> QED BY <2>2, <2>3, <2>4 DEF CInv, SeqBound
<1>6. SeqIdentifies' BY <1>1, <1>2 DEF CInv, SeqIdentifies
<1>7. LastDistinct' BY <1>1, <1>2 DEF CInv, LastDistinct
<1>8. NoSkippedBar'
  <2> SUFFICES ASSUME NEW d \in Conns, current'[d] # NoKey,
                      last'[current'[d]] # 0,
                      lastSeq'[d] = last'[current'[d]]
               PROVE  shown'[d] = last'[current'[d]]
    BY DEF NoSkippedBar
  <2>1. current'[d] \in Keys BY <1>3 DEF CandleTypeOK
  <2>2. d # c BY <1>1, <1>2, <2>1, Numbers DEF CInv, CandleTypeOK
  <2>3. /\ current'[d] = current[d] /\ lastSeq'[d] = lastSeq[d]
        /\ shown'[d] = shown[d]
    BY <1>2, <2>2 DEF CInv, CandleTypeOK
  <2>4. last'[current[d]] = last[current[d]] BY <1>1, <2>1, <2>3
  <2> QED BY <2>3, <2>4 DEF CInv, NoSkippedBar
<1> QED BY <1>1, <1>3, <1>4, <1>5, <1>6, <1>7, <1>8 DEF CInv

\* A watch that ends, together with the frame in flight or without it.
LEMMA ClearStep ==
  ASSUME CInv, NEW c \in Conns, Clear(c),
         sending' = sending \/ sending' = [sending EXCEPT ![c] = NoFrame],
         UNCHANGED <<registryVars, exchangeVars>>
  PROVE  CInv'
<1>1. /\ refs' \in [Keys -> 0..Cardinality(Conns)]
      /\ last' \in [Keys -> Bars]
      /\ \A j \in Keys : last'[j] \in {0, last[j]}
      /\ RefsMatch' /\ NoLeakedBar'
  BY ReserveCounts DEF Clear
<1>2. /\ seq' = seq
      /\ current' = [current EXCEPT ![c] = NoKey]
      /\ lastSeq' = [lastSeq EXCEPT ![c] = -1]
      /\ shown' = [shown EXCEPT ![c] = 0]
  BY DEF Clear, Reserve
<1>3. \A d \in Conns : sending'[d] \in {sending[d], NoFrame}
  BY DEF CInv, CandleTypeOK
<1>4. CandleTypeOK'
  <2>1. sending' \in [Conns -> (Keys \X Bars) \cup {NoFrame}]
    BY DEF CInv, CandleTypeOK
  <2>2. /\ current' \in [Conns -> Keys \cup {NoKey}]
        /\ lastSeq' \in [Conns -> Bars \cup {-1}]
        /\ shown' \in [Conns -> Bars]
    BY <1>2, BarsAssumption DEF CInv, CandleTypeOK, Bars
  <2>3. /\ seq' = seq /\ link' = link /\ subscribed' = subscribed
        /\ todo' = todo /\ upstream' = upstream /\ wire' = wire
        /\ quotes' = quotes
    BY <1>2 DEF registryVars, exchangeVars
  <2> QED BY <1>1, <2>1, <2>2, <2>3 DEF CInv, CandleTypeOK
<1>5. LinkView' BY DEF CInv, LinkView, registryVars, exchangeVars
<1>6. SeqBound'
  <2>1. \A d \in Conns : sending'[d][2] <= seq
    BY <1>3, Numbers DEF CInv, SeqBound, NoFrame
  <2>2. \A d \in Conns : lastSeq'[d] \in {lastSeq[d], -1}
    BY <1>2 DEF CInv, CandleTypeOK
  <2>3. \A d \in Conns : lastSeq'[d] <= seq BY <2>2, Numbers DEF CInv, SeqBound
  <2>4. \A j \in Keys : last'[j] <= seq BY <1>1, Numbers DEF CInv, SeqBound
  <2>5. seq' = seq /\ wire' = wire /\ quotes' = quotes BY <1>2 DEF exchangeVars
  <2> QED BY <2>1, <2>3, <2>4, <2>5 DEF CInv, SeqBound
<1>7. SeqIdentifies' BY <1>1, <1>3 DEF CInv, SeqIdentifies, NoFrame
<1>8. LastDistinct' BY <1>1 DEF CInv, LastDistinct
<1>9. NoSkippedBar'
  <2> SUFFICES ASSUME NEW d \in Conns, current'[d] # NoKey,
                      last'[current'[d]] # 0,
                      lastSeq'[d] = last'[current'[d]]
               PROVE  shown'[d] = last'[current'[d]]
    BY DEF NoSkippedBar
  <2>1. current'[d] \in Keys /\ d # c
    BY <1>2, <1>4 DEF CInv, CandleTypeOK
  <2>2. /\ current'[d] = current[d] /\ lastSeq'[d] = lastSeq[d]
        /\ shown'[d] = shown[d]
    BY <1>2, <2>1 DEF CInv, CandleTypeOK
  <2>3. last'[current[d]] = last[current[d]] BY <1>1, <2>1, <2>2
  <2> QED BY <2>2, <2>3 DEF CInv, NoSkippedBar
<1> QED BY <1>1, <1>4, <1>5, <1>6, <1>7, <1>8, <1>9 DEF CInv

\* A poll takes the newest bar of the key that is watched, if it was not sent.
LEMMA PollStep ==
  ASSUME CInv, NEW c \in Conns, Poll(c)
  PROVE  CInv'
<1> DEFINE k == current[c]
<1>1. k \in Keys /\ last[k] # 0 BY DEF Poll, CInv, CandleTypeOK
<1>2. /\ sending' = [sending EXCEPT ![c] = <<k, last[k]>>]
      /\ UNCHANGED <<stateVars, current, lastSeq, shown, registryVars, exchangeVars>>
  BY DEF Poll
<1> HIDE DEF k
<1>3. CandleTypeOK'
  <2>1. sending' \in [Conns -> (Keys \X Bars) \cup {NoFrame}]
    BY <1>1, <1>2 DEF CInv, CandleTypeOK
  <2> QED BY <1>2, <2>1
          DEF CInv, CandleTypeOK, stateVars, registryVars, exchangeVars
<1>4. RefsMatch'
  <2>1. \A j \in Keys : Watchers(j)' = Watchers(j) BY <1>2 DEF Watchers
  <2> QED BY <1>2, <2>1 DEF CInv, RefsMatch, stateVars
<1>5. NoLeakedBar' /\ LastDistinct' /\ NoSkippedBar'
  BY <1>2 DEF CInv, NoLeakedBar, LastDistinct, NoSkippedBar, stateVars
<1>6. LinkView' BY <1>2 DEF CInv, LinkView, registryVars, exchangeVars
<1>7. \A d \in Conns : sending'[d] = IF d = c THEN <<k, last[k]>> ELSE sending[d]
  BY <1>2 DEF CInv, CandleTypeOK
<1>8. SeqBound'
  BY <1>1, <1>2, <1>7, Numbers DEF CInv, SeqBound, stateVars, exchangeVars
<1>9. SeqIdentifies'
  BY <1>1, <1>2, <1>7 DEF CInv, SeqIdentifies, LastDistinct, stateVars
<1> QED BY <1>3, <1>4, <1>5, <1>6, <1>8, <1>9 DEF CInv

\* A frame that ends sets lastSeq to its own number, which is the newest bar of
\* the watched key only if the frame was a frame of that key.
LEMMA FinishSendStep ==
  ASSUME CInv, NEW c \in Conns, FinishSend(c)
  PROVE  CInv'
<1> DEFINE k == sending[c][1]
           s == sending[c][2]
<1>1. k \in Keys /\ s \in Bars /\ s <= seq
  <2>1. sending[c] \in Keys \X Bars BY DEF FinishSend, CInv, CandleTypeOK
  <2> QED BY <2>1 DEF CInv, SeqBound
<1>2. /\ shown' = [shown EXCEPT ![c] = IF k = current[c] THEN s ELSE @]
      /\ lastSeq' = [lastSeq EXCEPT ![c] = s]
      /\ sending' = [sending EXCEPT ![c] = NoFrame]
      /\ UNCHANGED <<stateVars, current, registryVars, exchangeVars>>
  BY DEF FinishSend, Delivered
<1>3. \A j \in Keys : (last[j] # 0 /\ s = last[j]) => k = j
  BY DEF CInv, SeqIdentifies
<1> HIDE DEF k, s
<1>4. CandleTypeOK'
  <2>1. /\ sending' \in [Conns -> (Keys \X Bars) \cup {NoFrame}]
        /\ lastSeq' \in [Conns -> Bars \cup {-1}]
        /\ shown' \in [Conns -> Bars]
    BY <1>1, <1>2 DEF CInv, CandleTypeOK
  <2>2. /\ refs' = refs /\ last' = last /\ seq' = seq /\ current' = current
        /\ link' = link /\ subscribed' = subscribed /\ todo' = todo
        /\ upstream' = upstream /\ wire' = wire /\ quotes' = quotes
    BY <1>2 DEF stateVars, registryVars, exchangeVars
  <2> QED BY <2>1, <2>2 DEF CInv, CandleTypeOK
<1>5. RefsMatch'
  <2>1. \A j \in Keys : Watchers(j)' = Watchers(j) BY <1>2 DEF Watchers
  <2> QED BY <1>2, <2>1 DEF CInv, RefsMatch, stateVars
<1>6. NoLeakedBar' /\ LastDistinct'
  BY <1>2 DEF CInv, NoLeakedBar, LastDistinct, stateVars
<1>7. LinkView' BY <1>2 DEF CInv, LinkView, registryVars, exchangeVars
<1>8. \A d \in Conns : /\ sending'[d] = IF d = c THEN NoFrame ELSE sending[d]
                      /\ lastSeq'[d] = IF d = c THEN s ELSE lastSeq[d]
  BY <1>2 DEF CInv, CandleTypeOK
<1>9. SeqBound'
  <2>1. NoFrame[2] = 0 BY DEF NoFrame
  <2>2. \A d \in Conns : lastSeq'[d] <= seq /\ sending'[d][2] <= seq
    BY <1>1, <1>8, <2>1, Numbers DEF CInv, SeqBound
  <2>3. /\ seq' = seq /\ last' = last /\ wire' = wire /\ quotes' = quotes
    BY <1>2 DEF stateVars, exchangeVars
  <2> QED BY <2>2, <2>3 DEF CInv, SeqBound
<1>10. SeqIdentifies'
  BY <1>2, <1>8 DEF CInv, SeqIdentifies, NoFrame, stateVars
<1>11. NoSkippedBar'
  <2> SUFFICES ASSUME NEW d \in Conns, current[d] # NoKey,
                      last[current[d]] # 0,
                      lastSeq'[d] = last[current[d]]
               PROVE  shown'[d] = last[current[d]]
    BY <1>2 DEF NoSkippedBar, stateVars
  <2>1. CASE d = c
    <3>1. current[c] \in Keys BY <2>1 DEF CInv, CandleTypeOK
    <3>2. k = current[c] BY <1>3, <1>8, <2>1, <3>1
    <3> QED BY <1>2, <1>8, <2>1, <3>2 DEF CInv, CandleTypeOK
  <2>2. CASE d # c
    <3>1. shown'[d] = shown[d] BY <1>2, <2>2 DEF CInv, CandleTypeOK
    <3> QED BY <1>8, <2>2, <3>1 DEF CInv, NoSkippedBar
  <2> QED BY <2>1, <2>2
<1> QED BY <1>4, <1>5, <1>6, <1>7, <1>9, <1>10, <1>11 DEF CInv

(***************************************************************************)
(* The registry and the exchange.                                          *)
(***************************************************************************)

\* A bar gets a number that no bar, frame or connection has yet.
LEMMA ReceiveStep ==
  ASSUME CInv, Receive
  PROVE  CInv'
<1> DEFINE k == Head(wire)
<1>1. /\ k \in Keys /\ wire' \in Seq(ValidKeys) /\ Len(wire') = Len(wire) - 1
  BY HeadTailProperties, KeysAssumption DEF Receive, CInv, CandleTypeOK
<1>2. /\ PushCandle(k) /\ link = "up"
      /\ UNCHANGED <<connVars, registryVars, upstream, quotes>>
  BY DEF Receive
<1> HIDE DEF k
<1>3. CASE refs[k] = 0
  <2>1. UNCHANGED <<stateVars, connVars>> BY <1>2, <1>3 DEF PushCandle, stateVars
  <2>2. SeqBound'
    BY <1>1, <1>2, <2>1, Numbers DEF CInv, SeqBound, stateVars, connVars
  <2>3. CandleTypeOK'
    BY <1>1, <1>2, <2>1 DEF CInv, CandleTypeOK, stateVars, connVars, registryVars
  <2>4. LinkView' BY <1>2 DEF CInv, LinkView, registryVars
  <2> QED BY <2>1, <2>2, <2>3, <2>4, QuietShared DEF CInv
<1>4. CASE refs[k] # 0
  <2>1. /\ seq' = seq + 1 /\ last' = [last EXCEPT ![k] = seq + 1]
        /\ refs' = refs
    BY <1>2, <1>4 DEF PushCandle
  <2>2. seq + 1 \in Bars /\ seq + 1 # 0 /\ seq + 1 + Len(wire') <= quotes
    BY <1>1, Numbers DEF CInv, SeqBound, Bars, CandleTypeOK
  <2>3. \A j \in Keys : last'[j] = IF j = k THEN seq + 1 ELSE last[j]
    BY <1>1, <2>1 DEF CInv, CandleTypeOK
  <2>4. /\ \A j \in Keys : last[j] # seq + 1
        /\ \A c \in Conns : lastSeq[c] # seq + 1 /\ sending[c][2] # seq + 1
    BY Numbers DEF CInv, SeqBound
  <2>5. CandleTypeOK'
    <3>1. last' \in [Keys -> Bars] BY <2>1, <2>2 DEF CInv, CandleTypeOK
    <3> QED BY <1>1, <1>2, <2>1, <2>2, <3>1
            DEF CInv, CandleTypeOK, connVars, registryVars
  <2>6. RefsMatch'
    <3>1. \A j \in Keys : Watchers(j)' = Watchers(j)
      BY <1>2 DEF Watchers, connVars
    <3> QED BY <2>1, <3>1 DEF CInv, RefsMatch
  <2>7. NoLeakedBar'
    <3>1. refs[k] > 0
      <4>1. refs[k] \in Nat
        BY <1>1, ConnsAssumption, FS_CardinalityType DEF CInv, CandleTypeOK
      <4> QED BY <1>4, <4>1
    <3> QED BY <2>1, <2>3, <3>1 DEF CInv, NoLeakedBar
  <2>8. LinkView' BY <1>2 DEF CInv, LinkView, registryVars
  <2>9. SeqBound'
    BY <1>2, <2>1, <2>2, <2>3, Numbers DEF CInv, SeqBound, connVars
  <2>10. SeqIdentifies'
    BY <1>2, <2>3, <2>4 DEF CInv, SeqIdentifies, connVars
  <2>11. LastDistinct' BY <2>3, <2>4 DEF CInv, LastDistinct
  <2>12. NoSkippedBar'
    <3> SUFFICES ASSUME NEW c \in Conns, current[c] # NoKey,
                        last'[current[c]] # 0, lastSeq[c] = last'[current[c]]
                 PROVE  shown[c] = last'[current[c]]
      BY <1>2 DEF NoSkippedBar, connVars
    <3>1. current[c] \in Keys BY DEF CInv, CandleTypeOK
    <3>2. last'[current[c]] = last[current[c]] BY <2>3, <2>4, <3>1
    <3> QED BY <3>2 DEF CInv, NoSkippedBar
  <2> QED BY <2>5, <2>6, <2>7, <2>8, <2>9, <2>10, <2>11, <2>12 DEF CInv
<1> QED BY <1>3, <1>4

\* The steps of the registry and the exchange that no connection can see.
LEMMA RegistryStep ==
  ASSUME CInv,
         \/ Connect \/ Die \/ Reconcile \/ Teardown \/ Lose
         \/ \E k \in ValidKeys : Quote(k)
  PROVE  CInv'
<1>1. UNCHANGED <<stateVars, connVars>>
  BY DEF Connect, Die, Reconcile, StartReconcile, SendUnsubscribe, SendSubscribe,
         Teardown, Lose, Quote
<1>2. /\ link' \in {"down", "up", "lost", "dead"}
      /\ subscribed' \subseteq ValidKeys
      /\ todo' \in [unsubscribe : SUBSET ValidKeys, subscribe : SUBSET ValidKeys]
      /\ upstream' \subseteq ValidKeys
      /\ wire' \in Seq(ValidKeys) /\ quotes' \in Bars
      /\ LinkView'
      /\ seq + Len(wire') <= quotes'
  <2> USE DEF CInv, CandleTypeOK, LinkView, SeqBound
  <2>1. CASE Connect \/ Die
    BY <2>1 DEF Connect, Die, exchangeVars
  <2>2. CASE StartReconcile
    BY <2>2 DEF StartReconcile, Desired, exchangeVars
  <2>3. ASSUME NEW k \in ValidKeys, SendUnsubscribe(k) \/ SendSubscribe(k)
        PROVE  <1>2!:
    BY <2>3 DEF SendUnsubscribe, SendSubscribe, Heard
  <2>4. CASE Teardown
    BY <2>4 DEF Teardown, NothingToDo, exchangeVars
  <2>5. CASE Lose
    BY <2>5, Numbers, EmptySeq DEF Lose
  <2>6. ASSUME NEW k \in ValidKeys, Quote(k)
        PROVE  <1>2!:
    BY <2>6, Numbers, AppendProperties DEF Quote, registryVars, Bars
  <2> QED BY <2>1, <2>2, <2>3, <2>4, <2>5, <2>6 DEF Reconcile
<1>3. CandleTypeOK' BY <1>1, <1>2 DEF CInv, CandleTypeOK, stateVars, connVars
<1>4. SeqBound' BY <1>1, <1>2 DEF CInv, SeqBound, stateVars, connVars
<1> QED BY <1>1, <1>2, <1>3, <1>4, QuietShared DEF CInv

\* Every step keeps it.
LEMMA StepCInv == CInv /\ [Next]_vars => CInv'
<1> SUFFICES ASSUME CInv, [Next]_vars PROVE CInv' OBVIOUS
<1>1. ASSUME NEW c \in Conns, Unwatch(c) \/ Close(c) PROVE CInv'
  BY <1>1, ClearStep DEF Unwatch, Close
<1>2. ASSUME NEW c \in Conns, NEW k \in Keys, Watch(c, k) PROVE CInv'
  BY <1>2, WatchStep
<1>3. ASSUME NEW c \in Conns, Poll(c) PROVE CInv'
  BY <1>3, PollStep
<1>4. ASSUME NEW c \in Conns, FinishSend(c) PROVE CInv'
  BY <1>4, FinishSendStep
<1>5. CASE Receive BY <1>5, ReceiveStep
<1>6. CASE \/ Connect \/ Die \/ Reconcile \/ Teardown \/ Lose
           \/ \E k \in ValidKeys : Quote(k)
  BY <1>6, RegistryStep
<1>7. CASE UNCHANGED vars
  <2>1. UNCHANGED <<stateVars, connVars>> BY <1>7 DEF vars
  <2>2. CandleTypeOK' /\ LinkView' /\ SeqBound'
    BY <1>7 DEF CInv, CandleTypeOK, LinkView, SeqBound, vars, stateVars, connVars,
                registryVars, exchangeVars
  <2> QED BY <2>1, <2>2, QuietShared DEF CInv
<1> QED BY <1>1, <1>2, <1>3, <1>4, <1>5, <1>6, <1>7 DEF Next

(***************************************************************************)
(* The theorems.                                                           *)
(***************************************************************************)

\* CInv holds in every reachable state of the feed.
THEOREM FeedInvariant == Spec => []CInv
BY InitCInv, StepCInv, PTL DEF Spec

\* The variables of the feed keep their types: no count exceeds the number of
\* connections and no sequence number the bars sent.
THEOREM FeedTypeCorrect == Spec => []CandleTypeOK
<1>1. CInv => CandleTypeOK BY DEF CInv
<1> QED BY <1>1, FeedInvariant, PTL

\* acquire and release balance: each count is the number of connections that
\* watch the key, for any number of connections that switch, leave or time out.
THEOREM CountsAreWatchers == Spec => []RefsMatch
<1>1. CInv => RefsMatch BY DEF CInv
<1> QED BY <1>1, FeedInvariant, PTL

\* push_candle and release together leave no bar behind.
THEOREM NothingLeaks == Spec => []NoLeakedBar
<1>1. CInv => NoLeakedBar BY DEF CInv
<1> QED BY <1>1, FeedInvariant, PTL

\* The registry's set is the exchange's as long as the connection is there.
THEOREM RegistryAgrees == Spec => []RegistryKnowsUpstream
<1>1. CInv => RegistryKnowsUpstream BY DEF CInv, LinkView, RegistryKnowsUpstream
<1> QED BY <1>1, FeedInvariant, PTL

\* What a send loop takes for sent has been sent, frames of an abandoned key
\* included.
THEOREM NothingSkipped == Spec => []NoSkippedBar
<1>1. CInv => NoSkippedBar BY DEF CInv
<1> QED BY <1>1, FeedInvariant, PTL
=============================================================================
