------------------------------ MODULE Detectors ------------------------------
(***************************************************************************)
(* One tick of a detection engine, from the buffers its handlers fill to   *)
(* the list of alerts it returns.  An engine marks the cooldown of a key   *)
(* when it decides on an alert; the alert itself leaves with the list, at  *)
(* the end of the tick, unless an await in between raises.  A key is a     *)
(* coin, an address and coin, or a TWAP order.                             *)
(*                                                                         *)
(* Engines share no state: detector is the one that is followed.  Whether  *)
(* values breach a threshold is left open; what is modelled is which       *)
(* entries of a buffer are compared.  An entry is its age in ticks, a tick *)
(* is shorter than a unit of time.  A buffer is appended to in the order   *)
(* of arrival, which differs from the order of the timestamps by up to     *)
(* Disorder (the exchange repeats recent trades after a reconnect).        *)
(***************************************************************************)
EXTENDS Naturals, Sequences, FiniteSets, FiniteSetsExt, Functions

CONSTANTS
    Key,
    KeysOf,            \* for each engine to follow, the keys that occur
    ChangeWindows,     \* oi_change_windows_ms, pre_move_windows_ms: a sequence
    PreMoveLookback,   \* pre_move_lookback_ms
    BufferSize,        \* oi_history_maxlen, pre_move_*_maxlen
    Disorder,
    DetectorCooldown,
    MinSamples         \* funding_min_samples

ASSUME DetectorAssumption ==
    /\ DOMAIN KeysOf \subseteq {"oi", "liquidation", "pre_move", "funding", "tracker"}
    /\ \A d \in DOMAIN KeysOf : KeysOf[d] \subseteq Key
    /\ ChangeWindows \in Seq(Nat)
    /\ {PreMoveLookback, Disorder} \subseteq Nat
    /\ {BufferSize, DetectorCooldown, MinSamples} \subseteq Nat \ {0}

VARIABLES
    detector,
    samples,     \* _oi_history, _prices, or the hourly rates: ages in order of arrival
    deals,       \* _trades of PreMoveEngine
    lastAlert,   \* age of _last_alert_ms, at most DetectorCooldown
    scan,        \* the running tick: [at, left, key, window, found]
    sent,        \* history: keys whose newest marked alert was returned
    lost         \* history: ... was dropped by an exception

buffers == <<samples, deals>>
detectorVars == <<detector, buffers, lastAlert, scan, sent, lost>>

NoScan == [at |-> "idle", left |-> {}, key |-> "none", window |-> 0, found |-> {}]

DetectorInit ==
    /\ detector \in DOMAIN KeysOf
    /\ samples = [k \in Key |-> <<>>] /\ deals = [k \in Key |-> <<>>]
    /\ lastAlert = [k \in Key |-> DetectorCooldown]
    /\ scan = NoScan
    /\ sent = {} /\ lost = {}

-----------------------------------------------------------------------------
(* Nothing looks at an entry that is older than this. *)
OldestAge == Max(Range(ChangeWindows)) + 1

(* deque(maxlen): the entry that came first leaves. *)
Push(buffer, age) ==
    LET longer == Append(buffer, age)
    IN  IF Len(longer) > BufferSize THEN Tail(longer) ELSE longer

(* Funding rates are sampled once an interval, which is one unit here. *)
OnAssetUpdate(k, age) ==
    /\ detector \in {"oi", "pre_move", "funding"}
    /\ detector = "funding" => \A i \in DOMAIN samples[k] : samples[k][i] > age
    /\ samples' = [samples EXCEPT ![k] = Push(@, age)]
    /\ UNCHANGED <<detector, deals, lastAlert, scan, sent, lost>>

OnTradeDeal(k, age) ==
    /\ detector = "pre_move"
    /\ deals' = [deals EXCEPT ![k] = Push(@, age)]
    /\ UNCHANGED <<detector, samples, lastAlert, scan, sent, lost>>

\* Mutant of BisectLeft: the upper half drops the probe that qualified.
BisectLeftShort(buffer, cutoff) ==
    LET f[r \in (0..Len(buffer)) \X (0..Len(buffer))] ==
            LET lo == r[1]  hi == r[2]  mid == (lo + hi) \div 2
            IN  IF lo >= hi THEN lo
                ELSE IF buffer[mid + 1] > cutoff THEN f[<<mid + 1, hi>>]
                ELSE f[<<lo, IF mid = 0 THEN 0 ELSE mid - 1>>]
    IN  f[<<0, Len(buffer)>>] + 1

(* bisect_left: the search for the first entry that is not older than the
   cutoff, on a buffer that need not be sorted.                            *)
BisectLeft(buffer, cutoff) ==
    LET f[r \in (0..Len(buffer)) \X (0..Len(buffer))] ==
            LET lo == r[1]  hi == r[2]  mid == (lo + hi) \div 2
            IN  IF lo >= hi THEN lo
                ELSE IF buffer[mid + 1] > cutoff THEN f[<<mid + 1, hi>>] ELSE f[<<lo, mid>>]
    IN  f[<<0, Len(buffer)>>] + 1

Found(buffer, cutoff) == BisectLeft(buffer, cutoff) <= Len(buffer)

(* The trades before a move: from the lookback to the start of its window. *)
DealsBefore(k, w) ==
    BisectLeft(deals[k], w + PreMoveLookback)..(BisectLeft(deals[k], w) - 1)

-----------------------------------------------------------------------------
Cooling(k) == lastAlert[k] < DetectorCooldown

(* record_alert_timestamp, with the time of the tick. *)
Marks(keys) ==
    /\ lastAlert' = [k \in Key |-> IF k \in keys THEN 0 ELSE lastAlert[k]]
    /\ sent' = sent \ keys
    /\ lost' = lost \ keys

NoMarks == UNCHANGED <<lastAlert, sent, lost>>

(* The keys a tick looks at: those it has a buffer for; the tracker's are the
   orders and positions its answers named.                                 *)
DetectorTick ==
    /\ scan.at = "idle"
    /\ LET seen == {k \in Key : samples[k] # <<>>}
       IN  \E keys \in (IF detector \in {"oi", "pre_move", "funding"} THEN {seen}
                        ELSE SUBSET KeysOf[detector]) :
             scan' = [NoScan EXCEPT !.at = IF detector = "liquidation" THEN "rows" ELSE "keys",
                                    !.left = keys]
    /\ NoMarks /\ UNCHANGED <<detector, buffers>>

Skips(k) == scan' = [scan EXCEPT !.at = "keys", !.left = @ \ {k}]
Finds(keys) == scan' = [scan EXCEPT !.at = "keys", !.left = @ \ keys, !.found = @ \union keys]

\* Mutant of BeginsQuery: the cooldown starts with the query.
BeginsQueryMarks(k) ==
    /\ scan' = [scan EXCEPT !.at = "query", !.key = k, !.window = 1]
    /\ Marks({k})

BeginsQuery(k) ==
    /\ scan' = [scan EXCEPT !.at = "query", !.key = k, !.window = 1]
    /\ NoMarks

(* OI: a coin is judged window by window, with a query for each window whose
   change is large enough.  Tracker: an address is judged after the await of
   its insert, or at once when its list of positions is empty.             *)
Examines(k) ==
    /\ scan.at = "keys" /\ k \in scan.left /\ detector \in {"oi", "tracker"}
    /\ IF detector = "oi" /\ (Cooling(k) \/ Len(samples[k]) < 2)
       THEN Skips(k) /\ NoMarks
       ELSE BeginsQuery(k)
    /\ UNCHANGED <<detector, buffers>>

NextWindow ==
    IF detector = "oi" /\ scan.window < Len(ChangeWindows)
    THEN scan' = [scan EXCEPT !.window = @ + 1] ELSE Skips(scan.key)

(* The window has no start, no large enough change, or no concentration. *)
NoAlert ==
    /\ scan.at = "query"
    /\ NextWindow
    /\ NoMarks /\ UNCHANGED <<detector, buffers>>

(* One alert per coin per tick. *)
Alerts ==
    /\ scan.at = "query" /\ ~Cooling(scan.key)
    /\ detector = "oi" => Found(samples[scan.key], ChangeWindows[scan.window])
    /\ Finds({scan.key}) /\ Marks({scan.key})
    /\ UNCHANGED <<detector, buffers>>

(* The query or the insert raises: the tick ends, the list is gone. *)
QueryFails ==
    /\ scan.at = "query"
    /\ detector = "oi" => Found(samples[scan.key], ChangeWindows[scan.window])
    /\ lost' = lost \union scan.found
    /\ scan' = NoScan
    /\ UNCHANGED <<detector, buffers, lastAlert, sent>>

(* Price moves and funding rates are judged without an await. *)
JudgesAtOnce ==
    /\ scan.at = "keys" /\ scan.left # {} /\ detector \in {"pre_move", "funding"}
    /\ LET may(k) == /\ ~Cooling(k)
                     /\ IF detector = "funding" THEN Len(samples[k]) >= MinSamples
                        ELSE /\ Len(samples[k]) >= 2
                             /\ \E i \in DOMAIN ChangeWindows :
                                  /\ Found(samples[k], ChangeWindows[i])
                                  /\ DealsBefore(k, ChangeWindows[i]) # {}
       IN  \E keys \in SUBSET {k \in scan.left : may(k)} :
             /\ scan' = [scan EXCEPT !.left = {}, !.found = keys]
             /\ Marks(keys)
    /\ UNCHANGED <<detector, buffers>>

(* Liquidation: the whales and their latest rows are read; either read may
   fail, which ends the tick without an alert.                             *)
ReadsRows ==
    /\ scan.at = "rows"
    /\ \/ \E near \in SUBSET {k \in scan.left : ~Cooling(k)} :
            scan' = [scan EXCEPT !.at = "books", !.left = near]
       \/ scan' = NoScan
    /\ NoMarks /\ UNCHANGED <<detector, buffers>>

(* The books are awaited together; one that failed counts as no impact. *)
BooksArrive ==
    /\ scan.at = "books"
    /\ Finds(scan.left) /\ Marks(scan.left)
    /\ UNCHANGED <<detector, buffers>>

TickReturns ==
    /\ scan.at = "keys" /\ scan.left = {}
    /\ sent' = sent \union scan.found
    /\ scan' = NoScan
    /\ UNCHANGED <<detector, buffers, lastAlert, lost>>

DetectorAges ==
    LET older(b, last) == [i \in DOMAIN b |-> Min({last, b[i] + 1})]
    IN  /\ scan.at = "idle"
        /\ samples' = [k \in Key |-> older(samples[k], OldestAge)]
        /\ deals' = [k \in Key |-> older(deals[k], OldestAge + PreMoveLookback + Disorder)]
        /\ lastAlert' = [k \in Key |-> IF Cooling(k) THEN lastAlert[k] + 1 ELSE lastAlert[k]]
        /\ UNCHANGED <<detector, scan, sent, lost>>

DetectorNext ==
    \/ \E k \in KeysOf[detector] : \E age \in 0..Disorder : OnAssetUpdate(k, age) \/ OnTradeDeal(k, age)
    \/ DetectorTick \/ \E k \in Key : Examines(k)
    \/ NoAlert \/ Alerts \/ QueryFails \/ JudgesAtOnce
    \/ ReadsRows \/ BooksArrive \/ TickReturns \/ DetectorAges

DetectorSpec == DetectorInit /\ [][DetectorNext]_detectorVars

-----------------------------------------------------------------------------
(* A key is silenced by its cooldown only when its alert was returned to the
   orchestrator, is about to be, or was lost with a tick that raised
   (oi_concentration.py:104-126, liquidation_risk.py:113-183,
   position_tracker.py:96-139).                                            *)
SuppressedMeansSent ==
    \A k \in Key : Cooling(k) => k \in sent \union lost \union scan.found

(* The binary searches are right on buffers that are almost sorted: what a
   window is measured from, and every trade counted as before a move, is an
   entry of that interval; and an entry is passed over only if it is within
   Disorder of the boundary (oi_concentration.py:148, pre_move.py:153-155,
   212-219).                                                               *)
WindowsSurviveDisorder ==
    \A k \in Key, i \in DOMAIN ChangeWindows : LET w == ChangeWindows[i] IN
        /\ LET first == BisectLeft(samples[k], w)
           IN  /\ first <= Len(samples[k]) => samples[k][first] <= w
               /\ \A j \in 1..(first - 1) : samples[k][j] + Disorder > w
        /\ \A j \in DOMAIN deals[k] : LET a == deals[k][j] IN
               /\ j \in DealsBefore(k, w) => a + Disorder > w /\ a <= w + PreMoveLookback + Disorder
               /\ a > w + Disorder /\ a + Disorder <= w + PreMoveLookback => j \in DealsBefore(k, w)
=============================================================================
