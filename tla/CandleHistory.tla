---------------------------- MODULE CandleHistory ----------------------------
(***************************************************************************)
(* CandleService for one coin and interval: pages of bars before a cursor, *)
(* served from a table that is topped up at its newest end and backfilled  *)
(* at its oldest, one request at a time behind the fetch lock.  The page   *)
(* itself is read after the lock is released.                              *)
(*                                                                         *)
(* A bar is its position on the time axis; the bar of the current time is  *)
(* still open and its values change until it closes.  Some bars never      *)
(* existed (no trades).  A request may name any cursor and any page size.  *)
(* External: what candleSnapshot answers; of more bars than its cap it     *)
(* gives either end.  MaxTime bounds the clock, HistoryFaults the failed   *)
(* fetches, Cursors and PageSizes what is asked for.                       *)
(***************************************************************************)
EXTENDS Integers, FiniteSets, FiniteSetsExt

CONSTANTS
    PageRequest, NoBar,
    NeverTraded,       \* bars the exchange does not have
    Cursors,           \* the places before_ms may name
    PageSizes,         \* bars per page: limit, or the setting candles_page_size
    ChunkBars,         \* _HL_CANDLE_CAP
    MaxChunks,         \* candles_max_backfill_chunks
    FirstTime, MaxTime,
    HistoryFaults

ASSUME HistoryAssumption ==
    /\ {ChunkBars, MaxChunks} \union PageSizes \subseteq Nat \ {0}
    /\ {FirstTime, MaxTime, HistoryFaults} \union NeverTraded \union Cursors \subseteq Nat
    /\ NoBar \notin Nat

VARIABLES
    clock,     \* the open bar
    closed,    \* cached bars whose stored values are final
    open,      \* cached bars stored while they were open
    page,      \* per request: [at, asked, limit, now, end, anchor, chunks, bars, linked]
    fetchLock, \* the requests that hold the lock
    historyFaults,
    skipped    \* history: bars that a cut answer or a walk below the cache left out

historyVars == <<clock, closed, open, page, fetchLock, historyFaults, skipped>>
cache == <<closed, open>>

NoPage == [at |-> "idle", asked |-> NoBar, limit |-> 0, now |-> 0, end |-> 0, anchor |-> NoBar,
           chunks |-> 0, bars |-> {}, linked |-> FALSE]
Cached == closed \union open
Before(end) == {b \in Cached : b < end}
NewestBars(n, bars) == {b \in bars : Cardinality({c \in bars : c > b}) < n}
OldestBars(n, bars) == {b \in bars : Cardinality({c \in bars : c < b}) < n}

HistoryInit ==
    /\ clock = FirstTime
    /\ closed = {} /\ open = {}
    /\ page = [r \in PageRequest |-> NoPage]
    /\ fetchLock = {}
    /\ historyFaults = 0 /\ skipped = {}

-----------------------------------------------------------------------------
(* A page without a cursor ends at the present as it is now, before the lock.
   linked: the cursor is a bar that a page has shown.                       *)
GetPage(r, cursor, limit) ==
    /\ page[r].at = "idle"
    /\ page' = [page EXCEPT ![r] =
         [NoPage EXCEPT !.at = "lock", !.asked = cursor, !.limit = limit, !.now = clock,
                        !.end = IF cursor = NoBar THEN clock + 1 ELSE cursor,
                        !.linked = cursor \in Cached]]
    /\ UNCHANGED <<clock, cache, fetchLock, historyFaults, skipped>>

Locked(r) ==
    /\ page[r].at = "lock" /\ fetchLock = {}
    /\ fetchLock' = {r}
    /\ page' = [page EXCEPT ![r].at = IF page[r].asked = NoBar THEN "topup" ELSE "count"]
    /\ UNCHANGED <<clock, cache, historyFaults, skipped>>

(* The bars of a range that the exchange has by now, and what it may answer. *)
TradedBars(first, last) == {b \in first..last : b >= 0 /\ b <= clock /\ b \notin NeverTraded}

Snapshots(first, last) ==
    LET has == TradedBars(first, last)
    IN  IF Cardinality(has) <= ChunkBars THEN {has}
        ELSE {NewestBars(ChunkBars, has), OldestBars(ChunkBars, has)}

(* INSERT OR REPLACE of an answer that was taken now. *)
Upsert(bars) ==
    /\ closed' = closed \union (bars \ {clock})
    /\ open' = (open \ bars) \union (bars \intersect {clock})

HistoryFault == historyFaults < HistoryFaults /\ historyFaults' = historyFaults + 1

PageGoes(r, at) == page' = [page EXCEPT ![r].at = at]

\* Mutant of TopUpFrom: always the last page, wherever the cache ends.
TopUpFromPage(r) == Max({0, page[r].now - page[r].limit})

(* From the bar after the newest cached one, which is not fetched again. *)
TopUpFrom(r) ==
    IF Cached = {} THEN Max({0, page[r].now - page[r].limit}) ELSE Max(Cached) + 1

(* A cache whose newest bar is two places back may be within two intervals
   of the present or past them.                                            *)
TopUp(r) ==
    LET now == page[r].now
    IN  /\ page[r].at = "topup"
        /\ \/ /\ Cached # {} /\ now - Max(Cached) <= 2
              /\ UNCHANGED <<cache, historyFaults, skipped>>
           \/ /\ Cached # {} => now - Max(Cached) >= 2
              /\ \E bars \in Snapshots(TopUpFrom(r), now) :
                   /\ Upsert(bars)
                   /\ skipped' = skipped \union (TradedBars(TopUpFrom(r), now) \ bars)
              /\ UNCHANGED historyFaults
           \/ /\ Cached # {} => now - Max(Cached) >= 2
              /\ HistoryFault /\ UNCHANGED <<cache, skipped>>
        /\ PageGoes(r, "count")
        /\ UNCHANGED <<clock, fetchLock>>

(* The backfill starts at the oldest cached bar before the end of the page. *)
Count(r) ==
    LET have == Before(page[r].end)
    IN  /\ page[r].at = "count"
        /\ page' = [page EXCEPT
              ![r].at = IF Cardinality(have) < page[r].limit THEN "fill" ELSE "release",
              ![r].anchor = IF have = {} THEN page[r].end ELSE Min(have)]
        /\ UNCHANGED <<clock, cache, fetchLock, historyFaults, skipped>>

\* Mutant of FillTo: the chunk ends one bar short of the anchor.
FillToShort(r) == page[r].anchor - 2

FillTo(r) == page[r].anchor - 1

\* Mutant of WalkGoesOn: an answer of less than a chunk is taken for the last one.
WalkGoesOnWhileFull(r, bars) ==
    /\ Cardinality({b \in Cached \union bars : b < page[r].end}) < page[r].limit
    /\ Cardinality(bars) = ChunkBars
    /\ page[r].chunks + 1 < MaxChunks

(* The target count is not reached, there was progress, and chunks are left. *)
WalkGoesOn(r, bars) ==
    /\ Cardinality({b \in Cached \union bars : b < page[r].end}) < page[r].limit
    /\ Min(bars) < page[r].anchor
    /\ page[r].chunks + 1 < MaxChunks

(* A walk with nothing cached before its end leaves the bars from its end to
   the cache as they are.                                                  *)
PassedOver(end) ==
    IF Cached # {} /\ Before(end) = {} THEN end..(Min(Cached) - 1) ELSE {}

(* One chunk of the walk backward, and whether there is another one. *)
Fill(r) ==
    LET first == Max({0, page[r].anchor - ChunkBars})
    IN  /\ page[r].at = "fill"
        /\ \/ /\ \E bars \in Snapshots(first, FillTo(r)) :
                   IF bars = {} THEN PageGoes(r, "release") /\ UNCHANGED <<cache, skipped>>
                   ELSE /\ Upsert(bars)
                        /\ skipped' = skipped \union PassedOver(page[r].end)
                        /\ page' = [page EXCEPT
                             ![r].at = IF WalkGoesOn(r, bars) THEN "fill" ELSE "release",
                             ![r].anchor = Min(bars), ![r].chunks = @ + 1]
              /\ UNCHANGED historyFaults
           \/ HistoryFault /\ PageGoes(r, "release") /\ UNCHANGED <<cache, skipped>>
        /\ UNCHANGED <<clock, fetchLock>>

Release(r) ==
    /\ page[r].at = "release"
    /\ fetchLock' = {}
    /\ page' = [page EXCEPT ![r].at = "read", ![r].anchor = NoBar]
    /\ UNCHANGED <<clock, cache, historyFaults, skipped>>

ReadPage(r) ==
    /\ page[r].at = "read"
    /\ page' = [page EXCEPT ![r].at = "served",
                            ![r].bars = NewestBars(page[r].limit, Before(page[r].end))]
    /\ UNCHANGED <<clock, cache, fetchLock, historyFaults, skipped>>

(* The chart has the page; the next one may be asked for. *)
Forget(r) ==
    /\ page[r].at = "served"
    /\ page' = [page EXCEPT ![r] = NoPage]
    /\ UNCHANGED <<clock, cache, fetchLock, historyFaults, skipped>>

TimePasses ==
    /\ clock < MaxTime /\ clock' = clock + 1
    /\ UNCHANGED <<cache, page, fetchLock, historyFaults, skipped>>

HistoryNext ==
    \/ \E r \in PageRequest :
         \/ \E cursor \in Cursors \union {NoBar}, limit \in PageSizes : GetPage(r, cursor, limit)
         \/ Locked(r) \/ TopUp(r) \/ Count(r) \/ Fill(r)
         \/ Release(r) \/ ReadPage(r) \/ Forget(r)
    \/ TimePasses

HistorySpec == HistoryInit /\ [][HistoryNext]_historyVars

-----------------------------------------------------------------------------
(* The count of bars before a cursor says nothing of holes, so the walks and
   the top-ups must not make any (candle_service.py:241-354).  Whatever cursors
   and page sizes were asked for, failed fetches and pauses in use included, a
   page has every bar from its oldest one up to its newest, and up to its cursor
   when that was a bar of the cache.  Two causes leave out bars for good, and
   only those bars are excused: the middle of a top-up that the exchange cut at
   its cap, and what lies between the cache and a walk that began below all of
   it (a cursor that no page has shown, or a present that waited for the lock). *)
PagesHaveNoHoles ==
    \A r \in PageRequest : page[r].at = "served" /\ page[r].bars # {} =>
        LET last == IF page[r].linked THEN page[r].asked - 1 ELSE Max(page[r].bars)
        IN  \A b \in Min(page[r].bars)..last :
                b \in page[r].bars \union NeverTraded \union skipped

(* A page is short only because the exchange answered nothing for a whole chunk
   of bars (candle_service.py:283-354): unless a fetch failed or the chunk limit
   was met, some chunk right before the page's end or one of its bars has no bar
   that was ever traded.  Behind such a pause there may be older bars.     *)
ShortPagesMeetAPause ==
    \A r \in PageRequest :
        /\ page[r].at = "served" /\ Cardinality(page[r].bars) < page[r].limit
        /\ historyFaults = 0 /\ page[r].chunks < MaxChunks
        => \E a \in page[r].bars \union {page[r].end} :
             \A b \in Max({0, a - ChunkBars})..(a - 1) : b <= page[r].now => b \in NeverTraded

(* What _maybe_top_up says of an initial load, that its window "extends back to
   the cache's newest bar" (candle_service.py:246-248), taken at its word: a
   bar that closed more than the two tolerated intervals ago is served as it
   closed.                                                                 *)
ClosedBarsAreFinal ==
    \A r \in PageRequest : page[r].at = "served" /\ page[r].asked = NoBar =>
        \A b \in page[r].bars : page[r].now - b > 3 => b \in closed
=============================================================================
