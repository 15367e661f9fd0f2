----------------------------- MODULE FillHistory -----------------------------
(***************************************************************************)
(* PnlService: the walk over all fills of an address that sums closedPnl,  *)
(* and a client that follows the cursors of get_fills to the end.  A fill  *)
(* is a time; several fills may share one.  External: the exchange answers *)
(* a window with at most FillCap fills, the end of the window excluded, as *)
(* _fetch_raw_fills says (pnl_service.py:227-236), and of more fills with  *)
(* the newest ones, which is what _fetch_pnl takes a capped answer for: it *)
(* goes on below its oldest fill (pnl_service.py:123-150).                 *)
(***************************************************************************)
EXTENDS Naturals, Functions, FiniteSetsExt

CONSTANTS
    LastTime,       \* fills have times 1..LastTime
    MaxPerTime,     \* fills that share a time
    FillCap,        \* _HL_FILL_CAP
    MaxPages,       \* _MAX_PNL_PAGES
    NarrowWindow,   \* _INITIAL_WINDOW_DAYS
    FillLimits      \* page sizes a client may ask for

ASSUME FillAssumption ==
    /\ {LastTime, MaxPerTime, FillCap, MaxPages, NarrowWindow} \subseteq Nat \ {0}
    /\ FillLimits \subseteq 1..FillCap

Time == 1..LastTime

VARIABLES
    history,   \* fills per time
    walk,      \* _fetch_pnl: [at, start, end, counted, pages, complete, split]
    client     \* follower of get_fills: [at, limit, end, seen, split]

fillVars == <<history, walk, client>>

Size(fills) == MapThenSumSet(LAMBDA t : fills[t], Time)
None == [t \in Time |-> 0]
Plus(f, g) == [t \in Time |-> f[t] + g[t]]

(* The newest n of some fills. *)
NewestFills(fills, n) ==
    LET newer(t) == MapThenSumSet(LAMBDA u : fills[u], (t + 1)..LastTime)
        room(t) == IF newer(t) < n THEN n - newer(t) ELSE 0
    IN  [t \in Time |-> IF fills[t] < room(t) THEN fills[t] ELSE room(t)]

RawFills(start, end) ==
    NewestFills([t \in Time |-> IF start <= t /\ t < end THEN history[t] ELSE 0], FillCap)

Oldest(fills) == Min({t \in Time : fills[t] > 0})

FillInit ==
    /\ history \in [Time -> 0..MaxPerTime]
    /\ \E start \in {0, LastTime - 1} :
         walk = [at |-> "walking", start |-> start, end |-> LastTime + 1,
                 counted |-> None, pages |-> 0, complete |-> TRUE, split |-> FALSE]
    /\ \E limit \in FillLimits :
         client = [at |-> "asking", limit |-> limit, end |-> LastTime + 1, seen |-> None,
                   split |-> FALSE]

(* History: a page leaves out fills that share the time of its oldest one. *)
Splits(page) == history[Oldest(page)] > page[Oldest(page)]

-----------------------------------------------------------------------------
\* Mutant of NextEnd: the window keeps the oldest fill.
NextEndKeepsOldest(raw) == Oldest(raw) + 1

(* The next window ends at the oldest fill. *)
NextEnd(raw) == Oldest(raw)

\* Mutant of WalkComplete: the page limit is not told.
WalkCompleteWithoutLimit(stuck, full, last) == ~stuck

(* No page without progress, and no full page as the last one that is allowed. *)
WalkComplete(stuck, full, last) == ~stuck /\ ~(full /\ last)

(* One page of _fetch_pnl. *)
WalkPage ==
    LET raw == RawFills(walk.start, walk.end)
        full == Size(raw) >= FillCap
        stuck == full /\ walk.pages > 0 /\ Oldest(raw) >= walk.end
        last == walk.pages + 1 = MaxPages
    IN  /\ walk.at = "walking"
        /\ walk' = [walk EXCEPT
              !.counted = Plus(@, raw), !.pages = @ + 1,
              !.end = IF full THEN NextEnd(raw) ELSE @,
              !.at = IF full /\ ~stuck /\ ~last THEN "walking" ELSE "done",
              !.complete = WalkComplete(stuck, full, last),
              !.split = @ \/ (full /\ Splits(raw))]
        /\ UNCHANGED <<history, client>>

-----------------------------------------------------------------------------
\* Mutant of MayHideOlder: a full narrow window is taken for the whole history.
MayHideOlderNever(raw, scanned, limit) == FALSE

(* A narrow window filled up to the limit may hide older fills. *)
MayHideOlder(raw, scanned, limit) == ~scanned /\ Size(raw) >= limit

(* get_fills: a narrow window first, all of the history when that is under-full. *)
FillsPage ==
    LET start == IF client.end > NarrowWindow THEN client.end - NarrowWindow ELSE 0
        narrow == RawFills(start, client.end)
        widen == Size(narrow) < client.limit /\ Size(narrow) < FillCap /\ start > 0
        raw == IF widen THEN RawFills(0, client.end) ELSE narrow
        page == NewestFills(raw, client.limit)
        more == /\ page # None
                /\ \/ Size(raw) > Size(page) \/ Size(raw) >= FillCap
                   \/ MayHideOlder(raw, widen \/ start = 0, client.limit)
    IN  /\ client.at = "asking"
        /\ client' = [client EXCEPT !.seen = Plus(@, page),
                                    !.end = IF more THEN Oldest(page) ELSE @,
                                    !.at = IF more THEN "asking" ELSE "done",
                                    !.split = @ \/ (more /\ Splits(page))]
        /\ UNCHANGED <<history, walk>>

FillNext == WalkPage \/ FillsPage

FillSpec == FillInit /\ [][FillNext]_fillVars

-----------------------------------------------------------------------------
(* A sum that is called complete counts every fill of its range exactly once,
   over every page boundary and the page limit.  Excused is only a walk one of
   whose page boundaries fell between fills of the same millisecond: the next
   window ends before them, and the older ones are dropped without a word
   (pnl_service.py:121-157).                                               *)
CompleteIsExact ==
    walk.at = "done" /\ walk.complete /\ ~walk.split =>
        \A t \in Time : walk.counted[t] = IF t >= walk.start THEN history[t] ELSE 0

(* A client that follows next_cursor until there is none has seen every fill
   once, whatever windows and page sizes it went through, unless one of its own
   page boundaries fell between fills of the same millisecond
   (pnl_service.py:189-226).                                               *)
CursorsReachAll ==
    client.at = "done" /\ ~client.split => client.seen = history
=============================================================================
