---------------------------- MODULE WhalePositions ----------------------------
(***************************************************************************)
(* What is known about the positions of tracked whales and busy traders:   *)
(* PositionTracker polls whales over REST and takes WebSocket pushes,      *)
(* PositionCensus polls the other traders after it in the same tick.  A    *)
(* REST answer is taken from the exchange, waits until the whole batch has *)
(* answered, and is applied one address at a time with an await before     *)
(* each; a push is taken and applied in between, and the positions change  *)
(* at the exchange whenever they like.                                     *)
(*                                                                         *)
(* Time is counted in tick intervals.  A dex stands for the positions an   *)
(* address holds there; being in a list means open and of notable size.    *)
(* MaxFaults bounds the failed fetches and inserts.                        *)
(***************************************************************************)
EXTENDS Naturals, Sequences, FiniteSets, FiniteSetsExt, Functions, Filters

CONSTANTS
    Dex, Native,  \* the known dexes; all but Native are HIP-3 dexes
    Whales,       \* the tracked whales in the order of the set's iteration
    Traders,      \* the other traders by descending volume
    Interval,     \* poll interval in ticks, per poller
    Batch,        \* batch size, per poller
    SlowestTick,  \* how many intervals may lie between two ticks
    MaxFaults

Poller == {"tracker", "census"}
Members == [p \in Poller |-> IF p = "tracker" THEN Whales ELSE Traders]
Whale == Range(Whales)
Address == Whale \union Range(Traders)

ASSUME PositionsAssumption ==
    /\ Native \in Dex
    /\ Interval \in [Poller -> Nat \ {0}] /\ Batch \in [Poller -> Nat \ {0}]
    /\ Whales \in Seq(Whale) /\ Traders \in Seq(Range(Traders))
    /\ Whale \intersect Range(Traders) = {}
    /\ MaxFaults \in Nat /\ SlowestTick \in Nat \ {0}

VARIABLES
    actual,    \* where the exchange has open positions of each whale
    active,    \* _whale_active_dexes: HIP-3 dexes a whale was seen trading on
    due,       \* ticks until the next poll, from _last_polled
    base,      \* _last_positions: where the last list had open positions
    poll,      \* the poll of the running tick: [by, at, left, answer]; asks of an
               \* answer are the requests under way
    push,      \* the position-stream task: [at, addr, seen]
    faults

positionsVars == <<actual, active, due, base, poll, push, faults>>
market == <<actual, active>>

Answer == [kind : {"none", "ok", "limited", "error"}, asks : SUBSET Dex,
           seen : SUBSET Dex]
NoPoll == [by |-> "none", at |-> "idle", left |-> <<>>, answer |-> <<>>]
NoPush == [at |-> "idle", addr |-> Whales[1], seen |-> {}]

PositionsInit ==
    /\ actual \in [Whale -> SUBSET Dex] /\ active = [a \in Whale |-> {}]
    /\ due = [a \in Address |-> 0]
    /\ base = [a \in Whale |-> {}]
    /\ poll = NoPoll /\ push = NoPush
    /\ faults = 0

-----------------------------------------------------------------------------
(* A whale opens or closes what it has on a dex. *)
Moves(a, d) ==
    /\ actual' = [actual EXCEPT ![a] = IF d \in @ THEN @ \ {d} ELSE @ \union {d}]
    /\ UNCHANGED <<active, due, base, poll, push, faults>>

(* on_trade: the whale took part in a trade on a HIP-3 dex. *)
SeenTrading(a, d) ==
    /\ d \notin active[a]
    /\ active' = [active EXCEPT ![a] = @ \union {d}]
    /\ UNCHANGED <<actual, due, base, poll, push, faults>>

(* The dexes a poll asks: all of them while no HIP-3 trade was seen, the
   native one and those it trades on afterwards.  The census asks the native
   one alone.                                                              *)
Asked(a) == IF active[a] = {} THEN Dex ELSE {Native} \union active[a]
Asks(p, a) == IF p = "tracker" THEN Asked(a) ELSE {Native}

\* Mutant of Apply: only a list with positions replaces the baseline.
ApplyNonEmpty(a, seen) == base' = IF seen = {} THEN base ELSE [base EXCEPT ![a] = seen]

(* The end of poll_positions and of on_position_update: the list becomes the
   baseline, whichever dexes it covers and whenever it was taken.          *)
Apply(a, seen) == base' = [base EXCEPT ![a] = seen]

(* What get_user_positions gives: the open positions, what some dexes left of
   them when others fail, or an exception when that is nothing.  What the
   exchange has of the census's traders is of no interest here.            *)
Answers(p, a, asks) ==
    LET holds == IF p = "tracker" THEN {actual[a]} ELSE SUBSET {Native}
        ok(s) == [kind |-> "ok", asks |-> {}, seen |-> s]
    IN  {ok(h \intersect asks) : h \in holds}
        \union {ok(s) : s \in UNION {(SUBSET (h \intersect asks)) \ {{}} : h \in holds}}
        \union {[kind |-> k, asks |-> {}, seen |-> {}] : k \in {"limited", "error"}}

Begin(p, now) ==
    LET ready == Filter(Members[p], {a \in Address : now[a] = 0})
        batch == SubSeq(ready, 1, Min({Batch[p], Len(ready)}))
    IN  [by |-> p, at |-> "gather", left |-> batch,
         answer |-> [a \in Range(batch) |->
                       [kind |-> "none", asks |-> Asks(p, a), seen |-> {}]]]

(* The tick loop wakes up n intervals after the last tick began. *)
TickBegins(n) ==
    /\ poll.at = "idle"
    /\ due' = [a \in Address |-> IF due[a] > n THEN due[a] - n ELSE 0]
    /\ poll' = Begin("tracker", due')
    /\ UNCHANGED <<market, base, push, faults>>

Answered(a, r) ==
    /\ poll.at = "gather" /\ a \in DOMAIN poll.answer
    /\ poll.answer[a].kind = "none"
    /\ r \in Answers(poll.by, a, poll.answer[a].asks)
    /\ LET whole == /\ r.kind = "ok"
                    /\ poll.by = "tracker" => r.seen = actual[a] \intersect poll.answer[a].asks
       IN  \/ whole /\ UNCHANGED faults
           \/ ~whole /\ faults < MaxFaults /\ faults' = faults + 1
    /\ poll' = [poll EXCEPT !.answer[a] = r]
    /\ UNCHANGED <<market, due, base, push>>

Gathered == poll.at = "gather" /\ \A a \in DOMAIN poll.answer : poll.answer[a].kind # "none"

ApplyAnswer(a, r) ==
    /\ IF poll.by = "tracker" THEN Apply(a, r.seen) ELSE UNCHANGED base
    /\ poll' = [poll EXCEPT !.at = "gather", !.left = Tail(@)]

Backoff(p) == [due EXCEPT ![Head(poll.left)] = Interval[p]]

\* Mutant of Handle: an empty list does not count as a poll.
HandleEmptyStaysDue ==
    /\ Gathered /\ poll.left # <<>>
    /\ LET a == Head(poll.left)
           r == poll.answer[a]
       IN  \/ /\ r.kind \in {"error", "limited"}
              /\ due' = IF r.kind = "limited" THEN Backoff(poll.by) ELSE due
              /\ poll' = [poll EXCEPT !.left = Tail(@)]
              /\ UNCHANGED base
           \/ /\ r.kind = "ok" /\ r.seen = {}
              /\ ApplyAnswer(a, r)
              /\ UNCHANGED due
           \/ /\ r.kind = "ok" /\ r.seen # {}
              /\ due' = Backoff(poll.by)
              /\ poll' = [poll EXCEPT !.at = "insert"]
              /\ UNCHANGED base
    /\ UNCHANGED <<market, push, faults>>

(* One turn of the loop over the answers; a rate-limited address waits for
   its next interval, one that failed otherwise is due again at once.      *)
Handle ==
    /\ Gathered /\ poll.left # <<>>
    /\ LET a == Head(poll.left)
           r == poll.answer[a]
       IN  \/ /\ r.kind = "error"
              /\ poll' = [poll EXCEPT !.left = Tail(@)]
              /\ UNCHANGED <<due, base>>
           \/ /\ r.kind = "limited"
              /\ due' = Backoff(poll.by)
              /\ poll' = [poll EXCEPT !.left = Tail(@)]
              /\ UNCHANGED base
           \/ /\ r.kind = "ok" /\ r.seen = {}
              /\ due' = Backoff(poll.by)
              /\ ApplyAnswer(a, r)
           \/ /\ r.kind = "ok" /\ r.seen # {}
              /\ due' = Backoff(poll.by)
              /\ poll' = [poll EXCEPT !.at = "insert"]
              /\ UNCHANGED base
    /\ UNCHANGED <<market, push, faults>>

Inserted ==
    /\ poll.at = "insert"
    /\ ApplyAnswer(Head(poll.left), poll.answer[Head(poll.left)])
    /\ UNCHANGED <<market, due, push, faults>>

(* The exception ends the whole tick: the other answers are dropped, and so
   is the census if it has not run.                                        *)
InsertFailed ==
    /\ poll.at = "insert"
    /\ faults < MaxFaults /\ faults' = faults + 1
    /\ poll' = NoPoll
    /\ UNCHANGED <<market, due, base, push>>

PollReturns ==
    /\ Gathered /\ poll.left = <<>>
    /\ poll' = IF poll.by = "tracker" THEN Begin("census", due) ELSE NoPoll
    /\ UNCHANGED <<market, due, base, push, faults>>

-----------------------------------------------------------------------------
(* The stream subscribes to the native dex alone.  The list is on its way,
   then its insert is awaited.                                             *)
Pushed(a) ==
    /\ push.at = "idle"
    /\ push' = [at |-> "insert", addr |-> a, seen |-> actual[a] \intersect {Native}]
    /\ UNCHANGED <<market, due, base, poll, faults>>

PushApplied ==
    /\ push.at = "insert"
    /\ Apply(push.addr, push.seen)
    /\ push' = NoPush
    /\ UNCHANGED <<market, due, poll, faults>>

PushFailed ==
    /\ push.at = "insert" /\ push.seen # {}
    /\ faults < MaxFaults /\ faults' = faults + 1
    /\ push' = NoPush
    /\ UNCHANGED <<market, due, base, poll>>

-----------------------------------------------------------------------------
Working == \/ \E a \in DOMAIN poll.answer : \E r \in Answers(poll.by, a, poll.answer[a].asks) :
                Answered(a, r)
           \/ Handle \/ Inserted \/ PollReturns

PositionsNext ==
    \/ \E n \in 1..SlowestTick : TickBegins(n)
    \/ Working \/ InsertFailed
    \/ \E a \in Whale : Pushed(a) \/ \E d \in Dex : Moves(a, d)
    \/ \E a \in Whale, d \in Dex \ {Native} : SeenTrading(a, d)
    \/ PushApplied \/ PushFailed

(* The tick loop never stops, and every request and insert ends. *)
PositionsFairness ==
    /\ WF_positionsVars(TickBegins(1)) /\ WF_positionsVars(Working)

PositionsSpec == PositionsInit /\ [][PositionsNext]_positionsVars /\ PositionsFairness

-----------------------------------------------------------------------------
(* When a whale leaves its positions alone, the baseline comes back again and
   again to what it has on the dexes that are asked: no answer that waited for
   its batch, no list cut short by a failed dex, no push of the native dex that
   overtook a poll or was overtaken spoils it for good
   (position_tracker.py:118-159).                                          *)
BaselineCatchesUp ==
    \A a \in Whale, s \in SUBSET Dex :
        <>[](actual[a] = s) => []<>(base[a] = s \intersect Asked(a))

(* While the batches of an interval have room for every member, each one is
   polled again and again, also after failures.                            *)
EveryMemberPolled == \A a \in Address : []<>(due[a] > 0)
=============================================================================
