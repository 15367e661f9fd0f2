------------------------------ MODULE RestClient ------------------------------
(***************************************************************************)
(* HyperLiquidReader and its WeightRateLimiter: the first construction of  *)
(* the SDK client, the four concurrency permits, the sliding weight        *)
(* window, the shared cooldown after an HTTP 429 and the retries, for the  *)
(* calls that two requests gather: the asset snapshots of all dexes (after *)
(* the names of the HIP-3 dexes) and the positions of one user.            *)
(*                                                                         *)
(* Time is counted in whole units; a timer holds what is left of it, and a *)
(* wait shorter than a unit takes one.  The weight of past calls is kept   *)
(* by age.  Each call is made once; RestFaults bounds the answers other    *)
(* than success.  The answers of the exchange are external.                *)
(***************************************************************************)
EXTENDS Naturals, FiniteSets, FiniteSetsExt, Functions

CONSTANTS
    RestDex, NativeDex,
    CallWeight, InitWeight,
    MaxWeight, Window,     \* of the rate limiter
    Permits,               \* of the semaphore
    LastAttempt,           \* 3: attempts count from 0
    FinalCooldown,         \* after the last 429
    RestFaults

ASSUME RestAssumption ==
    /\ NativeDex \in RestDex /\ "names" \notin RestDex
    /\ {CallWeight, InitWeight} \subseteq 1..MaxWeight
    /\ {Window, LastAttempt, FinalCooldown, RestFaults} \subseteq Nat
    /\ {Permits, MaxWeight} \subseteq Nat \ {0}

(* A call is named by its request and its dex; the dex of the call for the
   names of the HIP-3 dexes is "names".                                    *)
NamesCall == <<"snapshots", "names">>
Requests == {"snapshots", "positions"}
Calls == {NamesCall} \union (Requests \X RestDex)

VARIABLES
    info,       \* _info is set
    initLock,   \* the set of calls that hold _init_lock
    call,       \* per call: [at, init, attempt, sleep]
    request,    \* per request: the dexes it gathers, and its outcome
    names,      \* _hip3_dex_names
    requests,   \* the limiter's _requests: weight by age
    current,    \* its _current_weight
    cooldown,   \* what is left of _rate_limited_until
    restFaults,
    dispatched  \* history: weight that left in each unit of the window

limiter == <<requests, current, dispatched>>
restVars == <<info, initLock, call, request, names, limiter, cooldown, restFaults>>

Never == [at |-> "idle", init |-> FALSE, attempt |-> 0, sleep |-> 0]
Unasked == [dexes |-> {}, outcome |-> "none"]
Ages == 0..(Window + 1)

RestInit ==
    /\ info = FALSE /\ initLock = {}
    /\ call = [c \in Calls |-> Never]
    /\ request = [r \in Requests |-> Unasked]
    /\ names = {}
    /\ requests = [a \in Ages |-> 0] /\ current = 0
    /\ cooldown = 0 /\ restFaults = 0
    /\ dispatched = [a \in Ages |-> 0]

-----------------------------------------------------------------------------
Longer(a, b) == IF a > b THEN a ELSE b
(* Two to the power of the attempt. *)
Delay[attempt \in 0..LastAttempt] == IF attempt = 0 THEN 1 ELSE 2 * Delay[attempt - 1]
Total(byAge, ages) == MapThenSumSet(LAMBDA a : byAge[a], ages)
InFlight == {c \in Calls : call[c].at = "flight"}
Permitted == {c \in Calls : call[c].at \in {"weight", "throttled", "flight"}}

Goes(c, at) == call' = [call EXCEPT ![c].at = at]

(* A call of an initialized reader goes to its first attempt. *)
EnsureInitialized(c) ==
    /\ call[c].at = "called"
    /\ IF info THEN Goes(c, "attempt") ELSE Goes(c, "lock")
    /\ UNCHANGED <<info, initLock, request, names, limiter, cooldown, restFaults>>

\* Mutant of InitLocked: _info is not looked at again under the lock.
InitLockedNoRecheck(c) ==
    /\ call[c].at = "lock" /\ initLock = {}
    /\ initLock' = {c}
    /\ call' = [call EXCEPT ![c].at = "permit", ![c].init = TRUE]
    /\ UNCHANGED <<info, request, names, limiter, cooldown, restFaults>>

InitLocked(c) ==
    /\ call[c].at = "lock" /\ initLock = {}
    /\ IF info THEN Goes(c, "attempt") /\ UNCHANGED initLock
       ELSE /\ initLock' = {c}
            /\ call' = [call EXCEPT ![c].at = "permit", ![c].init = TRUE]
    /\ UNCHANGED <<info, request, names, limiter, cooldown, restFaults>>

(* One sleep for what is left of the cooldown, without a second look. *)
AwaitGlobalCooldown(c) ==
    /\ call[c].at = "attempt"
    /\ call' = [call EXCEPT ![c].at = IF cooldown > 0 THEN "cooling" ELSE "permit",
                            ![c].sleep = cooldown]
    /\ UNCHANGED <<info, initLock, request, names, limiter, cooldown, restFaults>>

Wakes(c) ==
    /\ call[c].at \in {"cooling", "throttled", "backoff"} /\ call[c].sleep = 0
    /\ Goes(c, CASE call[c].at = "cooling" -> "permit"
                 [] call[c].at = "throttled" -> "weight"
                 [] OTHER -> IF call[c].init THEN "permit" ELSE "attempt")
    /\ UNCHANGED <<info, initLock, request, names, limiter, cooldown, restFaults>>

TakePermit(c) ==
    /\ call[c].at = "permit" /\ Cardinality(Permitted) < Permits
    /\ Goes(c, "weight")
    /\ UNCHANGED <<info, initLock, request, names, limiter, cooldown, restFaults>>

(* How long until enough of the oldest weight leaves the window. *)
WaitFor(needed, byAge) ==
    LET enough == {a \in Ages : Total(byAge, a..(Window + 1)) >= needed}
    IN  Longer(1, Window - Max(enough))

\* Mutant of Acquire: the window loses an entry one unit too early.
AcquireEarly(c) ==
    LET w == IF call[c].init THEN InitWeight ELSE CallWeight
        kept == [a \in Ages |-> IF a < Window THEN requests[a] ELSE 0]
        used == current - (Total(requests, Ages) - Total(kept, Ages))
    IN  /\ call[c].at = "weight"
        /\ IF used + w <= MaxWeight
           THEN /\ requests' = [kept EXCEPT ![0] = @ + w]
                /\ current' = used + w
                /\ dispatched' = [dispatched EXCEPT ![0] = @ + w]
                /\ Goes(c, "flight")
           ELSE /\ requests' = kept /\ current' = used
                /\ call' = [call EXCEPT ![c].at = "throttled",
                        ![c].sleep = WaitFor(used + w - MaxWeight, kept)]
                /\ UNCHANGED dispatched
        /\ UNCHANGED <<info, initLock, request, names, cooldown, restFaults>>

(* acquire() prunes, then takes the weight or sleeps and tries again; the
   call leaves for the executor in the same step.                          *)
Acquire(c) ==
    LET w == IF call[c].init THEN InitWeight ELSE CallWeight
        kept == [a \in Ages |-> IF a <= Window THEN requests[a] ELSE 0]
        used == current - (Total(requests, Ages) - Total(kept, Ages))
    IN  /\ call[c].at = "weight"
        /\ IF used + w <= MaxWeight
           THEN /\ requests' = [kept EXCEPT ![0] = @ + w]
                /\ current' = used + w
                /\ dispatched' = [dispatched EXCEPT ![0] = @ + w]
                /\ Goes(c, "flight")
           ELSE /\ requests' = kept /\ current' = used
                /\ call' = [call EXCEPT ![c].at = "throttled",
                        ![c].sleep = WaitFor(used + w - MaxWeight, kept)]
                /\ UNCHANGED dispatched
        /\ UNCHANGED <<info, initLock, request, names, cooldown, restFaults>>

-----------------------------------------------------------------------------
Fault == restFaults < RestFaults /\ restFaults' = restFaults + 1

Constructed(c) ==
    /\ c \in InFlight /\ call[c].init
    /\ info' = TRUE /\ initLock' = {}
    /\ call' = [call EXCEPT ![c] = [Never EXCEPT !.at = "attempt"]]
    /\ UNCHANGED <<request, names, limiter, cooldown, restFaults>>

\* Mutant of ConstructFails: giving up leaves the lock taken.
ConstructFailsKeepsLock(c) ==
    LET last == call[c].attempt = LastAttempt
    IN  /\ c \in InFlight /\ call[c].init /\ Fault
        /\ call' = [call EXCEPT ![c] = IF last THEN [Never EXCEPT !.at = "error"]
                       ELSE [at |-> "backoff", init |-> TRUE, attempt |-> @.attempt + 1,
                             sleep |-> Delay[@.attempt]]]
        /\ UNCHANGED <<info, initLock, request, names, limiter, cooldown>>

(* Any transient error is retried here, without the shared cooldown. *)
ConstructFails(c) ==
    LET last == call[c].attempt = LastAttempt
    IN  /\ c \in InFlight /\ call[c].init /\ Fault
        /\ initLock' = IF last THEN {} ELSE initLock
        /\ call' = [call EXCEPT ![c] = IF last THEN [Never EXCEPT !.at = "error"]
                       ELSE [at |-> "backoff", init |-> TRUE, attempt |-> @.attempt + 1,
                             sleep |-> Delay[@.attempt]]]
        /\ UNCHANGED <<info, request, names, limiter, cooldown>>

(* Another exception is not retried; the lock is left at once. *)
ConstructRaises(c) ==
    /\ c \in InFlight /\ call[c].init /\ Fault
    /\ initLock' = {}
    /\ call' = [call EXCEPT ![c] = [Never EXCEPT !.at = "unexpected"]]
    /\ UNCHANGED <<info, request, names, limiter, cooldown>>

(* An answer, which for the positions of a user may be empty. *)
Answered(c, result) ==
    /\ c \in InFlight /\ ~call[c].init
    /\ Goes(c, result)
    /\ UNCHANGED <<info, initLock, request, names, limiter, cooldown, restFaults>>

(* A failed call: with one of the errors the reader expects of a request, or
   with another exception, of the SDK or of the parser.                    *)
Fails(c, failure) ==
    /\ c \in InFlight /\ ~call[c].init /\ Fault
    /\ Goes(c, failure)
    /\ UNCHANGED <<info, initLock, request, names, limiter, cooldown>>

\* Mutant of RateLimited: the cooldown is set, not extended.
RateLimitedSets(c) ==
    LET last == call[c].attempt = LastAttempt
        pause == IF last THEN FinalCooldown ELSE Delay[call[c].attempt]
    IN  /\ c \in InFlight /\ ~call[c].init /\ Fault
        /\ cooldown' = pause
        /\ call' = [call EXCEPT ![c] = IF last THEN [@ EXCEPT !.at = "limited"]
                       ELSE [@ EXCEPT !.at = "backoff", !.attempt = call[c].attempt + 1, !.sleep = pause]]
        /\ UNCHANGED <<info, initLock, request, names, limiter>>

(* HTTP 429: the shared cooldown is extended, the call backs off, or gives up
   after the last attempt.                                                 *)
RateLimited(c) ==
    LET last == call[c].attempt = LastAttempt
        pause == IF last THEN FinalCooldown ELSE Delay[call[c].attempt]
    IN  /\ c \in InFlight /\ ~call[c].init /\ Fault
        /\ cooldown' = Longer(cooldown, pause)
        /\ call' = [call EXCEPT ![c] = IF last THEN [@ EXCEPT !.at = "limited"]
                       ELSE [@ EXCEPT !.at = "backoff", !.attempt = call[c].attempt + 1, !.sleep = pause]]
        /\ UNCHANGED <<info, initLock, request, names, limiter>>

-----------------------------------------------------------------------------
Starts(cs) == call' = [c \in Calls |-> IF c \in cs THEN [Never EXCEPT !.at = "called"]
                                      ELSE call[c]]
Failures == {"error", "limited", "unexpected"}
Ended(cs) == \A c \in cs : call[c].at \in {"some", "empty"} \union Failures

Gather(r, dexes) ==
    /\ request' = [request EXCEPT ![r].dexes = dexes]
    /\ Starts({r} \X dexes)

(* get_asset_snapshots asks for the names first while it knows none. *)
AskSnapshots ==
    /\ request["snapshots"] = Unasked /\ call[NamesCall] = Never
    /\ IF names = {} THEN Starts({NamesCall}) /\ UNCHANGED request
       ELSE Gather("snapshots", {NativeDex} \union names)
    /\ UNCHANGED <<info, initLock, names, limiter, cooldown, restFaults>>

NamesArrive(found) ==
    /\ request["snapshots"] = Unasked /\ call[NamesCall].at = "some"
    /\ names' = found
    /\ Gather("snapshots", {NativeDex} \union names')
    /\ UNCHANGED <<info, initLock, limiter, cooldown, restFaults>>

NamesFail ==
    /\ request["snapshots"] = Unasked /\ call[NamesCall].at \in Failures
    /\ request' = [request EXCEPT !["snapshots"].outcome = "raised"]
    /\ UNCHANGED <<info, initLock, call, names, limiter, cooldown, restFaults>>

(* get_user_positions drops the dexes it does not know, so before the names
   have arrived it asks the native dex alone.                              *)
AskPositions(active) ==
    /\ request["positions"] = Unasked
    /\ Gather("positions", {NativeDex} \union (active \intersect names))
    /\ UNCHANGED <<info, initLock, names, limiter, cooldown, restFaults>>

(* The snapshots skip the dexes that failed with an expected error and raise
   any other exception; the positions raise for failed dexes when the others
   left nothing.                                                           *)
GatherEnds(r) ==
    LET at(kinds) == {d \in request[r].dexes : call[<<r, d>>].at \in kinds}
    IN  /\ request[r].dexes # {} /\ request[r].outcome = "none"
        /\ Ended({r} \X request[r].dexes)
        /\ request' = [request EXCEPT ![r].outcome =
               CASE r = "snapshots" -> IF at({"unexpected"}) # {} THEN "raised" ELSE "list"
                 [] r = "positions" /\ (at({"some"}) # {} \/ at(Failures) = {}) -> "list"
                 [] OTHER -> IF at({"limited"}) # {} THEN "limited" ELSE "raised"]
        /\ UNCHANGED <<info, initLock, call, names, limiter, cooldown, restFaults>>

-----------------------------------------------------------------------------
Shift(byAge, old) == [a \in Ages |-> CASE a = 0 -> 0
                                     [] a \in 1..Window -> byAge[a - 1]
                                     [] OTHER -> old]

Ready(c) ==
    \/ call[c].at \in {"called", "attempt", "weight"}
    \/ call[c].at = "lock" /\ initLock = {}
    \/ call[c].at = "permit" /\ Cardinality(Permitted) < Permits
    \/ call[c].at \in {"cooling", "throttled", "backoff"} /\ call[c].sleep = 0

(* A unit is longer than a turn of the event loop: it passes when no call can
   go on at once.                                                          *)
Second ==
    /\ \A c \in Calls : ~Ready(c)
    /\ call' = [c \in Calls |-> [call[c] EXCEPT !.sleep = IF @ > 0 THEN @ - 1 ELSE 0]]
    /\ cooldown' = IF cooldown > 0 THEN cooldown - 1 ELSE 0
    /\ requests' = Shift(requests, requests[Window] + requests[Window + 1])
    /\ dispatched' = Shift(dispatched, 0)
    /\ UNCHANGED <<info, initLock, request, names, current, restFaults>>

CallMoves(c) ==
    \/ EnsureInitialized(c) \/ InitLocked(c)
    \/ AwaitGlobalCooldown(c) \/ Wakes(c) \/ TakePermit(c) \/ Acquire(c)

CallAnswered(c) ==
    \/ Constructed(c) \/ ConstructFails(c) \/ ConstructRaises(c)
    \/ Answered(c, "some")
    \/ c[1] = "positions" /\ Answered(c, "empty")
    \/ Fails(c, "error") \/ Fails(c, "unexpected") \/ RateLimited(c)

RequestMoves ==
    \/ \E found \in SUBSET (RestDex \ {NativeDex}) : NamesArrive(found)
    \/ NamesFail \/ \E r \in Requests : GatherEnds(r)

Asks == AskSnapshots \/ \E active \in SUBSET (RestDex \ {NativeDex}) : AskPositions(active)

RestNext ==
    \/ \E c \in Calls : CallMoves(c) \/ CallAnswered(c)
    \/ RequestMoves \/ Asks \/ Second

RestSpec == RestInit /\ [][RestNext]_restVars

-----------------------------------------------------------------------------
(* However calls, retries and the construction of the client interleave, the
   weight that leaves within any window stays in the budget, though acquire
   sleeps and looks again outside its lock (rate_limiter.py:53-82).        *)
BudgetHolds == Total(dispatched, 0..Window) <= MaxWeight

(* The client is constructed once, under the lock, and no call leaves before
   it exists, however many calls find it missing (client.py:110-117).      *)
InitBeforeUse ==
    /\ info => \A c \in Calls : ~call[c].init
    /\ ~info => \A c \in Calls : call[c].init
                    \/ call[c].at \in {"idle", "called", "lock", "error", "unexpected"}
    /\ Cardinality({c \in Calls : call[c].init}) <= 1

(* The shared cooldown outlasts the back-off of every call that was refused
   with a 429: no fresh call is let go before them (client.py:170-175).    *)
CooldownCoversBackoff ==
    \A c \in Calls : call[c].at = "backoff" /\ ~call[c].init =>
        call[c].sleep <= cooldown

(* No lock, permit, back-off or wait for weight is held for good: every call
   that has not ended can go on, sleeps or is in flight, or the lock or permit
   it waits for belongs to such a call (client.py:110-146, 202-251).       *)
NeverStuck ==
    LET going(c) == Ready(c) \/ c \in InFlight \/ call[c].sleep > 0
    IN  \A c \in Calls : call[c].at \notin {"idle", "some", "empty"} \union Failures =>
            \/ going(c)
            \/ call[c].at = "lock" /\ \E h \in initLock : going(h)
            \/ call[c].at = "permit" /\ \E h \in Permitted : going(h)
=============================================================================
