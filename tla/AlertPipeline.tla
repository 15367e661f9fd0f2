---------------------------- MODULE AlertPipeline ----------------------------
(***************************************************************************)
(* From an engine's finding to a stored and delivered alert:               *)
(*   - engine calls of the orchestrator (_run_engine_call), made by the    *)
(*     tick loop and the position stream at once, raise alerts under the   *)
(*     engines' own per-key cooldown (engines/_shared.py);                 *)
(*   - each call then hands its alerts, one after the other, to            *)
(*     AlertManager.process_alert (alerts/manager.py): deduplicate,        *)
(*     throttle, insert, remember, send.                                   *)
(* Every await is a step boundary: the storage query, the insert, the      *)
(* sinks.  One clock in seconds stands for time.time and time.monotonic.   *)
(***************************************************************************)
EXTENDS Integers, Sequences, FiniteSetsExt, Functions

CONSTANTS
  Callers,       \* the loops that make engine calls concurrently
  Fingerprints,  \* _dedupe_fingerprint; the engines' cooldown keys match it
  Group,         \* the (alert_type, coin) of a fingerprint
  Cooldown,      \* alert_cooldown_s
  Window,        \* the throttle's window: 60 s in the code
  MaxPerWindow,  \* alert_max_per_minute
  QueryLimit,    \* limit of get_recent_alerts in _is_duplicate: 20 in the code
  CacheCap,      \* _FINGERPRINT_CACHE_MAX: 4096 in the code
  MaxLag,        \* bound: an engine call and its dispatch take no longer
  MaxTime,       \* bound: the clock stops here
  MaxRestarts    \* bound: the process is restarted so often

ASSUME AlertAssumption ==
  /\ {Cooldown, Window, MaxLag, MaxTime, MaxRestarts} \subseteq Nat
  /\ {MaxPerWindow, QueryLimit, CacheCap} \subseteq Nat \ {0}
  /\ IsFiniteSet(Callers)

VARIABLES
  now,            \* the clock
  engineLast,     \* the engines' _last_alert_ms: key -> time of its last alert
  cache,          \* _fingerprint_last_ms
  checked,        \* _storage_checked
  dispatchTimes,  \* _dispatch_times
  table,          \* the alerts table, in insertion order
  pc,             \* where each caller is
  callTime,       \* the timestamp each caller's engine call was given
  inserts,        \* callers in insert_alert, in the order of the write lock
  pending,        \* alerts of the call not yet processed; the head is next
  sent,           \* rows handed to the sinks
  overlooked,     \* history: rows of its own fingerprint that the limit of the
                  \* query kept from an alert
  restarts        \* how often the process was restarted

engineVars == <<engineLast, callTime>>
memoryVars == <<cache, checked, dispatchTimes>>
historyVars == <<overlooked, restarts>>
vars == <<now, engineVars, memoryVars, table, pc, inserts, pending, sent, historyVars>>

EmptyDict == [f \in {} |-> 0]

\* dict[f] = v
Put(dict, f, v) == [g \in DOMAIN dict \cup {f} |-> IF g = f THEN v ELSE dict[g]]

Init ==
  /\ now = 0
  /\ engineLast = EmptyDict
  /\ cache = EmptyDict
  /\ checked = {}
  /\ dispatchTimes = << >>
  /\ table = << >>
  /\ pc = [c \in Callers |-> "idle"]
  /\ callTime = [c \in Callers |-> 0]
  /\ inserts = << >>
  /\ pending = [c \in Callers |-> << >>]
  /\ sent = {}
  /\ overlooked = {}
  /\ restarts = 0

(***************************************************************************)
(* Engine calls.                                                           *)
(***************************************************************************)

\* engine.tick(now_ms) or on_position_update(..., now_ms): the call's alerts
\* carry the time of its start, however long its awaits take.
StartCall(c) ==
  /\ pc[c] = "idle"
  /\ pc' = [pc EXCEPT ![c] = "analysing"]
  /\ callTime' = [callTime EXCEPT ![c] = now]
  /\ UNCHANGED <<now, engineLast, memoryVars, table, inserts, pending, sent, historyVars>>

\* is_on_cooldown
OnCooldown(f, time) ==
  f \in DOMAIN engineLast /\ time - engineLast[f] < Cooldown

\* The engine finds something and records it at once (record_alert_timestamp),
\* before anybody decided that the alert will be stored.
RaiseAlert(c, f) ==
  /\ pc[c] = "analysing"
  /\ ~OnCooldown(f, callTime[c])
  /\ engineLast' = Put(engineLast, f, callTime[c])
  /\ pending' = [pending EXCEPT ![c] =
                   Append(@, [fingerprint |-> f, time |-> callTime[c]])]
  /\ UNCHANGED <<now, callTime, memoryVars, table, pc, inserts, sent, historyVars>>

\* The engine call returns its list to _dispatch_alerts.
FinishCall(c) ==
  /\ pc[c] = "analysing"
  /\ pc' = [pc EXCEPT ![c] = "dispatching"]
  /\ UNCHANGED <<now, engineVars, memoryVars, table, inserts, pending, sent, historyVars>>

\* _dispatch_alerts is through its list.
EndDispatch(c) ==
  /\ pc[c] = "dispatching"
  /\ pending[c] = << >>
  /\ pc' = [pc EXCEPT ![c] = "idle"]
  /\ UNCHANGED <<now, engineVars, memoryVars, table, inserts, pending, sent, historyVars>>

(***************************************************************************)
(* AlertManager.process_alert.                                             *)
(***************************************************************************)
Current(c) == Head(pending[c])

\* process_alert returns; the loop of _dispatch_alerts goes on.
NextAlert(c) ==
  /\ pc' = [pc EXCEPT ![c] = "dispatching"]
  /\ pending' = [pending EXCEPT ![c] = Tail(@)]

\* The dispatches of the window; _is_throttled drops what comes before the first.
Dispatched == {i \in DOMAIN dispatchTimes : dispatchTimes[i] >= now - Window}
Pruned ==
  SubSeq(dispatchTimes, Min(Dispatched \cup {Len(dispatchTimes) + 1}), Len(dispatchTimes))

\* Mutant of Throttle: > for >=.
ThrottleOffByOne(c) ==
  /\ dispatchTimes' = Pruned
  /\ IF Len(Pruned) > MaxPerWindow
       THEN NextAlert(c) /\ UNCHANGED inserts
       ELSE /\ pc' = [pc EXCEPT ![c] = "inserting"]
            /\ inserts' = Append(inserts, c)
            /\ UNCHANGED pending

\* _is_throttled prunes the window and compares; the alert is dropped or goes on
\* to insert_alert.
Throttle(c) ==
  /\ dispatchTimes' = Pruned
  /\ IF Len(Pruned) >= MaxPerWindow
       THEN NextAlert(c) /\ UNCHANGED inserts
       ELSE /\ pc' = [pc EXCEPT ![c] = "inserting"]
            /\ inserts' = Append(inserts, c)
            /\ UNCHANGED pending

\* _is_duplicate up to its first await.
CheckMemory(c) ==
  /\ pc[c] = "dispatching"
  /\ pending[c] # << >>
  /\ LET a == Current(c)
         f == a.fingerprint
     IN \/ /\ f \in DOMAIN cache /\ cache[f] >= a.time - Cooldown
           /\ NextAlert(c)
           /\ UNCHANGED <<dispatchTimes, inserts>>
        \/ /\ f \in DOMAIN cache /\ cache[f] < a.time - Cooldown
           /\ Throttle(c)
        \/ /\ f \notin DOMAIN cache /\ f \in checked
           /\ Throttle(c)
        \/ /\ f \notin DOMAIN cache /\ f \notin checked
           /\ pc' = [pc EXCEPT ![c] = "querying"]
           /\ UNCHANGED <<pending, dispatchTimes, inserts>>
  /\ UNCHANGED <<now, engineVars, cache, checked, table, sent, historyVars>>

\* Mutant of Recent: the query looks for rows after the alert, not before it.
RecentNothing(a) ==
  {{i \in DOMAIN table :
      /\ Group[table[i].fingerprint] = Group[a.fingerprint]
      /\ table[i].time >= a.time + Cooldown}}

\* The rows of the alert's type and coin that are not older than the cooldown.
Rows(a) ==
  {i \in DOMAIN table : /\ Group[table[i].fingerprint] = Group[a.fingerprint]
                        /\ table[i].time >= a.time - Cooldown}

\* What get_recent_alerts may return of them: the newest QueryLimit.
Recent(a) ==
  {S \in SUBSET Rows(a) :
     /\ Cardinality(S) = Min({QueryLimit, Cardinality(Rows(a))})
     /\ \A i \in S, j \in Rows(a) \ S : table[i].time >= table[j].time}

\* The rest of _is_duplicate: the storage answered.  A full answer may have left
\* out the rows of the fingerprint.
CheckStorage(c) ==
  /\ pc[c] = "querying"
  /\ LET a == Current(c)
         f == a.fingerprint
     IN \E recent \in Recent(a) :
          LET matches == {table[i].time :
                            i \in {j \in recent : table[j].fingerprint = f}}
          IN \/ /\ matches # {}
                /\ cache' = Put(cache, f, Max(matches))
                /\ NextAlert(c)
                /\ UNCHANGED <<dispatchTimes, inserts, overlooked>>
             \/ /\ matches = {}
                /\ Throttle(c)
                /\ overlooked' =
                     IF Cardinality(recent) < QueryLimit THEN overlooked
                     ELSE overlooked \cup {i \in Rows(a) : table[i].fingerprint = f}
                /\ UNCHANGED cache
  /\ checked' = checked \cup {Current(c).fingerprint}
  /\ UNCHANGED <<now, engineVars, table, sent, restarts>>

\* _prune_fingerprint_cache: drop the expired, then the oldest above the cap.
Survivors(dict, time) ==
  LET fresh == {f \in DOMAIN dict : dict[f] >= time - Cooldown}
  IN {S \in SUBSET fresh :
        /\ Cardinality(S) = Min({CacheCap, Cardinality(fresh)})
        /\ \A f \in S, g \in fresh \ S : dict[f] >= dict[g]}

\* The write lock serves the callers in order.
InsertTurn(c) ==
  /\ pc[c] = "inserting"
  /\ Head(inserts) = c
  /\ inserts' = Tail(inserts)

\* insert_alert succeeded: only now is the alert counted and remembered.
InsertDone(c) ==
  /\ InsertTurn(c)
  /\ LET a == Current(c)
         updated == Put(cache, a.fingerprint, a.time)
     IN /\ table' = Append(table, a)
        /\ dispatchTimes' = Append(dispatchTimes, now)
        /\ \E keep \in Survivors(updated, a.time) :
             /\ cache' = Restrict(updated, keep)
             /\ checked' = checked \ (DOMAIN updated \ keep)
  /\ pc' = [pc EXCEPT ![c] = "sending"]
  /\ UNCHANGED <<now, engineVars, pending, sent, historyVars>>

\* The sinks have the alert (asyncio.gather of sink.send).
Send(c) ==
  /\ pc[c] = "sending"
  /\ \E i \in DOMAIN table :
       /\ table[i] = Current(c)
       /\ i \notin sent
       /\ sent' = sent \cup {i}
  /\ NextAlert(c)
  /\ UNCHANGED <<now, engineVars, memoryVars, table, inserts, historyVars>>

\* An exception during the analysis, the query or the insert ends the whole
\* engine call (_run_engine_call): its remaining alerts are dropped.  A failed
\* insert may still become durable with a later commit (see WriteContract).
Fail(c) ==
  /\ \/ /\ pc[c] \in {"analysing", "querying"}
        /\ UNCHANGED <<table, inserts>>
     \/ /\ InsertTurn(c)
        /\ UNCHANGED table \/ table' = Append(table, Current(c))
  /\ pc' = [pc EXCEPT ![c] = "idle"]
  /\ pending' = [pending EXCEPT ![c] = << >>]
  /\ UNCHANGED <<now, engineVars, memoryVars, sent, historyVars>>

ClockTick ==
  /\ now < MaxTime
  /\ \A c \in Callers : pc[c] # "idle" => now - callTime[c] < MaxLag
  /\ now' = now + 1
  /\ UNCHANGED <<engineVars, memoryVars, table, pc, inserts, pending, sent, historyVars>>

\* The process is restarted: everything but the alerts table is gone.
Restart ==
  /\ restarts < MaxRestarts
  /\ restarts' = restarts + 1
  /\ engineLast' = EmptyDict
  /\ cache' = EmptyDict
  /\ checked' = {}
  /\ dispatchTimes' = << >>
  /\ pc' = [c \in Callers |-> "idle"]
  /\ callTime' = [c \in Callers |-> 0]
  /\ inserts' = << >>
  /\ pending' = [c \in Callers |-> << >>]
  /\ UNCHANGED <<now, table, sent, overlooked>>

Next ==
  \/ \E c \in Callers : \/ StartCall(c)
                        \/ \E f \in Fingerprints : RaiseAlert(c, f)
                        \/ FinishCall(c) \/ EndDispatch(c)
                        \/ CheckMemory(c) \/ CheckStorage(c)
                        \/ InsertDone(c) \/ Send(c) \/ Fail(c)
  \/ ClockTick
  \/ Restart

Spec == Init /\ [][Next]_vars

(***************************************************************************)
(* Properties.                                                             *)
(***************************************************************************)

\* An alert is stored at least a cooldown after every earlier row of its
\* fingerprint, in whatever order the loops got them stored: neither the cache with
\* its pruning and eviction nor a restart leaves a gap, but one.  manager.py:93-96
\* says that storage is asked once "so a cooldown that outlived a process restart
\* still applies", and tests/alerts/test_manager.py:158-180 test it with one row;
\* the query is cut at its limit by type and coin, though, not by fingerprint, so
\* after a restart a row may be overlooked behind newer rows of other fingerprints.
\* The formula excuses those rows and no others.  It takes a MaxLag below the
\* cooldown: an alert that waits for a whole cooldown can slip through as well.
CooldownHolds ==
  \A j \in DOMAIN table : \A i \in 1..(j - 1) :
    table[i].fingerprint = table[j].fingerprint /\ i \notin overlooked
      => table[j].time - table[i].time >= Cooldown

\* The throttle is checked before the insert is awaited and counted after it, so
\* what bounds the rate is the ceiling plus one alert per other caller.
RateBound == Cardinality(Dispatched) <= MaxPerWindow + Cardinality(Callers) - 1

=============================================================================
