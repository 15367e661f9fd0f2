------------------------------ MODULE CandleFeed ------------------------------
(***************************************************************************)
(* Live candles, from the exchange to the browsers:                        *)
(*   - every /ws/live connection (api/ws.py) watches at most one           *)
(*     (coin, interval) key and polls for its newest bar;                  *)
(*   - SharedState (app/state.py) counts the watchers of each key and      *)
(*     keeps the newest bar of the keys that have one;                     *)
(*   - CandleStreamRegistry (candle_stream.py) keeps one exchange          *)
(*     connection subscribed to the keys that are counted.                 *)
(*                                                                         *)
(* The connections run on the API thread's event loop and the registry on  *)
(* the runner thread's; they meet only in SharedState, whose methods hold  *)
(* its lock.  A bar is its sequence number.                                *)
(***************************************************************************)
EXTENDS Integers, Sequences, FiniteSets

CONSTANTS
  Conns,      \* slots for /ws/live connections; a free slot watches nothing
  Keys,       \* (coin, interval) pairs
  ValidKeys,  \* the keys whose interval is one of VALID_CANDLE_INTERVALS
  NoKey,      \* None
  MaxBars,    \* bound: bars the exchange sends
  MaxWire     \* bound: bars in flight

ASSUME KeysAssumption   == ValidKeys \subseteq Keys /\ NoKey \notin Keys
ASSUME ConnsAssumption  == IsFiniteSet(Conns)
ASSUME BarsAssumption   == MaxBars \in Nat /\ MaxWire \in Nat

VARIABLES
  \* SharedState
  refs,        \* _desired_candle_keys, 0 for a missing key
  last,        \* seq of _last_candles, 0 for a missing key
  seq,         \* _candle_seq_counter
  \* the connections
  current,     \* _CandleWatch.current
  lastSeq,     \* _CandleWatch.last_seq
  sending,     \* <<k, seq>>: the frame the send loop of a connection awaits
  shown,       \* history: newest bar of the watched key sent during this watch
  \* the registry
  link,        \* its exchange connection
  subscribed,  \* _subscribed
  todo,        \* keys to unsubscribe and to subscribe in this reconciliation
  \* the exchange
  upstream,    \* subscriptions of the current connection
  wire,        \* keys of the bars on their way to the registry
  quotes       \* bars sent so far

stateVars    == <<refs, last, seq>>
connVars     == <<current, lastSeq, sending, shown>>
registryVars == <<link, subscribed, todo>>
exchangeVars == <<upstream, wire, quotes>>
vars == <<stateVars, connVars, registryVars, exchangeVars>>

Bars     == 0..MaxBars
NoFrame  == <<NoKey, 0>>
NothingToDo == [unsubscribe |-> {}, subscribe |-> {}]

CandleTypeOK ==
  /\ refs \in [Keys -> 0..Cardinality(Conns)]
  /\ last \in [Keys -> Bars]
  /\ seq \in Bars
  /\ current \in [Conns -> Keys \cup {NoKey}]
  /\ lastSeq \in [Conns -> Bars \cup {-1}]
  /\ sending \in [Conns -> (Keys \X Bars) \cup {NoFrame}]
  /\ shown \in [Conns -> Bars]
  /\ link \in {"down", "up", "lost", "dead"}
  /\ subscribed \subseteq ValidKeys
  /\ todo \in [unsubscribe : SUBSET ValidKeys, subscribe : SUBSET ValidKeys]
  /\ upstream \subseteq ValidKeys
  /\ wire \in Seq(ValidKeys)
  /\ quotes \in Bars

Init ==
  /\ refs = [k \in Keys |-> 0]
  /\ last = [k \in Keys |-> 0]
  /\ seq = 0
  /\ current = [c \in Conns |-> NoKey]
  /\ lastSeq = [c \in Conns |-> -1]
  /\ sending = [c \in Conns |-> NoFrame]
  /\ shown = [c \in Conns |-> 0]
  /\ link = "down"
  /\ subscribed = {}
  /\ todo = NothingToDo
  /\ upstream = {}
  /\ wire = << >>
  /\ quotes = 0

(***************************************************************************)
(* SharedState.                                                            *)
(***************************************************************************)
\* release_candle_subscription of `old', if any, and acquire_candle_subscription
\* of `new', if any: the last watcher of a key takes its cached bar with it.
Reserve(old, new) ==
  /\ refs' = [k \in Keys |-> refs[k] + (IF k = new THEN 1 ELSE 0)
                                    - (IF k = old THEN 1 ELSE 0)]
  /\ last' = [k \in Keys |-> IF k = old /\ refs[k] = 1 THEN 0 ELSE last[k]]
  /\ UNCHANGED seq

\* Mutant of PushCandle: bars nobody watches are kept too.
PushUnwatched(k) ==
  /\ seq' = seq + 1
  /\ last' = [last EXCEPT ![k] = seq']
  /\ UNCHANGED refs

\* Mutant of PushCandle: every key counts its own bars.
PushSeqPerKey(k) ==
  /\ IF refs[k] = 0
       THEN UNCHANGED last
       ELSE last' = [last EXCEPT ![k] = @ + 1]
  /\ UNCHANGED <<refs, seq>>

\* A bar nobody watches is dropped.
PushCandle(k) ==
  /\ IF refs[k] = 0
       THEN UNCHANGED <<last, seq>>
       ELSE /\ seq' = seq + 1
            /\ last' = [last EXCEPT ![k] = seq']
  /\ UNCHANGED refs

(***************************************************************************)
(* The connections.                                                        *)
(***************************************************************************)
\* "watch_candles": the old key is released, then the new one acquired.  Each
\* half is atomic; a bar or a reconciliation of the other thread in between has
\* the effect it would have before or after both.
Watch(c, k) ==
  /\ current[c] # k
  /\ Reserve(current[c], k)
  /\ current' = [current EXCEPT ![c] = k]
  /\ lastSeq' = [lastSeq EXCEPT ![c] = -1]
  /\ shown' = [shown EXCEPT ![c] = 0]
  /\ UNCHANGED <<sending, registryVars, exchangeVars>>

\* _CandleWatch.clear
Clear(c) ==
  /\ Reserve(current[c], NoKey)
  /\ current' = [current EXCEPT ![c] = NoKey]
  /\ lastSeq' = [lastSeq EXCEPT ![c] = -1]
  /\ shown' = [shown EXCEPT ![c] = 0]

\* "unwatch_candles"
Unwatch(c) ==
  /\ current[c] # NoKey
  /\ Clear(c)
  /\ UNCHANGED <<sending, registryVars, exchangeVars>>

\* A tick of the send loop finds a bar it has not sent on this watch.
Poll(c) ==
  /\ sending[c] = NoFrame
  /\ current[c] # NoKey
  /\ last[current[c]] \notin {0, lastSeq[c]}
  /\ sending' = [sending EXCEPT ![c] = <<current[c], last[current[c]]>>]
  /\ UNCHANGED <<stateVars, current, lastSeq, shown,
                 registryVars, exchangeVars>>

\* The frame reaches the browser.
Delivered(c) ==
  shown' = [shown EXCEPT ![c] = IF sending[c][1] = current[c] THEN sending[c][2] ELSE @]

\* Mutant of FinishSend: what is newest now is taken for sent.
FinishSendNewest(c) ==
  /\ sending[c] # NoFrame
  /\ Delivered(c)
  /\ lastSeq' = [lastSeq EXCEPT ![c] =
                   IF current[c] = NoKey THEN sending[c][2] ELSE last[current[c]]]
  /\ sending' = [sending EXCEPT ![c] = NoFrame]
  /\ UNCHANGED <<stateVars, current, registryVars, exchangeVars>>

\* The awaited send returns: its bar is the last one sent, whatever the
\* connection watches by now.
FinishSend(c) ==
  /\ sending[c] # NoFrame
  /\ Delivered(c)
  /\ lastSeq' = [lastSeq EXCEPT ![c] = sending[c][2]]
  /\ sending' = [sending EXCEPT ![c] = NoFrame]
  /\ UNCHANGED <<stateVars, current, registryVars, exchangeVars>>

\* Mutant of Close: the watch is not cleared when the connection ends.
CloseKeepsWatch(c) ==
  /\ current' = [current EXCEPT ![c] = NoKey]
  /\ lastSeq' = [lastSeq EXCEPT ![c] = -1]
  /\ shown' = [shown EXCEPT ![c] = 0]
  /\ sending' = [sending EXCEPT ![c] = NoFrame]
  /\ UNCHANGED <<stateVars, registryVars, exchangeVars>>

\* The browser leaves or a send times out: the other task is cancelled where it
\* stands and the watch is cleared in the same step.  The slot is free again.
Close(c) ==
  /\ Clear(c)
  /\ sending' = [sending EXCEPT ![c] = NoFrame]
  /\ UNCHANGED <<registryVars, exchangeVars>>

(***************************************************************************)
(* The registry.                                                           *)
(***************************************************************************)

\* A connection attempt succeeds; one that fails with a DISCONNECT_ERROR only
\* costs time.
Connect ==
  /\ link = "down"
  /\ link' = "up"
  /\ UNCHANGED <<stateVars, connVars, subscribed, todo, exchangeVars>>

\* Any other error, a rejected handshake for instance, ends run() for good.
Die ==
  /\ link = "down"
  /\ link' = "dead"
  /\ UNCHANGED <<stateVars, connVars, subscribed, todo, exchangeVars>>

Desired == {k \in ValidKeys : refs[k] > 0}

\* Mutant of StartReconcile: it only ever adds subscriptions.
StartReconcileAdds ==
  /\ link = "up"
  /\ todo = NothingToDo
  /\ todo' = [unsubscribe |-> {}, subscribe |-> Desired \ subscribed]
  /\ UNCHANGED <<stateVars, connVars, link, subscribed, exchangeVars>>

\* _reconcile_once reads the desired keys once and then works through them.
StartReconcile ==
  /\ link = "up"
  /\ todo = NothingToDo
  /\ todo' = [unsubscribe |-> subscribed \ Desired, subscribe |-> Desired \ subscribed]
  /\ todo' # NothingToDo
  /\ UNCHANGED <<stateVars, connVars, link, subscribed, exchangeVars>>

\* The exchange hears a command only while the connection is really there.
Heard(subscriptions) == upstream' = IF link = "up" THEN subscriptions ELSE {}

SendUnsubscribe(k) ==
  /\ link \in {"up", "lost"}
  /\ k \in todo.unsubscribe
  /\ todo' = [todo EXCEPT !.unsubscribe = @ \ {k}]
  /\ subscribed' = subscribed \ {k}
  /\ Heard(upstream \ {k})
  /\ UNCHANGED <<stateVars, connVars, link, wire, quotes>>

SendSubscribe(k) ==
  /\ link \in {"up", "lost"}
  /\ todo.unsubscribe = {}
  /\ k \in todo.subscribe
  /\ todo' = [todo EXCEPT !.subscribe = @ \ {k}]
  /\ subscribed' = subscribed \cup {k}
  /\ Heard(upstream \cup {k})
  /\ UNCHANGED <<stateVars, connVars, link, wire, quotes>>

\* _receive_loop: a bar arrives and is pushed, subscribed or not.
Receive ==
  /\ link = "up"
  /\ wire # << >>
  /\ PushCandle(Head(wire))
  /\ wire' = Tail(wire)
  /\ UNCHANGED <<connVars, registryVars, upstream, quotes>>

\* Mutant of Teardown: the subscriptions of the lost connection are kept.
TeardownKeeps ==
  /\ link = "lost"
  /\ link' = "down"
  /\ todo' = NothingToDo
  /\ UNCHANGED <<stateVars, connVars, subscribed, exchangeVars>>

\* run() notices that the connection is gone: both tasks are ended, and the next
\* connection starts with no subscriptions.
Teardown ==
  /\ link = "lost"
  /\ link' = "down"
  /\ todo' = NothingToDo
  /\ subscribed' = {}
  /\ UNCHANGED <<stateVars, connVars, exchangeVars>>

(***************************************************************************)
(* The exchange.                                                           *)
(***************************************************************************)
Quote(k) ==
  /\ link = "up"
  /\ k \in upstream
  /\ quotes < MaxBars
  /\ Len(wire) < MaxWire
  /\ quotes' = quotes + 1
  /\ wire' = Append(wire, k)
  /\ UNCHANGED <<stateVars, connVars, registryVars, upstream>>

\* The connection breaks; the registry has not noticed yet.
Lose ==
  /\ link = "up"
  /\ link' = "lost"
  /\ upstream' = {}
  /\ wire' = << >>
  /\ UNCHANGED <<stateVars, connVars, subscribed, todo, quotes>>

Reconcile ==
  \/ StartReconcile
  \/ \E k \in ValidKeys : SendUnsubscribe(k) \/ SendSubscribe(k)

Next ==
  \/ \E c \in Conns : \/ Unwatch(c) \/ Close(c)
                      \/ \E k \in Keys : Watch(c, k)
                      \/ Poll(c) \/ FinishSend(c)
  \/ Connect \/ Die \/ Reconcile \/ Receive \/ Teardown
  \/ \E k \in ValidKeys : Quote(k)
  \/ Lose

Spec == Init /\ [][Next]_vars

\* Both event loops run, and a send ends, if only by its timeout.  Connections,
\* the exchange's bars and its failures are the environment's.
Fairness ==
  /\ \A c \in Conns : WF_vars(Poll(c)) /\ WF_vars(FinishSend(c) \/ (sending[c] # NoFrame /\ Close(c)))
  /\ WF_vars(Reconcile) /\ WF_vars(Receive) /\ WF_vars(Teardown)

FairSpec == Spec /\ Fairness

(***************************************************************************)
(* Properties.                                                             *)
(***************************************************************************)

Watchers(k) == {c \in Conns : current[c] = k}

\* The count of a key is the number of connections that watch it, whatever
\* switches, disconnects and timeouts they went through.
RefsMatch ==
  \A k \in Keys :
    refs[k] = Cardinality(Watchers(k))

\* No bar is kept for a key nobody watches, although bars keep arriving
\* after the last watcher has left.
NoLeakedBar == \A k \in Keys : last[k] # 0 => refs[k] > 0

\* While the exchange connection is up, the registry knows exactly what it is
\* subscribed to, however the last connection ended.
RegistryKnowsUpstream == link = "up" => subscribed = upstream

\* A bar the send loop will not send again has reached the browser: the frame of
\* another key that was in flight during a switch never hides a bar.
NoSkippedBar ==
  \A c \in Conns :
    (current[c] # NoKey /\ last[current[c]] # 0 /\ lastSeq[c] = last[current[c]])
      => shown[c] = last[current[c]]

\* Once the connection stays up, the exchange's subscriptions become and stay
\* those that are watched.
SubscriptionsFollow ==
  \A k \in ValidKeys :
    /\ <>[](link = "up" /\ refs[k] > 0) => <>[](k \in upstream)
    /\ <>[](link = "up" /\ refs[k] = 0) => <>[](k \notin upstream)

\* A bar in the shared state reaches everybody who keeps watching its key.
WatchedBarArrives ==
  \A c \in Conns, k \in Keys :
    (current[c] = k /\ last[k] # 0) ~> (current[c] # k \/ shown[c] = last[k])
=============================================================================
