------------------------------- MODULE LiveFeed -------------------------------
(***************************************************************************)
(* The slow tick of a /ws/live connection (_send_loop and _push_full in    *)
(* api/ws.py): health if it changed, all snapshots if they changed, and    *)
(* the alerts not sent yet, each frame awaited.  Meanwhile the runner      *)
(* thread stores snapshots and alerts in SharedState (app/state.py).       *)
(*                                                                         *)
(* Connections only read the shared state, so one is modelled, with its    *)
(* reconnections.  Alerts are numbered in the order of push_alert; what a  *)
(* snapshot says is its revision.                                          *)
(***************************************************************************)
EXTENDS Integers, SequencesExt, Filters

CONSTANTS
  Coins,
  DequeCap,      \* maxlen of SharedState._alerts: 500 in the code
  Limit,         \* alerts read by one push: 50 in the code
  SeenCap,       \* _SEEN_ALERT_IDS_MAX: 500 in the code
  MaxAlerts,     \* bound: alerts the runner stores
  MaxRevisions   \* bound: snapshots the runner stores

\* A push remembers its alerts newest first, so that the ids remembered stay
\* ahead of the alerts read only with room for almost two full reads.
ASSUME SeenAssumption ==
  /\ {DequeCap, Limit, SeenCap} \subseteq Nat \ {0}
  /\ Limit <= DequeCap
  /\ SeenCap >= 2 * Limit - 1
ASSUME LiveBoundsAssumption == {MaxAlerts, MaxRevisions} \subseteq Nat

VARIABLES
  \* SharedState, written by the runner thread
  alerts,      \* _alerts, oldest first
  snapshots,   \* _snapshots: coin -> revision, 0 for a missing coin
  snapshotMs,  \* _last_snapshot_ms, 0 for None
  alertMs,     \* _last_alert_ms: the number of the last alert, 0 for None
  running,     \* _running
  \* _send_loop
  pc,          \* "off", or where the connection's send loop is
  health,      \* the health read by the push under way
  signature,   \* last_health_signature
  sentMs,      \* last_snapshot_ms, -1 at first
  frame,       \* the snapshots being sent
  outbox,      \* alerts of this push still to be sent, oldest first
  batch,       \* new_alerts of this push, newest first
  seen,        \* seen_alert_order; seen_alert_ids is its range
  \* history: what the browser got on this connection
  gotHealth, gotSnapshots, gotAlerts,
  read,        \* the newest alert when the alerts were last read
  overrun,     \* alerts that Limit newer ones hid from every read
  raced        \* since the last frame was read, a snapshot was stored during a
               \* push or under the time that was sent last

stateVars == <<alerts, snapshots, snapshotMs, alertMs, running>>
loopVars  == <<pc, health, signature, sentMs, frame, outbox, batch, seen>>
gotVars   == <<gotHealth, gotSnapshots, gotAlerts>>
markVars  == <<read, overrun, raced>>
vars == <<stateVars, loopVars, gotVars, markVars>>

Ids       == 1..MaxAlerts
Revisions == 0..MaxRevisions
NoHealth  == <<FALSE, -1, -1>>
Health    == <<running, snapshotMs, alertMs>>

NoSnapshots == [c \in Coins |-> 0]

Init ==
  /\ alerts = << >> /\ snapshots = NoSnapshots
  /\ snapshotMs = 0 /\ alertMs = 0 /\ running = FALSE
  /\ pc = "off" /\ health = NoHealth /\ signature = NoHealth /\ sentMs = -1
  /\ frame = NoSnapshots /\ outbox = << >> /\ batch = << >> /\ seen = << >>
  /\ gotHealth = NoHealth /\ gotSnapshots = NoSnapshots /\ gotAlerts = << >>
  /\ read = 0 /\ overrun = {} /\ raced = FALSE

(***************************************************************************)
(* The runner thread.                                                      *)
(***************************************************************************)
\* push_snapshot: a poll stores one coin after the other under the time of its
\* fetch, while streamed snapshots carry later ones, so the time of a snapshot
\* may be any so far.
PushSnapshot(c) ==
  LET revision == 1 + Max({snapshots[d] : d \in Coins})
  IN /\ revision \in Revisions
     /\ snapshots' = [snapshots EXCEPT ![c] = revision]
     /\ \E ms \in 1..revision :
          /\ snapshotMs' = ms
          /\ raced' = (raced \/ pc # "wait" \/ ms = sentMs)
     /\ UNCHANGED <<alerts, alertMs, running, loopVars, gotVars, read, overrun>>

\* push_alert: the full deque drops its oldest alert.
PushAlert ==
  /\ alertMs < MaxAlerts
  /\ alertMs' = alertMs + 1
  /\ alerts' = Append(IF Len(alerts) < DequeCap THEN alerts ELSE Tail(alerts), alertMs')
  /\ UNCHANGED <<snapshots, snapshotMs, running, loopVars, gotVars, markVars>>

\* set_running, and in the same way any other change of the health.
SetRunning ==
  /\ running' = ~running
  /\ UNCHANGED <<alerts, snapshots, snapshotMs, alertMs, loopVars, gotVars, markVars>>

(***************************************************************************)
(* The connection.                                                         *)
(***************************************************************************)

\* ws_live accepts; whatever was stored before is not a loss of this connection.
Connect ==
  /\ pc = "off"
  /\ pc' = "wait"
  /\ read' = Max({0, alertMs - Limit})
  /\ overrun' = 1..read'
  /\ raced' = FALSE
  /\ UNCHANGED <<stateVars, health, signature, sentMs, frame, outbox, batch, seen,
                 gotVars>>

\* The browser leaves or a send times out, at any await.
Disconnect ==
  /\ pc # "off"
  /\ pc' = "off"
  /\ health' = NoHealth /\ signature' = NoHealth /\ sentMs' = -1
  /\ frame' = NoSnapshots /\ outbox' = << >> /\ batch' = << >> /\ seen' = << >>
  /\ gotHealth' = NoHealth /\ gotSnapshots' = NoSnapshots /\ gotAlerts' = << >>
  /\ read' = 0 /\ overrun' = {} /\ raced' = FALSE
  /\ UNCHANGED stateVars

\* SharedState.get_recent_alerts: newest first.
Recent == Reverse(SubSeq(alerts, Max({1, Len(alerts) - Limit + 1}), Len(alerts)))

\* _select_unsent_alerts
Unsent == Filter(Recent, ToSet(Recent) \ ToSet(seen))

\* Mutant of Remember: one id too few is kept.
RememberOneLess(sent) ==
  LET order == seen \o sent
  IN SubSeq(order, Max({1, Len(order) - SeenCap + 2}), Len(order))

\* Mutant of Remember: what is in the feed by now is taken for sent.
RememberRecent(sent) ==
  LET order == seen \o Unsent
  IN SubSeq(order, Max({1, Len(order) - SeenCap + 1}), Len(order))

\* _remember_sent_alerts: the ids of the push are appended newest first, as
\* _push_full has them, and the oldest entries above the cap are forgotten.
Remember(sent) ==
  LET order == seen \o sent
  IN SubSeq(order, Max({1, Len(order) - SeenCap + 1}), Len(order))

\* Back in _send_loop: the signature is the one of the push, but the snapshot
\* time is read once more.
EndPush ==
  /\ pc' = "wait"
  /\ signature' = health'
  /\ sentMs' = IF snapshotMs = 0 THEN sentMs ELSE snapshotMs

\* The rest of _push_full from the alerts on, up to the next await.
AlertsStage ==
  /\ read' = alertMs
  /\ overrun' = overrun \cup {a \in Ids : read < a /\ a + Limit <= alertMs}
  /\ batch' = Unsent
  /\ outbox' = Reverse(Unsent)
  /\ IF Unsent = << >> THEN EndPush
                       ELSE pc' = "alerts" /\ UNCHANGED <<signature, sentMs>>

\* Mutant of SnapshotsStage: only a later time counts as a change.
SnapshotsStageLater ==
  IF health'[2] > 0 /\ health'[2] > sentMs
    THEN /\ pc' = "snapshots"
         /\ frame' = snapshots
         /\ raced' = FALSE
         /\ UNCHANGED <<signature, sentMs, outbox, batch, read, overrun>>
    ELSE AlertsStage /\ UNCHANGED <<frame, raced>>

\* The rest of _push_full from the snapshots on, up to the next await.
SnapshotsStage ==
  IF health'[2] \notin {0, sentMs}
    THEN /\ pc' = "snapshots"
         /\ frame' = snapshots
         /\ raced' = FALSE
         /\ UNCHANGED <<signature, sentMs, outbox, batch, read, overrun>>
    ELSE AlertsStage /\ UNCHANGED <<frame, raced>>

\* _push_full reads the health and sends it if it is not what was sent last.
StartPush ==
  /\ pc = "wait"
  /\ health' = Health
  /\ IF health' # signature
       THEN /\ pc' = "health"
            /\ UNCHANGED <<signature, sentMs, frame, outbox, batch, markVars>>
       ELSE SnapshotsStage
  /\ UNCHANGED <<stateVars, seen, gotVars>>

HealthSent ==
  /\ pc = "health"
  /\ gotHealth' = health
  /\ UNCHANGED health
  /\ SnapshotsStage
  /\ UNCHANGED <<stateVars, seen, gotSnapshots, gotAlerts>>

SnapshotsSent ==
  /\ pc = "snapshots"
  /\ gotSnapshots' = frame
  /\ UNCHANGED <<health, frame, raced>>
  /\ AlertsStage
  /\ UNCHANGED <<stateVars, seen, gotHealth, gotAlerts>>

\* One alert reached the browser; after the last one the push is remembered.
AlertSent ==
  /\ pc = "alerts"
  /\ gotAlerts' = Append(gotAlerts, Head(outbox))
  /\ outbox' = Tail(outbox)
  /\ UNCHANGED health
  /\ IF Len(outbox) > 1
       THEN UNCHANGED <<pc, signature, sentMs, seen, batch>>
       ELSE EndPush /\ seen' = Remember(batch) /\ batch' = << >>
  /\ UNCHANGED <<stateVars, frame, gotHealth, gotSnapshots, markVars>>

Push == StartPush \/ HealthSent \/ SnapshotsSent \/ AlertSent

Next ==
  \/ \E c \in Coins : PushSnapshot(c)
  \/ PushAlert \/ SetRunning
  \/ Connect \/ Disconnect
  \/ Push

Spec == Init /\ [][Next]_vars

\* The API's event loop runs and a send ends, if only by its timeout.
Fairness == WF_vars(Push)

FairSpec == Spec /\ Fairness

(***************************************************************************)
(* Properties.                                                             *)
(***************************************************************************)

\* A connection gets no alert twice, and gets its alerts in the order in which
\* they were raised, although ids are forgotten and frames are interleaved with
\* new alerts.
AlertsInOrder ==
  \A i, j \in DOMAIN gotAlerts : i < j => gotAlerts[i] < gotAlerts[j]

\* The browser shows the stored snapshots when the connection believes it does,
\* unless one was stored during a push or under the time of the last one sent.
SnapshotsShownUnlessRaced ==
  (pc = "wait" /\ sentMs = snapshotMs /\ ~raced) => gotSnapshots = snapshots

\* Once no more alerts are raised (every behaviour ends so, see MaxAlerts), a
\* browser that stays connected has all of them but the overrun ones.
AlertsArrive ==
  <>[](pc # "off") => <>[](ToSet(gotAlerts) \cup overrun = 1..alertMs)

=============================================================================
