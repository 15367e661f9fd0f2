------------------------------- MODULE Streams -------------------------------
(***************************************************************************)
(* The life of the monitoring thread: BackgroundRunner starts and stops    *)
(* it, Orchestrator.run() keeps its loops, two supervisors keep the trade  *)
(* and asset-context streams aligned with the coin universe, and one loop  *)
(* streams the positions of the tracked whales.                            *)
(*                                                                         *)
(* The lifespan thread (stopper) and the event-loop thread interleave at   *)
(* every shared read and write; inside the event loop an action is a       *)
(* stretch of code between two awaits.  Sleeps have no length.  The coins  *)
(* of a batch matter, not its messages.  The supervisors share nothing but *)
(* the coins and the flag, so a behaviour follows one of them.             *)
(* StreamFaults bounds connection failures, exceptions, partial answers    *)
(* and changes of the listing, MaxWhales the whales found.                 *)
(***************************************************************************)
EXTENDS Naturals, Sequences, FiniteSets, Functions, Filters

CONSTANTS
    AllCoins,       \* every coin the exchange may list, in its order
    NativeCoins,
    MaxConnections, \* _MAX_TRADE_WS_CONNECTIONS
    MaxWhales,
    StreamFaults

ASSUME StreamsAssumption ==
    /\ AllCoins \in Seq(Range(AllCoins)) /\ NativeCoins \subseteq Range(AllCoins)
    /\ \A i, j \in DOMAIN AllCoins : AllCoins[i] = AllCoins[j] => i = j
    /\ MaxConnections \in Nat \ {0} /\ {MaxWhales, StreamFaults} \subseteq Nat

VARIABLES
    stopper,   \* where the lifespan thread is in BackgroundRunner.stop
    main,      \* where the background thread is in _run_forever
    canceling, \* a _cancel_all_tasks is scheduled on the loop
    running,   \* Orchestrator._running
    listed,    \* external: the coins the exchange lists
    coins,     \* _coins
    sup,       \* per supervisor: [at, goal, active, tasks]
    position,  \* the position-stream loop: [at, users]
    whales,    \* table tracked_addresses, as a count
    streamFaults

threads == <<stopper, main, canceling, running>>
streamsVars == <<threads, listed, coins, sup, position, whales, streamFaults>>

Supervisor == DOMAIN sup
Unborn == [at |-> "none", goal |-> <<>>, active |-> <<>>, tasks |-> <<>>]

StreamsInit ==
    /\ stopper = "up" /\ main = "spawned" /\ canceling = FALSE
    /\ running = FALSE
    /\ listed = Range(AllCoins) /\ coins = {}
    /\ \E s \in {"trades", "ctx"} : sup = [t \in {s} |-> Unborn]
    /\ position = [at |-> "none", users |-> 0]
    /\ whales = 0
    /\ streamFaults = 0

Fault == streamFaults < StreamFaults /\ streamFaults' = streamFaults + 1

-----------------------------------------------------------------------------
(* What a supervisor wants: the coins split over the allowed connections, or
   one batch of the native coins.                                          *)
Batches(s) ==
    LET list == Filter(AllCoins, IF s = "trades" THEN coins ELSE coins \intersect NativeCoins)
        conns == IF s = "ctx" \/ Len(list) = 0 THEN 1
                 ELSE IF Len(list) < MaxConnections THEN Len(list) ELSE MaxConnections
        size == (Len(list) + conns - 1) \div conns
        count == IF size = 0 THEN 0 ELSE (Len(list) + size - 1) \div size
        last(i) == IF i * size < Len(list) THEN i * size ELSE Len(list)
    IN  [i \in 1..count |-> Range(SubSeq(list, (i - 1) * size + 1, last(i)))]

Done(tasks) == \A i \in DOMAIN tasks : tasks[i].at = "done"
Cancel(tasks) == [i \in DOMAIN tasks |-> IF tasks[i].at = "done" THEN tasks[i]
                                         ELSE [tasks[i] EXCEPT !.at = "closing"]]
Created(batches) == [i \in DOMAIN batches |-> [coins |-> batches[i], at |-> "connecting"]]
Failed(s) == \E i \in DOMAIN sup[s].tasks : sup[s].tasks[i].at = "done"

(* A wake-up of the supervisor: a task that ended takes the others with it,
   and so does a new universe; then their ends are awaited.                *)
Reconcile(s) ==
    /\ sup[s].at = "idle" /\ running
    /\ Failed(s) \/ Batches(s) # sup[s].active
    /\ sup' = [sup EXCEPT ![s] =
                 [at |-> IF Failed(s) THEN "restart" ELSE "replace", goal |-> Batches(s),
                  active |-> @.active, tasks |-> Cancel(@.tasks)]]
    /\ UNCHANGED <<threads, listed, coins, position, whales, streamFaults>>

\* Mutant of Recreate: the ends of the cancelled tasks are not awaited.
RecreateAtOnce(s) ==
    /\ sup[s].at \in {"restart", "replace"}
    /\ LET goal == IF sup[s].at = "restart" THEN Batches(s) ELSE sup[s].goal
           left == Filter(sup[s].tasks, {t \in Range(sup[s].tasks) : t.at # "done"})
       IN  sup' = [sup EXCEPT ![s] = [at |-> "idle", goal |-> <<>>, active |-> goal,
                                      tasks |-> left \o Created(goal)]]
    /\ UNCHANGED <<threads, listed, coins, position, whales, streamFaults>>

\* Mutant of Recreate: after a failure active_batches is not reset.
RecreateRemembers(s) ==
    /\ sup[s].at \in {"restart", "replace"} /\ Done(sup[s].tasks)
    /\ LET goal == IF sup[s].at = "restart" THEN Batches(s) ELSE sup[s].goal
           new == IF goal = sup[s].active THEN <<>> ELSE Created(goal)
       IN  sup' = [sup EXCEPT ![s] = [at |-> "idle", goal |-> <<>>, active |-> goal,
                                      tasks |-> new]]
    /\ UNCHANGED <<threads, listed, coins, position, whales, streamFaults>>

(* After a failure the universe is looked at again; a replacement uses the
   batches computed before the await, and the next wake-up corrects it.    *)
Recreate(s) ==
    /\ sup[s].at \in {"restart", "replace"} /\ Done(sup[s].tasks)
    /\ LET goal == IF sup[s].at = "restart" THEN Batches(s) ELSE sup[s].goal
       IN  sup' = [sup EXCEPT ![s] = [at |-> "idle", goal |-> <<>>, active |-> goal,
                                      tasks |-> Created(goal)]]
    /\ UNCHANGED <<threads, listed, coins, position, whales, streamFaults>>

(* A stream task: the generator connects, subscribes, and after a disconnect
   waits and connects again by itself.                                     *)
Task(s, i, from, to) ==
    /\ i \in DOMAIN sup[s].tasks /\ sup[s].tasks[i].at \in from
    /\ sup' = [sup EXCEPT ![s].tasks[i].at = to]
    /\ UNCHANGED <<threads, listed, coins, position, whales>>

Connected(s, i) == Task(s, i, {"connecting"}, "open") /\ UNCHANGED streamFaults
Disconnected(s, i) == Task(s, i, {"connecting", "open"}, "backoff") /\ Fault
Reconnects(s, i) == Task(s, i, {"backoff"}, "connecting") /\ UNCHANGED streamFaults
Closed(s, i) == Task(s, i, {"closing"}, "done") /\ UNCHANGED streamFaults

(* An exception outside DISCONNECT_ERRORS ends the task, and so does a message
   once _running is down.                                                  *)
Raises(s, i) == Task(s, i, {"connecting", "open"}, "done") /\ Fault
Breaks(s, i) == ~running /\ Task(s, i, {"open"}, "done") /\ UNCHANGED streamFaults

-----------------------------------------------------------------------------
(* refresh_coins_loop: what the dexes that answered list. *)
RefreshCoins ==
    /\ main = "running" /\ running
    /\ \/ coins' = listed /\ UNCHANGED streamFaults
       \/ Fault /\ coins' \in (SUBSET listed) \ {listed}
    /\ UNCHANGED <<threads, listed, sup, position, whales>>

ListingChanges ==
    /\ Fault /\ listed' \in (SUBSET Range(AllCoins)) \ {listed}
    /\ UNCHANGED <<threads, coins, sup, position, whales>>

WhaleFound ==
    /\ whales < MaxWhales /\ whales' = whales + 1
    /\ UNCHANGED <<threads, listed, coins, sup, position, streamFaults>>

Position(from, to, users) ==
    /\ position.at \in from
    /\ position' = [at |-> to, users |-> users]
    /\ UNCHANGED <<listed, coins, sup, whales>>

(* The table is read once per generator; no whales, or no read: sleep. *)
PositionReads ==
    /\ running /\ whales > 0
    /\ Position({"read"}, "connecting", whales)
    /\ UNCHANGED <<threads, streamFaults>>

PositionConnected ==
    /\ Position({"connecting"}, "open", position.users)
    /\ UNCHANGED <<threads, streamFaults>>

PositionDisconnected ==
    /\ Fault /\ Position({"connecting", "open"}, "connecting", position.users)
    /\ UNCHANGED threads

PositionRaises ==
    /\ Fault /\ Position({"connecting", "open"}, "read", 0)
    /\ UNCHANGED threads

PositionStops ==
    /\ ~running /\ Position({"read", "open"}, "ended", 0)
    /\ UNCHANGED <<threads, streamFaults>>

-----------------------------------------------------------------------------
Main(from, to) ==
    /\ main = from /\ main' = to
    /\ UNCHANGED <<stopper, canceling, listed, whales>>

LoopCreated ==
    /\ Main("spawned", "wiring")
    /\ UNCHANGED <<running, coins, sup, position, streamFaults>>

Wired ==
    /\ Main("wiring", "built")
    /\ UNCHANGED <<running, coins, sup, position, streamFaults>>

WiringFails ==
    /\ Main("wiring", "dead") /\ Fault
    /\ UNCHANGED <<running, coins, sup, position>>

RunBegins ==
    /\ Main("built", "refresh") /\ running' = TRUE
    /\ UNCHANGED <<coins, sup, position, streamFaults>>

RunCreatesTasks ==
    /\ Main("refresh", "running")
    /\ coins' = listed
    /\ sup' = [s \in Supervisor |-> [Unborn EXCEPT !.at = "idle"]]
    /\ position' = [position EXCEPT !.at = "read"]
    /\ UNCHANGED <<running, streamFaults>>

(* The first refresh is not retried and not caught. *)
FirstRefreshFails ==
    /\ Main("refresh", "closing") /\ Fault
    /\ UNCHANGED <<running, coins, sup, position>>

\* Mutant of CancelTasks: a supervisor awaits its tasks without cancelling them.
CancelOnlyAwaits ==
    /\ sup' = [s \in Supervisor |->
                 IF sup[s].at \in {"none", "ended"} THEN sup[s]
                 ELSE [sup[s] EXCEPT !.at = "unwind"]]
    /\ position' = IF position.at = "ended" THEN position
                   ELSE [at |-> "closing", users |-> 0]

(* The tasks of run() are cancelled: each supervisor cancels its own and
   awaits them, the position stream closes its connection.                 *)
CancelTasks ==
    /\ sup' = [s \in Supervisor |->
                 IF sup[s].at \in {"none", "ended"} THEN sup[s]
                 ELSE [sup[s] EXCEPT !.at = "unwind", !.tasks = Cancel(@)]]
    /\ position' = IF position.at = "ended" THEN position
                   ELSE [at |-> "closing", users |-> 0]

(* An exception no loop catches leaves gather(): the finally of run(). *)
LoopCrashes ==
    /\ Main("running", "unwinding") /\ Fault
    /\ running' = FALSE /\ CancelTasks
    /\ UNCHANGED coins

(* _running is down and a supervisor wakes up: its own finally. *)
SupervisorStops(s) ==
    /\ sup[s].at = "idle" /\ ~running
    /\ sup' = [sup EXCEPT ![s].at = "unwind", ![s].tasks = Cancel(@)]
    /\ UNCHANGED <<threads, listed, coins, position, whales, streamFaults>>

SupervisorEnds(s) ==
    /\ sup[s].at = "unwind" /\ Done(sup[s].tasks)
    /\ sup' = [sup EXCEPT ![s].at = "ended"]
    /\ UNCHANGED <<threads, listed, coins, position, whales, streamFaults>>

PositionCloses ==
    /\ Position({"closing"}, "ended", 0)
    /\ UNCHANGED <<threads, streamFaults>>

\* Mutant of RunEnds: the tasks are cancelled but not awaited.
RunEndsAtOnce ==
    /\ Main("unwinding", "closing")
    /\ running' = FALSE
    /\ UNCHANGED <<coins, sup, position, streamFaults>>

(* gather() returns, or the finally has awaited every task. *)
RunEnds ==
    /\ \/ Main("unwinding", "closing")
       \/ Main("running", "closing") /\ ~running
    /\ position.at = "ended" /\ \A s \in Supervisor : sup[s].at = "ended"
    /\ running' = FALSE
    /\ UNCHANGED <<coins, sup, position, streamFaults>>

StorageClosed ==
    /\ Main("closing", "dead")
    /\ UNCHANGED <<running, coins, sup, position, streamFaults>>

(* _cancel_all_tasks on the loop: the CancelledError reaches the await the
   main task is at, and every other task.  It leaves gather() with the first
   task that ends; the finally of run() takes _running down and awaits all.  *)
CancelAllTasks ==
    /\ canceling /\ main \notin {"spawned", "built", "dead"}
    /\ canceling' = FALSE
    /\ main' = CASE main \in {"wiring", "closing"} -> "dead"
                 [] main = "refresh" -> "closing"
                 [] OTHER -> "unwinding"
    /\ running' = (running /\ main # "running")
    /\ IF main \in {"running", "unwinding"} THEN CancelTasks ELSE UNCHANGED <<sup, position>>
    /\ UNCHANGED <<stopper, listed, coins, whales, streamFaults>>

-----------------------------------------------------------------------------
Stopper(from, to) ==
    /\ stopper = from /\ stopper' = to
    /\ UNCHANGED <<main, listed, coins, sup, position, whales, streamFaults>>

StopFlag ==
    /\ Stopper("up", "flagged")
    /\ running' = IF main \in {"spawned", "wiring"} THEN running ELSE FALSE
    /\ UNCHANGED canceling

(* stop() looks whether there is a loop, and then uses it. *)
StopLooks ==
    /\ Stopper("flagged", IF main \in {"spawned", "dead"} THEN "join" ELSE "use")
    /\ UNCHANGED <<running, canceling>>

StopCancels ==
    /\ Stopper("use", IF main = "dead" THEN "raised" ELSE "join")
    /\ canceling' = (main # "dead")
    /\ UNCHANGED running

(* join() returns when the thread ends or after five seconds. *)
StopJoins ==
    /\ Stopper("join", "down")
    /\ UNCHANGED <<running, canceling>>

Loops ==
    \/ \E s \in Supervisor : Reconcile(s) \/ Recreate(s) \/ SupervisorStops(s) \/ SupervisorEnds(s)
    \/ PositionReads \/ PositionConnected \/ PositionStops \/ PositionCloses

Streaming(s, i) == Connected(s, i) \/ Reconnects(s, i) \/ Closed(s, i)
Failing(s, i) == Disconnected(s, i) \/ Raises(s, i) \/ Breaks(s, i)
Tasks(s) == DOMAIN sup[s].tasks

MainMoves ==
    \/ LoopCreated \/ Wired \/ RunBegins \/ RunCreatesTasks \/ RunEnds
    \/ StorageClosed \/ CancelAllTasks

MainFails == WiringFails \/ FirstRefreshFails \/ LoopCrashes
Stops == StopFlag \/ StopLooks \/ StopCancels \/ StopJoins

StreamsNext ==
    \/ Loops \/ RefreshCoins \/ ListingChanges \/ WhaleFound
    \/ \E s \in Supervisor : \E i \in Tasks(s) : Streaming(s, i) \/ Failing(s, i)
    \/ PositionDisconnected \/ PositionRaises
    \/ MainMoves \/ MainFails \/ Stops

(* The event loop runs every ready task and every timer, a connection attempt
   or a close ends, and a begun stop() goes on; failures, listings and the
   call of stop() are not promised.                                        *)
StreamsFairness ==
    /\ WF_streamsVars(MainMoves) /\ WF_streamsVars(RefreshCoins)
    /\ WF_streamsVars(\E s \in Supervisor : \E i \in Tasks(s) : Streaming(s, i))
    /\ WF_streamsVars(Loops) /\ WF_streamsVars(Stops /\ stopper # "up")

StreamsSpec == StreamsInit /\ [][StreamsNext]_streamsVars /\ StreamsFairness

-----------------------------------------------------------------------------
Live(s) == {i \in DOMAIN sup[s].tasks : sup[s].tasks[i].at # "done"}

(* No coin is subscribed to by two tasks of a supervisor at once, also while
   the universe changes or a failed task takes its siblings down: engines
   and storage see each trade once (orchestrator.py:383-418).              *)
OneStreamPerCoin ==
    \A s \in Supervisor : \A i, j \in Live(s) :
        i # j => sup[s].tasks[i].coins \intersect sup[s].tasks[j].coins = {}

(* The database is closed after the last stream task has ended, whether
   run() ends by a crash, by the flag or by cancellation, or by a cancellation
   in the middle of another one (orchestrator.py:154-161, 343-350).        *)
StorageOutlivesTasks ==
    main \in {"closing", "dead"} =>
        /\ \A s \in Supervisor : Live(s) = {} /\ sup[s].at \in {"none", "ended"}
        /\ position.at \in {"none", "ended"}

(* When failures and changes cease and nobody stops the thread, every listed
   coin ends up streamed and nothing else is (orchestrator.py:383-447).    *)
StreamsFollowListing ==
    <>[](main = "running" /\ running) =>
        <>[](\A s \in Supervisor :
                UNION {sup[s].tasks[i].coins : i \in {j \in Live(s) : sup[s].tasks[j].at = "open"}}
                    = IF s = "trades" THEN listed ELSE listed \intersect NativeCoins)

(* A cancellation that reached the loop ends the thread (runner.py:49-64). *)
CancelEnds == canceling ~> main = "dead"

(* What the docstring of _position_stream_loop says: when an open connection
   is lost, the next one serves the whales that are then in the table.     *)
PositionsFollowTable ==
    [][position.at = "open" /\ position'.at = "connecting"
            => position'.users = whales]_streamsVars
=============================================================================
