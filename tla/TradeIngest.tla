----------------------------- MODULE TradeIngest -----------------------------
(***************************************************************************)
(* How trades reach the database (src/src/hypersussy/orchestrator.py):     *)
(* up to seven _trade_stream_batch tasks hand every trade of their         *)
(* WebSocket to _dispatch_trade, which appends it to one shared deque and, *)
(* outside a storage backoff window, writes a snapshot of the whole deque  *)
(* with _flush_trade_buffer.  The write is the pipeline of SqliteWrites,   *)
(* shared with the other coroutines that write (pollers, engines, alerts). *)
(*                                                                         *)
(* Time is abstracted: the window a failure opens, min(30, 2^(n-1)) s      *)
(* after the n-th failure in a row, is open or has elapsed.                *)
(***************************************************************************)
EXTENDS SqliteWrites

CONSTANTS
  Streams,    \* the trade stream tasks
  Trades,     \* trades the exchange sends, each once
  BufferCap   \* maxlen of _trade_buffer: 50_000 in the code

ASSUME StreamsAssumption == Streams \subseteq Writers
ASSUME TradesAssumption  == Trades \subseteq Effects
ASSUME CapAssumption     == BufferCap \in Nat \ {0}

VARIABLES
  buffer,     \* _trade_buffer
  backoff,    \* is time.monotonic() < _trade_storage_backoff_until?
  received,   \* history: trades handed to _dispatch_trade
  events      \* history: what happened so far that a lost trade can be due to

ingestVars == <<buffer, backoff, received, events>>
vars       == <<writeVars, ingestVars>>

\* fault:    insert_trades raised
\* cancel:   a stream task was cancelled in the middle of a flush
\* overlap:  a trade was buffered while another task was in a flush
\* overflow: the full deque dropped a trade
\* crash:    the process died
Events == {"fault", "cancel", "overlap", "overflow", "crash"}

IngestTypeOK ==
  /\ TypeOK
  /\ buffer \in Seq(Trades)
  /\ backoff \in BOOLEAN
  /\ received \subseteq Trades
  /\ events \subseteq Events

IngestInit ==
  /\ Init
  /\ buffer = << >>
  /\ backoff = FALSE
  /\ received = {}
  /\ events = {}

\* deque(maxlen=...).append: a full deque drops its oldest element.
Pushed(t) ==
  IF Len(buffer) < BufferCap THEN Append(buffer, t)
                             ELSE Append(Tail(buffer), t)

\* Mutant of DispatchTrade: the snapshot is taken before the trade is appended.
DispatchSnapshotFirst(s, t) ==
  /\ t \notin received
  /\ pc[s] = "idle"
  /\ buffer' = Pushed(t)
  /\ received' = received \cup {t}
  /\ events' = events
       \cup (IF Len(buffer) < BufferCap THEN {} ELSE {"overflow"})
       \cup (IF \A r \in Streams : pc[r] = "idle" THEN {} ELSE {"overlap"})
  /\ IF backoff THEN UNCHANGED writeVars
                ELSE Enqueue(s, ToSet(buffer))
  /\ UNCHANGED backoff

\* _dispatch_trade up to its first await: the trade is buffered and, outside a
\* backoff window, a snapshot of the whole buffer is on its way to storage.
DispatchTrade(s, t) ==
  /\ t \notin received
  /\ pc[s] = "idle"
  /\ buffer' = Pushed(t)
  /\ received' = received \cup {t}
  /\ events' = events
       \cup (IF Len(buffer) < BufferCap THEN {} ELSE {"overflow"})
       \cup (IF \A r \in Streams : pc[r] = "idle" THEN {} ELSE {"overlap"})
  /\ IF backoff THEN UNCHANGED writeVars
                ELSE Enqueue(s, ToSet(buffer'))
  /\ UNCHANGED backoff

\* _flush_trade_buffer after a successful insert_trades: the buffer is emptied,
\* whatever it holds by now, and the backoff ends.
FlushDone(s) ==
  /\ Return(s)
  /\ buffer' = << >>
  /\ backoff' = FALSE
  /\ UNCHANGED <<received, events>>

\* Mutant of FlushFailed: the buffer is cleared on failure too.
FlushFailedClears(s) ==
  /\ Raise(s)
  /\ backoff' = TRUE
  /\ buffer' = << >>
  /\ events' = events \cup {"fault"}
  /\ UNCHANGED received

\* _flush_trade_buffer after insert_trades raised: the buffer is kept and a
\* backoff window opens.
FlushFailed(s) ==
  /\ Raise(s)
  /\ backoff' = TRUE
  /\ events' = events \cup {"fault"}
  /\ UNCHANGED <<buffer, received>>

\* The supervisor cancels a stream task in the middle of a flush.
FlushCancelled(s) ==
  /\ Cancel(s)
  /\ events' = events \cup {"cancel"}
  /\ UNCHANGED <<buffer, backoff, received>>

BackoffElapses ==
  /\ backoff
  /\ backoff' = FALSE
  /\ UNCHANGED <<writeVars, buffer, received, events>>

\* The steps of a flush, or of another write, that touch only the pipeline.
PipelineStep(w) ==
  /\ Acquire(w) \/ Execute(w) \/ Retry(w) \/ Commit(w)
  /\ UNCHANGED ingestVars

ConnectionStep == Thread /\ UNCHANGED ingestVars

\* Every other coroutine that writes through the same storage; what it changes
\* is not a trade.
OtherWrite(w) ==
  /\ \/ \E effects \in SUBSET (Effects \ Trades) : Enqueue(w, effects)
     \/ Return(w)
     \/ Raise(w)
     \/ Cancel(w)
  /\ UNCHANGED ingestVars

\* The process dies: the deque is gone, the database file is not.
IngestCrash ==
  /\ "crash" \notin events   \* bound: one crash, after it every gap is excused
  /\ Crash
  /\ buffer' = << >>
  /\ backoff' = FALSE
  /\ events' = events \cup {"crash"}
  /\ UNCHANGED received

IngestNext ==
  \/ \E s \in Streams, t \in Trades : DispatchTrade(s, t)
  \/ \E s \in Streams : FlushDone(s) \/ FlushFailed(s) \/ FlushCancelled(s)
  \/ BackoffElapses
  \/ \E w \in Writers : PipelineStep(w)
  \/ \E w \in Writers \ Streams : OtherWrite(w)
  \/ ConnectionStep
  \/ IngestCrash

IngestSpec == IngestInit /\ [][IngestNext]_vars

\* Tasks and the connection thread run, backoff windows elapse; the exchange,
\* cancellations and crashes are the environment's.
IngestFairness ==
  /\ \A w \in Writers : WF_vars(PipelineStep(w))
  /\ \A s \in Streams : WF_vars(FlushDone(s) \/ FlushFailed(s))
  /\ \A w \in Writers \ Streams : WF_vars((Return(w) \/ Raise(w)) /\ UNCHANGED ingestVars)
  /\ WF_vars(ConnectionStep)
  /\ WF_vars(BackoffElapses)

IngestFairSpec == IngestSpec /\ IngestFairness

(***************************************************************************)
(* Properties.                                                             *)
(***************************************************************************)
InFlight == UNION {batch[s] : s \in Streams}

\* Trades that are neither stored, nor buffered, nor in a running flush: no task
\* will write them again.
Gaps == received \ (db \cup ToSet(buffer) \cup InFlight)

\* While no flush has failed or been cancelled, no trade is lost however the
\* flushes of the stream tasks interleave: the buffer.clear() of one task may
\* drop a trade only while another task is still writing it.
NoGapWithoutFault == events \subseteq {"overlap"} => Gaps = {}

\* Failed and cancelled flushes alone lose nothing either: as long as no trade
\* arrives during another task's flush (one trade connection, for instance),
\* the buffer keeps every trade until a commit covers it.
NoGapWithoutOverlap == events \subseteq {"fault", "cancel"} => Gaps = {}

\* As long as no flush failed, a received trade is eventually stored: a locked
\* database delays it but, within the retries, costs nothing.
StoredUnlessFault ==
  \A t \in Trades :
    t \in received ~> (t \in db \/ ~(events \subseteq {"overlap"}))

\* What _dispatch_trade's docstring promises (orchestrator.py:522-524): trades
\* that meet a transient storage problem are buffered and flushed by a later
\* write, so failed writes leave no permanent gap.
NoPermanentGap == events \subseteq {"fault", "overlap"} => Gaps = {}
=============================================================================
