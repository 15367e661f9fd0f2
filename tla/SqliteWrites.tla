---------------------------- MODULE SqliteWrites ----------------------------
(***************************************************************************)
(* The write path of SqliteStorage (src/src/hypersussy/storage/sqlite.py): *)
(* every INSERT, UPDATE and DELETE of the asyncio loop goes through        *)
(* _write_under_lock, which takes a FIFO asyncio.Lock, runs the statement  *)
(* with a bounded retry on "database is locked", and commits.              *)
(*                                                                         *)
(* Statements and commits are executed by the single thread of the         *)
(* aiosqlite connection, in the order they were handed to it; a coroutine  *)
(* that is cancelled while it waits for the thread does not take its       *)
(* statement back.  The connection has ONE implicit transaction, so what a *)
(* statement changed stays uncommitted in `txn' until some commit.         *)
(*                                                                         *)
(* A row, an update or a deletion is an "effect"; a write is a set of      *)
(* effects.  Reads do not take the lock and are not modelled.              *)
(***************************************************************************)
EXTENDS Integers, SequencesExt

CONSTANTS
  Writers,      \* coroutines that call a write method of the storage
  Effects,      \* the changes a write can make to the database
  NoWriter,     \* "nobody holds the lock"
  MaxAttempts,  \* 1 + Len(_WRITE_RETRY_DELAYS_S): 5 in the code
  MaxOps        \* bound: no cancellation while this many operations are queued

ASSUME WritersAssumption  == NoWriter \notin Writers
ASSUME AttemptsAssumption == MaxAttempts \in Nat \ {0}
ASSUME OpsAssumption      == MaxOps \in Nat

VARIABLES
  queue,    \* waiters of _write_lock, oldest first
  holder,   \* the writer inside `async with self._write_lock', or NoWriter
  pc,       \* where each writer is in _write_under_lock
  attempt,  \* which attempt of _run_write_with_retry each writer is at
  batch,    \* the effects each writer asked for
  ops,      \* operations handed to the connection thread and not yet executed
  txn,      \* effects of the open, uncommitted transaction
  db        \* effects a commit made durable

lockVars  == <<queue, holder>>
connVars  == <<ops, txn, db>>
writeVars == <<queue, holder, pc, attempt, batch, ops, txn, db>>

PC == {"idle", "queued", "holding", "executing", "executed",
       "locked", "committing", "committed", "failed"}

\* `live' is FALSE once the coroutine that waits for the result was cancelled.
Op == [writer : Writers, kind : {"exec", "commit"},
       effects : SUBSET Effects, live : BOOLEAN]

TypeOK ==
  /\ queue \in Seq(Writers)
  /\ holder \in Writers \cup {NoWriter}
  /\ pc \in [Writers -> PC]
  /\ attempt \in [Writers -> 0..MaxAttempts]
  /\ batch \in [Writers -> SUBSET Effects]
  /\ ops \in Seq(Op)
  /\ txn \subseteq Effects
  /\ db \subseteq Effects

Init ==
  /\ queue = << >>
  /\ holder = NoWriter
  /\ pc = [w \in Writers |-> "idle"]
  /\ attempt = [w \in Writers |-> 0]
  /\ batch = [w \in Writers |-> {}]
  /\ ops = << >>
  /\ txn = {}
  /\ db = {}

\* Is the writer inside `async with self._write_lock'?
Inside(w) == pc[w] \notin {"idle", "queued"}

(***************************************************************************)
(* The coroutine side.                                                     *)
(***************************************************************************)

\* insert_trades, insert_alert, ...: the caller reaches `async with' and waits.
Enqueue(w, effects) ==
  /\ pc[w] = "idle"
  /\ pc' = [pc EXCEPT ![w] = "queued"]
  /\ batch' = [batch EXCEPT ![w] = effects]
  /\ queue' = Append(queue, w)
  /\ UNCHANGED <<holder, attempt, ops, txn, db>>

\* Mutant of Acquire: the waiter does not look whether the lock is held.
AcquireUnchecked(w) ==
  /\ queue # << >>
  /\ Head(queue) = w
  /\ holder' = w
  /\ queue' = Tail(queue)
  /\ pc' = [pc EXCEPT ![w] = "holding"]
  /\ attempt' = [attempt EXCEPT ![w] = 1]
  /\ UNCHANGED <<batch, ops, txn, db>>

\* asyncio.Lock hands the lock to its waiters in arrival order.
Acquire(w) ==
  /\ holder = NoWriter
  /\ queue # << >>
  /\ Head(queue) = w
  /\ holder' = w
  /\ queue' = Tail(queue)
  /\ pc' = [pc EXCEPT ![w] = "holding"]
  /\ attempt' = [attempt EXCEPT ![w] = 1]
  /\ UNCHANGED <<batch, ops, txn, db>>

Submit(w, kind) ==
  ops' = Append(ops, [writer |-> w, kind |-> kind,
                      effects |-> batch[w], live |-> TRUE])

\* `await action()': the statement is handed to the connection thread.
Execute(w) ==
  /\ pc[w] = "holding"
  /\ pc' = [pc EXCEPT ![w] = "executing"]
  /\ Submit(w, "exec")
  /\ UNCHANGED <<queue, holder, attempt, batch, txn, db>>

\* Mutant of Retry: the attempts are not counted.
RetryForever(w) ==
  /\ pc[w] = "locked"
  /\ pc' = [pc EXCEPT ![w] = "holding"]
  /\ UNCHANGED <<queue, holder, attempt, batch, connVars>>

\* Only a locked database is retried, and not after the last attempt.
Retry(w) ==
  /\ pc[w] = "locked"
  /\ attempt[w] < MaxAttempts
  /\ pc' = [pc EXCEPT ![w] = "holding"]
  /\ attempt' = [attempt EXCEPT ![w] = @ + 1]
  /\ UNCHANGED <<queue, holder, batch, connVars>>

\* Mutant of Commit: the write is taken for committed once it has executed.
CommitSkipped(w) ==
  /\ pc[w] = "executed"
  /\ pc' = [pc EXCEPT ![w] = "committed"]
  /\ UNCHANGED <<queue, holder, attempt, batch, connVars>>

\* `await self._conn.commit()', still inside the lock, with no retry.
Commit(w) ==
  /\ pc[w] = "executed"
  /\ pc' = [pc EXCEPT ![w] = "committing"]
  /\ Submit(w, "commit")
  /\ UNCHANGED <<queue, holder, attempt, batch, txn, db>>

\* Leaving `async with': the lock is released and the write is over.
Leave(w) ==
  /\ pc' = [pc EXCEPT ![w] = "idle"]
  /\ attempt' = [attempt EXCEPT ![w] = 0]
  /\ batch' = [batch EXCEPT ![w] = {}]
  /\ holder' = NoWriter

\* The write method returns to its caller.
Return(w) ==
  /\ pc[w] = "committed"
  /\ Leave(w)
  /\ UNCHANGED <<queue, connVars>>

\* The statement's last attempt, a non-retryable error or the commit failed:
\* the exception leaves `async with' with no rollback.
Raise(w) ==
  /\ \/ pc[w] = "failed"
     \/ pc[w] = "locked" /\ attempt[w] = MaxAttempts
  /\ Leave(w)
  /\ UNCHANGED <<queue, connVars>>

Orphan(w) ==
  [i \in DOMAIN ops |-> IF ops[i].writer = w
                          THEN [ops[i] EXCEPT !.live = FALSE] ELSE ops[i]]

\* The task is cancelled while it waits for the lock.
CancelWaiting(w) ==
  /\ pc[w] = "queued"
  /\ \E i \in DOMAIN queue : queue[i] = w /\ queue' = RemoveAt(queue, i)
  /\ pc' = [pc EXCEPT ![w] = "idle"]
  /\ batch' = [batch EXCEPT ![w] = {}]
  /\ UNCHANGED <<holder, attempt, connVars>>

\* The task is cancelled inside `async with', at one of its awaits.  The
\* operation it handed to the connection thread stays there; nothing is rolled
\* back.
CancelInside(w) ==
  /\ Inside(w)
  /\ Len(ops) < MaxOps
  /\ Leave(w)
  /\ ops' = Orphan(w)
  /\ UNCHANGED <<queue, txn, db>>

Cancel(w) == CancelWaiting(w) \/ CancelInside(w)

(***************************************************************************)
(* The connection thread.                                                  *)
(***************************************************************************)
NextOp == Head(ops)

\* The result reaches the coroutine unless it was cancelled meanwhile.
Report(outcome) ==
  pc' = IF NextOp.live THEN [pc EXCEPT ![NextOp.writer] = outcome] ELSE pc

ThreadTakes(kind) ==
  /\ ops # << >>
  /\ NextOp.kind = kind
  /\ ops' = Tail(ops)
  /\ UNCHANGED <<queue, holder, attempt, batch>>

ExecOk ==
  /\ ThreadTakes("exec")
  /\ txn' = txn \cup NextOp.effects
  /\ Report("executed")
  /\ UNCHANGED db

\* Another connection (the dashboard's, the candle cache's) has the database.
ExecLocked ==
  /\ ThreadTakes("exec")
  /\ Report("locked")
  /\ UNCHANGED <<txn, db>>

\* Any other error; executemany may already have changed some rows.
ExecError ==
  /\ ThreadTakes("exec")
  /\ \E done \in SUBSET NextOp.effects : txn' = txn \cup done
  /\ Report("failed")
  /\ UNCHANGED db

\* Mutant of CommitOk: the transaction is closed and its effects are dropped.
CommitOkNothing ==
  /\ ThreadTakes("commit")
  /\ txn' = {}
  /\ Report("committed")
  /\ UNCHANGED db

CommitOk ==
  /\ ThreadTakes("commit")
  /\ db' = db \cup txn
  /\ txn' = {}
  /\ Report("committed")

\* A failed commit leaves the transaction open.
CommitError ==
  /\ ThreadTakes("commit")
  /\ Report("failed")
  /\ UNCHANGED <<txn, db>>

Thread == ExecOk \/ ExecLocked \/ ExecError \/ CommitOk \/ CommitError

\* The process dies and is started again on the same database file: SQLite
\* rolls the open transaction back.
Crash ==
  /\ queue' = << >>
  /\ holder' = NoWriter
  /\ pc' = [w \in Writers |-> "idle"]
  /\ attempt' = [w \in Writers |-> 0]
  /\ batch' = [w \in Writers |-> {}]
  /\ ops' = << >>
  /\ txn' = {}
  /\ UNCHANGED db

\* The steps a writer takes by itself once it has asked for a write.
Progress(w) ==
  Acquire(w) \/ Execute(w) \/ Retry(w) \/ Commit(w) \/ Return(w) \/ Raise(w)

Next ==
  \/ \E w \in Writers, effects \in (SUBSET Effects) \ {{}} : Enqueue(w, effects)
  \/ \E w \in Writers : Progress(w)
  \/ \E w \in Writers : Cancel(w)
  \/ Thread
  \/ Crash

Spec == Init /\ [][Next]_writeVars

\* The event loop runs every ready task, and the connection thread drains its
\* queue; callers, cancellations and crashes are the environment's.
Fairness ==
  /\ \A w \in Writers : WF_writeVars(Progress(w))
  /\ WF_writeVars(Thread)

FairSpec == Spec /\ Fairness

(***************************************************************************)
(* Properties.                                                             *)
(***************************************************************************)

\* When a write returns to its caller all of it is in the database, whatever
\* other writers failed, were cancelled or committed in between.
AckedDurable == \A w \in Writers : pc[w] = "committed" => batch[w] \subseteq db

\* The lock brackets the whole statement-to-commit sequence (sqlite.py:70-75):
\* one writer at a time is inside, and it is the one whose operation, if any,
\* the connection thread will answer.
OneWriterInside ==
  /\ \A w \in Writers : Inside(w) <=> holder = w
  /\ \A i \in DOMAIN ops : ops[i].live => ops[i].writer = holder

\* Every write the loop asks for comes to an end, returned or raised: the lock
\* is fair, retries are bounded, and no failure path keeps the lock.
WritesEnd == \A w \in Writers : pc[w] = "queued" ~> pc[w] = "idle"

(***************************************************************************)
(* What the storage promises its callers.                                  *)
(***************************************************************************)

\* Effects that may still become durable although nobody was told so.
Limbo == txn \cup (UNION {batch[w] : w \in Writers})
             \cup (UNION {ops[i].effects : i \in DOMAIN ops})

Contract == INSTANCE WriteContract WITH
  pending <- batch, acked <- {w \in Writers : pc[w] = "committed"},
  limbo <- Limbo

\* Whatever the interleaving of writers, failures, cancellations and crashes, a
\* write is acknowledged only when it is durable, what is durable was asked for,
\* and it stays (write methods of SqliteStorage, sqlite.py:148-205).
ImplementsContract == Contract!Spec
=============================================================================
