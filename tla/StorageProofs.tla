---------------------------- MODULE StorageProofs ----------------------------
(***************************************************************************)
(* Proofs about the storage of the trades: SqliteWrites, for every set of  *)
(* writers, every set of effects and every number of attempts, its         *)
(* refinement of WriteContract, and TradeIngest, for any number of stream  *)
(* tasks, trades and other writers: when the buffering of _dispatch_trade  *)
(* cannot lose a trade.                                                    *)
(***************************************************************************)
EXTENDS TradeIngest, SequenceTheorems, TLAPS

(***************************************************************************)
(* The queues.                                                             *)
(***************************************************************************)

\* Removing an element of a sequence leaves a sequence over the same set, in
\* which the elements after the removed one have moved up.
LEMMA RemoveAtProperties ==
  ASSUME NEW S, NEW s \in Seq(S), NEW i \in DOMAIN s
  PROVE  /\ RemoveAt(s, i) \in Seq(S)
         /\ Len(RemoveAt(s, i)) = Len(s) - 1
         /\ \A k \in 1..(Len(s) - 1) :
              RemoveAt(s, i)[k] = s[IF k < i THEN k ELSE k + 1]
<1> DEFINE front == SubSeq(s, 1, i - 1)
           back  == SubSeq(s, i + 1, Len(s))
<1>1. DOMAIN s = 1..Len(s) /\ Len(s) \in Nat /\ i \in 1..Len(s)
  BY LenProperties
<1>2. /\ front \in Seq(S) /\ Len(front) = i - 1
      /\ \A k \in 1..(i - 1) : front[k] = s[k]
  BY <1>1
<1>3. /\ back \in Seq(S) /\ Len(back) = Len(s) - i
      /\ \A k \in 1..(Len(s) - i) : back[k] = s[i + k]
  BY <1>1
<1>4. RemoveAt(s, i) = front \o back BY DEF RemoveAt
<1> HIDE DEF front, back
<1>5. /\ front \o back \in Seq(S)
      /\ Len(front \o back) = Len(front) + Len(back)
      /\ \A k \in 1..(Len(front) + Len(back)) :
           (front \o back)[k] = IF k <= Len(front) THEN front[k]
                                                 ELSE back[k - Len(front)]
  BY <1>2, <1>3, ConcatProperties
<1>6. ASSUME NEW k \in 1..(Len(s) - 1)
      PROVE  (front \o back)[k] = s[IF k < i THEN k ELSE k + 1]
  <2>1. CASE k < i BY <1>1, <1>2, <1>3, <1>5, <2>1
  <2>2. CASE ~(k < i)
    <3>1. (front \o back)[k] = back[k - (i - 1)]
      BY <1>1, <1>2, <1>3, <1>5, <2>2
    <3>2. k - (i - 1) \in 1..(Len(s) - i) /\ i + (k - (i - 1)) = k + 1
      BY <1>1, <2>2
    <3> QED BY <1>3, <2>2, <3>1, <3>2
  <2> QED BY <2>1, <2>2
<1> QED BY <1>1, <1>2, <1>3, <1>4, <1>5, <1>6

\* Orphaning a writer's operations changes only their live flag.
LEMMA OrphanProperties ==
  ASSUME TypeOK, NEW w \in Writers
  PROVE  /\ Orphan(w) \in Seq(Op)
         /\ DOMAIN Orphan(w) = DOMAIN ops
         /\ \A i \in DOMAIN ops :
              /\ Orphan(w)[i].live => ops[i].live /\ ops[i].writer # w
              /\ Orphan(w)[i].writer = ops[i].writer
              /\ Orphan(w)[i].kind = ops[i].kind
              /\ Orphan(w)[i].effects = ops[i].effects
<1>1. ops \in Seq(Op) BY DEF TypeOK
<1>2. \A i \in DOMAIN ops : ops[i] \in Op BY <1>1
<1>3. \A o \in Op : /\ [o EXCEPT !.live = FALSE] \in Op
                    /\ [o EXCEPT !.live = FALSE].live = FALSE
                    /\ [o EXCEPT !.live = FALSE].writer = o.writer
                    /\ [o EXCEPT !.live = FALSE].kind = o.kind
                    /\ [o EXCEPT !.live = FALSE].effects = o.effects
  BY DEF Op
<1>4. DOMAIN Orphan(w) = DOMAIN ops BY DEF Orphan
<1>5. \A i \in DOMAIN ops : Orphan(w)[i] \in Op BY <1>2, <1>3 DEF Orphan
<1>6. Orphan(w) \in Seq(Op)
  <2>1. DOMAIN ops = 1..Len(ops) /\ Len(ops) \in Nat BY <1>1
  <2>2. Orphan(w) \in [1..Len(ops) -> Op] BY <1>5, <2>1 DEF Orphan
  <2> QED BY <2>1, <2>2, SeqDef
<1> QED BY <1>2, <1>3, <1>4, <1>6 DEF Orphan

(***************************************************************************)
(* The inductive invariant.  OneWriterInside alone is not inductive: that  *)
(* the thread answers only the lock's holder needs a live operation to     *)
(* agree with the program counter of its writer, and that a commit covers  *)
(* the holder's effects needs them to be staged or durable beforehand.     *)
(***************************************************************************)

\* A live operation is the one its writer waits for, with the writer's effects.
OpsMatch ==
  \A i \in DOMAIN ops : ops[i].live =>
    /\ ops[i].kind = "exec" => pc[ops[i].writer] = "executing"
    /\ ops[i].kind = "commit" => pc[ops[i].writer] = "committing"
    /\ ops[i].effects = batch[ops[i].writer]

\* At most one operation is live.
OneLiveOp ==
  \A i, j \in DOMAIN ops : ops[i].live /\ ops[j].live => i = j

\* Where an executed write's effects are until it returns.
Staged ==
  \A w \in Writers :
    /\ pc[w] \in {"executed", "committing"} => batch[w] \subseteq txn \cup db
    /\ pc[w] = "committed" => batch[w] \subseteq db

\* The lock's queue holds writers that wait for it, each once.
QueueMatch ==
  /\ \A i \in DOMAIN queue : pc[queue[i]] = "queued"
  /\ \A i, j \in DOMAIN queue : queue[i] = queue[j] => i = j

\* A writer that is not writing has no batch.
IdleEmpty == \A w \in Writers : pc[w] = "idle" => batch[w] = {}

IInv ==
  /\ TypeOK /\ OneWriterInside /\ OpsMatch /\ OneLiveOp /\ Staged
  /\ QueueMatch /\ IdleEmpty

\* It holds at first.
LEMMA InitIInv == Init => IInv
<1> SUFFICES ASSUME Init PROVE IInv OBVIOUS
<1> USE DEF Init
<1>1. TypeOK
  <2>1. << >> \in Seq(Writers) /\ << >> \in Seq(Op) BY EmptySeq
  <2> QED BY <2>1, AttemptsAssumption DEF TypeOK, PC
<1>2. OneWriterInside BY WritersAssumption DEF OneWriterInside, Inside
<1>3. OpsMatch /\ OneLiveOp BY DEF OpsMatch, OneLiveOp
<1>4. Staged /\ QueueMatch /\ IdleEmpty BY DEF Staged, QueueMatch, IdleEmpty
<1> QED BY <1>1, <1>2, <1>3, <1>4 DEF IInv

\* While nobody waits for the thread, no operation is live.
LEMMA NoLiveOp ==
  ASSUME IInv,
         \A w \in Writers : pc[w] \notin {"executing", "committing"}
  PROVE  \A i \in DOMAIN ops : ~ops[i].live
<1>1. \A i \in DOMAIN ops : ops[i] \in Op BY DEF IInv, TypeOK
<1> QED BY <1>1 DEF IInv, OpsMatch, Op

\* A writer that queues for the lock is behind all others and has no operation yet.
LEMMA EnqueueStep ==
  ASSUME IInv, NEW w \in Writers, NEW effects \in SUBSET Effects,
         Enqueue(w, effects)
  PROVE  IInv'
<1> USE DEF IInv, Enqueue
<1>1. TypeOK' BY AppendProperties DEF TypeOK, PC
<1>2. OneWriterInside' BY DEF OneWriterInside, Inside, TypeOK
<1>3. OpsMatch'
  BY WritersAssumption DEF OpsMatch, OneWriterInside, Inside, TypeOK, Op
<1>4. OneLiveOp' BY DEF OneLiveOp
<1>5. Staged' BY DEF Staged, TypeOK
<1>6. QueueMatch'
  <2>1. /\ queue' = Append(queue, w)
        /\ queue \in Seq(Writers)
        /\ \A i \in DOMAIN queue : queue[i] # w
    BY DEF QueueMatch, TypeOK
  <2>2. /\ DOMAIN queue' = 1..(Len(queue) + 1) /\ DOMAIN queue = 1..Len(queue)
        /\ Len(queue) \in Nat
        /\ \A i \in DOMAIN queue : queue'[i] = queue[i]
        /\ queue'[Len(queue) + 1] = w
    BY <2>1, AppendProperties
  <2>3. \A i \in DOMAIN queue' : i \in DOMAIN queue \/ i = Len(queue) + 1
    BY <2>2
  <2>4. \A i \in DOMAIN queue : queue[i] \in Writers BY <2>1
  <2> QED BY <2>1, <2>2, <2>3, <2>4 DEF QueueMatch, TypeOK
<1>20. IdleEmpty' BY DEF IdleEmpty, TypeOK
<1> QED BY <1>1, <1>2, <1>3, <1>4, <1>5, <1>6, <1>20

\* Who takes the free lock is inside alone, as no operation is live then.
LEMMA AcquireStep ==
  ASSUME IInv, NEW w \in Writers, Acquire(w)
  PROVE  IInv'
<1> USE DEF IInv, Acquire
<1>1. TypeOK'
  <2>1. Tail(queue) \in Seq(Writers) BY HeadTailProperties DEF TypeOK
  <2> QED BY <2>1, AttemptsAssumption DEF TypeOK, PC
<1>2. \A v \in Writers : ~Inside(v)
  BY WritersAssumption DEF OneWriterInside
<1>3. \A i \in DOMAIN ops : ~ops[i].live
  BY <1>2, NoLiveOp DEF Inside
<1>4. OneWriterInside'
  BY <1>2, <1>3, WritersAssumption DEF OneWriterInside, Inside, TypeOK
<1>5. OpsMatch' /\ OneLiveOp' BY <1>3 DEF OpsMatch, OneLiveOp
<1>6. Staged' BY DEF Staged, TypeOK
<1>7. QueueMatch'
  <2>1. /\ queue \in Seq(Writers) /\ queue # << >>
        /\ queue' = Tail(queue) /\ queue[1] = w
    BY DEF TypeOK
  <2>2. /\ Len(queue') = Len(queue) - 1 /\ queue' \in Seq(Writers)
        /\ \A i \in 1..Len(queue') : queue'[i] = queue[i + 1]
    BY <2>1, HeadTailProperties
  <2>3. /\ DOMAIN queue = 1..Len(queue) /\ DOMAIN queue' = 1..(Len(queue) - 1)
        /\ Len(queue) \in Nat /\ 1 \in DOMAIN queue
    BY <2>1, <2>2
  <2>4. \A i \in DOMAIN queue' : /\ i + 1 \in DOMAIN queue /\ i + 1 # 1
                                 /\ queue'[i] = queue[i + 1]
                                 /\ queue[i + 1] \in Writers
    BY <2>1, <2>2, <2>3
  <2>5. \A i \in DOMAIN queue' : queue'[i] # w
    BY <2>1, <2>3, <2>4 DEF QueueMatch
  <2>6. \A i, j \in DOMAIN queue' : i + 1 = j + 1 => i = j BY <2>3
  <2> QED BY <2>4, <2>5, <2>6 DEF QueueMatch, TypeOK
<1>20. IdleEmpty' BY DEF IdleEmpty, TypeOK
<1> QED BY <1>1, <1>4, <1>5, <1>6, <1>7, <1>20

\* What handing an operation to the thread adds to its queue.
LEMMA SubmitProperties ==
  ASSUME TypeOK, NEW w \in Writers, NEW kind \in {"exec", "commit"},
         Submit(w, kind)
  PROVE  /\ ops' \in Seq(Op)
         /\ Len(ops') = Len(ops) + 1
         /\ \A i \in DOMAIN ops' :
              \/ i \in DOMAIN ops /\ ops'[i] = ops[i]
              \/ /\ i = Len(ops) + 1
                 /\ ops'[i].writer = w
                 /\ ops'[i].kind = kind
                 /\ ops'[i].effects = batch[w]
                 /\ ops'[i].live
<1> DEFINE op == [writer |-> w, kind |-> kind, effects |-> batch[w], live |-> TRUE]
<1>1. op \in Op BY DEF Op, TypeOK
<1>2. ops' = Append(ops, op) BY DEF Submit
<1>3. ops \in Seq(Op) BY DEF TypeOK
<1> HIDE DEF op
<1>4. /\ ops' \in Seq(Op)
      /\ Len(ops') = Len(ops) + 1
      /\ \A i \in 1..Len(ops) : ops'[i] = ops[i]
      /\ ops'[Len(ops) + 1] = op
  BY <1>1, <1>2, <1>3, AppendProperties
<1>5. DOMAIN ops' = 1..(Len(ops) + 1) /\ DOMAIN ops = 1..Len(ops)
  BY <1>3, <1>4
<1>6. /\ op.writer = w /\ op.kind = kind /\ op.effects = batch[w] /\ op.live
  BY DEF op
<1>7. Len(ops) \in Nat BY <1>3
<1> QED BY <1>4, <1>5, <1>6, <1>7

\* Execute and Commit: the holder, for whom no operation is live, submits one.
LEMMA SubmitStep ==
  ASSUME IInv, NEW w \in Writers, Execute(w) \/ Commit(w)
  PROVE  IInv'
<1> DEFINE kind == IF pc[w] = "holding" THEN "exec" ELSE "commit"
<1>1. /\ pc[w] = "holding" => pc' = [pc EXCEPT ![w] = "executing"]
      /\ pc[w] # "holding" => /\ pc[w] = "executed"
                              /\ pc' = [pc EXCEPT ![w] = "committing"]
      /\ UNCHANGED <<queue, holder, attempt, batch, txn, db>>
      /\ Submit(w, kind)
  BY DEF Execute, Commit
<1>2. pc[w] \in {"holding", "executed"} /\ kind \in {"exec", "commit"}
  BY <1>1
<1> USE DEF IInv
<1>3. holder = w /\ \A v \in Writers : v # w => ~Inside(v)
  BY <1>2, WritersAssumption DEF OneWriterInside, Inside
<1>4. \A i \in DOMAIN ops : ~ops[i].live
  BY <1>2, <1>3, NoLiveOp DEF Inside
<1>5. /\ ops' \in Seq(Op)
      /\ Len(ops') = Len(ops) + 1
      /\ \A i \in DOMAIN ops' : ops'[i].live =>
           /\ i = Len(ops) + 1
           /\ ops'[i].writer = w
           /\ ops'[i].kind = kind
           /\ ops'[i].effects = batch[w]
  BY <1>1, <1>2, <1>4, SubmitProperties
<1>6. TypeOK' BY <1>1, <1>5 DEF TypeOK, PC
<1>7. OneWriterInside'
  BY <1>1, <1>3, <1>5, WritersAssumption DEF OneWriterInside, Inside, TypeOK
<1>8. OpsMatch' BY <1>1, <1>5 DEF OpsMatch, TypeOK
<1>9. OneLiveOp' BY <1>5 DEF OneLiveOp
<1>10. Staged' BY <1>1 DEF Staged, TypeOK
<1>11. QueueMatch'
  <2>1. \A i \in DOMAIN queue : queue[i] \in Writers BY DEF TypeOK
  <2> QED BY <2>1, <1>1 DEF QueueMatch, TypeOK
<1>20. IdleEmpty' BY <1>1 DEF IdleEmpty, TypeOK
<1> QED BY <1>6, <1>7, <1>8, <1>9, <1>10, <1>11, <1>20

\* A retry starts again with no operation of the failed attempt.
LEMMA RetryStep ==
  ASSUME IInv, NEW w \in Writers, Retry(w)
  PROVE  IInv'
<1> USE DEF IInv, Retry, connVars
<1>1. TypeOK' BY AttemptsAssumption DEF TypeOK, PC
<1>2. OneWriterInside' BY DEF OneWriterInside, Inside, TypeOK
<1>3. OpsMatch' BY DEF OpsMatch, TypeOK, Op
<1>4. OneLiveOp' BY DEF OneLiveOp
<1>5. Staged' BY DEF Staged, TypeOK
<1>6. QueueMatch'
  <2>1. \A i \in DOMAIN queue : queue[i] \in Writers BY DEF TypeOK
  <2> QED BY <2>1 DEF QueueMatch, TypeOK
<1>20. IdleEmpty' BY DEF IdleEmpty, TypeOK
<1> QED BY <1>1, <1>2, <1>3, <1>4, <1>5, <1>6, <1>20

\* Return, Raise and CancelInside: the holder leaves, and no operation of the
\* thread's queue stays live.
LEMMA LeaveStep ==
  ASSUME IInv, NEW w \in Writers, Inside(w),
         Leave(w), UNCHANGED <<queue, txn, db>>,
         ops' \in Seq(Op),
         \A i \in DOMAIN ops' : ~ops'[i].live
  PROVE  IInv'
<1> USE DEF IInv, Leave
<1>1. TypeOK' BY AttemptsAssumption DEF TypeOK, PC
<1>2. OneWriterInside'
  BY WritersAssumption DEF OneWriterInside, Inside, TypeOK
<1>3. OpsMatch' /\ OneLiveOp' BY DEF OpsMatch, OneLiveOp
<1>4. Staged' BY DEF Staged, TypeOK
<1>5. QueueMatch'
  <2>1. \A i \in DOMAIN queue : queue[i] \in Writers BY DEF TypeOK
  <2> QED BY <2>1 DEF QueueMatch, TypeOK, Inside
<1>20. IdleEmpty' BY DEF IdleEmpty, TypeOK
<1> QED BY <1>1, <1>2, <1>3, <1>4, <1>5, <1>20

\* A writer that has its answer is inside, alone, and no operation is live.
LEMMA AnsweredAlone ==
  ASSUME IInv, NEW w \in Writers,
         pc[w] \in {"committed", "failed", "locked"}
  PROVE  Inside(w) /\ \A i \in DOMAIN ops : ~ops[i].live
<1>1. Inside(w) BY DEF Inside
<1>2. \A v \in Writers : v # w => ~Inside(v)
  BY <1>1 DEF IInv, OneWriterInside
<1> QED BY <1>1, <1>2, NoLiveOp DEF Inside

\* Returning or raising leaves the lock with no operation live.
LEMMA ReturnStep ==
  ASSUME IInv, NEW w \in Writers, Return(w) \/ Raise(w)
  PROVE  IInv'
<1>1. pc[w] \in {"committed", "failed", "locked"} BY DEF Return, Raise
<1>2. Leave(w) /\ UNCHANGED <<queue, ops, txn, db>>
  BY DEF Return, Raise, connVars
<1>3. Inside(w) /\ \A i \in DOMAIN ops : ~ops[i].live
  BY <1>1, AnsweredAlone
<1>4. ops \in Seq(Op) BY DEF IInv, TypeOK
<1> QED BY <1>2, <1>3, <1>4, LeaveStep

\* A holder that is cancelled leaves only an orphan to the thread.
LEMMA CancelInsideStep ==
  ASSUME IInv, NEW w \in Writers, CancelInside(w)
  PROVE  IInv'
<1>1. /\ Inside(w) /\ Leave(w) /\ ops' = Orphan(w)
      /\ UNCHANGED <<queue, txn, db>>
  BY DEF CancelInside
<1>2. holder = w BY <1>1 DEF IInv, OneWriterInside
<1>3. /\ ops' \in Seq(Op)
      /\ DOMAIN ops' = DOMAIN ops
      /\ \A i \in DOMAIN ops : ops'[i].live => ops[i].live /\ ops[i].writer # w
  BY <1>1, OrphanProperties DEF IInv
<1>4. \A i \in DOMAIN ops' : ~ops'[i].live
  BY <1>2, <1>3 DEF IInv, OneWriterInside
<1> QED BY <1>1, <1>3, <1>4, LeaveStep

\* A waiter that is cancelled leaves the queue in order.
LEMMA CancelWaitingStep ==
  ASSUME IInv, NEW w \in Writers, CancelWaiting(w)
  PROVE  IInv'
<1> USE DEF IInv, CancelWaiting, connVars
<1>1. TypeOK'
  <2>1. queue' \in Seq(Writers) BY RemoveAtProperties DEF TypeOK
  <2> QED BY <2>1 DEF TypeOK, PC
<1>2. OneWriterInside' BY DEF OneWriterInside, Inside, TypeOK
<1>3. OpsMatch'
  BY WritersAssumption DEF OpsMatch, OneWriterInside, Inside, TypeOK, Op
<1>4. OneLiveOp' BY DEF OneLiveOp
<1>5. Staged' BY DEF Staged, TypeOK
<1>6. QueueMatch'
  <2>1. PICK i \in DOMAIN queue : queue[i] = w /\ queue' = RemoveAt(queue, i)
    OBVIOUS
  <2> DEFINE old(k) == IF k < i THEN k ELSE k + 1
  <2>2. /\ queue \in Seq(Writers) /\ DOMAIN queue = 1..Len(queue)
        /\ Len(queue) \in Nat /\ i \in 1..Len(queue)
    BY DEF TypeOK
  <2>3. /\ DOMAIN queue' = 1..(Len(queue) - 1)
        /\ \A k \in DOMAIN queue' : queue'[k] = queue[old(k)]
    <3>1. /\ queue' \in Seq(Writers)
          /\ Len(queue') = Len(queue) - 1
          /\ \A k \in 1..(Len(queue) - 1) : queue'[k] = queue[old(k)]
      BY <2>1, <2>2, RemoveAtProperties
    <3>2. DOMAIN queue' = 1..Len(queue') BY <3>1
    <3> QED BY <3>1, <3>2
  <2>4. \A k \in DOMAIN queue' : old(k) \in DOMAIN queue /\ old(k) # i
    BY <2>2, <2>3
  <2>5. \A k, l \in DOMAIN queue' : old(k) = old(l) => k = l
    BY <2>2, <2>3
  <2> HIDE DEF old
  <2>6. \A k \in DOMAIN queue' : queue'[k] # w /\ queue'[k] \in Writers
    BY <2>1, <2>2, <2>3, <2>4 DEF QueueMatch
  <2> QED BY <2>3, <2>4, <2>5, <2>6 DEF QueueMatch, TypeOK
<1>20. IdleEmpty' BY DEF IdleEmpty, TypeOK
<1> QED BY <1>1, <1>2, <1>3, <1>4, <1>5, <1>6, <1>20

\* What the thread's taking an operation leaves in its queue, and what the
\* operation it took says about the writer that waits for it.
LEMMA ThreadTakesProperties ==
  ASSUME IInv, NEW kind \in {"exec", "commit"}, ThreadTakes(kind)
  PROVE  /\ NextOp \in Op /\ NextOp.kind = kind
         /\ ops' \in Seq(Op)
         /\ \A i \in DOMAIN ops' : i + 1 \in DOMAIN ops /\ ops'[i] = ops[i + 1]
         /\ NextOp.live =>
              /\ pc[NextOp.writer] = IF kind = "exec" THEN "executing"
                                                     ELSE "committing"
              /\ NextOp.effects = batch[NextOp.writer]
              /\ holder = NextOp.writer
              /\ \A i \in DOMAIN ops' : ~ops'[i].live
<1> USE DEF IInv
<1>1. ops \in Seq(Op) /\ ops # << >> /\ ops' = Tail(ops)
  BY DEF TypeOK, ThreadTakes
<1>2. /\ NextOp \in Op /\ ops' \in Seq(Op) /\ Len(ops') = Len(ops) - 1
      /\ \A i \in 1..Len(ops') : ops'[i] = ops[i + 1]
  BY <1>1, HeadTailProperties DEF NextOp
<1>3. /\ DOMAIN ops = 1..Len(ops) /\ DOMAIN ops' = 1..Len(ops')
      /\ Len(ops) \in Nat /\ Len(ops) > 0
      /\ NextOp = ops[1]
  BY <1>1, <1>2 DEF NextOp
<1>4. \A i \in DOMAIN ops' : i + 1 \in DOMAIN ops /\ ops'[i] = ops[i + 1]
  BY <1>2, <1>3
<1>5. NextOp.kind = kind BY DEF ThreadTakes
<1>6. NextOp.live =>
        /\ pc[NextOp.writer] = IF kind = "exec" THEN "executing"
                                               ELSE "committing"
        /\ NextOp.effects = batch[NextOp.writer]
        /\ holder = NextOp.writer
  BY <1>3, <1>5 DEF OpsMatch, OneWriterInside
<1>7. NextOp.live => \A i \in DOMAIN ops' : ~ops'[i].live
  BY <1>3, <1>4 DEF OneLiveOp
<1> QED BY <1>2, <1>4, <1>5, <1>6, <1>7

\* The thread's answer to a live operation, or to nobody, keeps the lock and
\* the queue in order.
LEMMA ReportStep ==
  ASSUME IInv, NEW kind \in {"exec", "commit"}, ThreadTakes(kind),
         NEW outcome \in {"executed", "locked", "committed", "failed"},
         Report(outcome), txn' \subseteq Effects, db' \subseteq Effects
  PROVE  TypeOK' /\ OneWriterInside' /\ OpsMatch' /\ OneLiveOp' /\ QueueMatch'
         /\ IdleEmpty'
<1>1. /\ NextOp \in Op
      /\ ops' \in Seq(Op)
      /\ \A i \in DOMAIN ops' : i + 1 \in DOMAIN ops /\ ops'[i] = ops[i + 1]
      /\ NextOp.live =>
           /\ pc[NextOp.writer] \in {"executing", "committing"}
           /\ \A i \in DOMAIN ops' : ~ops'[i].live
  BY ThreadTakesProperties
<1>2. NextOp.writer \in Writers BY <1>1 DEF Op
<1>3. UNCHANGED <<queue, holder, attempt, batch>> BY DEF ThreadTakes
<1>4. \A i, j \in DOMAIN ops' : i + 1 = j + 1 => i = j
  BY <1>1
<1> USE DEF IInv, Report
<1>5. TypeOK' BY <1>1, <1>2, <1>3 DEF TypeOK, PC
<1>6. OneWriterInside'
  BY <1>1, <1>2, <1>3 DEF OneWriterInside, Inside, TypeOK
<1>7. OpsMatch' BY <1>1, <1>2, <1>3 DEF OpsMatch, TypeOK
<1>8. OneLiveOp' BY <1>1, <1>4 DEF OneLiveOp
<1>9. QueueMatch'
  <2>1. \A i \in DOMAIN queue : queue[i] \in Writers BY DEF TypeOK
  <2> QED BY <2>1, <1>1, <1>2, <1>3 DEF QueueMatch, TypeOK
<1>20. IdleEmpty' BY <1>1, <1>2, <1>3 DEF IdleEmpty, TypeOK
<1> QED BY <1>5, <1>6, <1>7, <1>8, <1>9, <1>20

\* What the thread does is reported to the holder alone, and stages what it claims.
LEMMA ThreadStep ==
  ASSUME IInv, Thread
  PROVE  IInv'
<1> USE DEF IInv
<1>1. CASE ExecOk
  <2>1. ThreadTakes("exec") /\ Report("executed") BY <1>1 DEF ExecOk
  <2>2. /\ NextOp \in Op
        /\ NextOp.live => NextOp.effects = batch[NextOp.writer]
    BY <2>1, ThreadTakesProperties
  <2>3. txn' = txn \cup NextOp.effects /\ db' = db BY <1>1 DEF ExecOk
  <2>4. txn' \subseteq Effects /\ db' \subseteq Effects
    BY <2>2, <2>3 DEF Op, TypeOK
  <2>5. TypeOK' /\ OneWriterInside' /\ OpsMatch' /\ OneLiveOp' /\ QueueMatch' /\ IdleEmpty'
    BY <2>1, <2>4, ReportStep
  <2>6. Staged'
    BY <2>1, <2>2, <2>3 DEF Staged, Report, ThreadTakes, TypeOK, Op
  <2> QED BY <2>5, <2>6
<1>2. CASE ExecLocked \/ ExecError
  <2>1. /\ ThreadTakes("exec")
        /\ Report("locked") \/ Report("failed")
        /\ db' = db /\ txn \subseteq txn'
    BY <1>2 DEF ExecLocked, ExecError
  <2>2. NextOp \in Op BY <2>1, ThreadTakesProperties
  <2>3. txn' \subseteq Effects /\ db' \subseteq Effects
    BY <1>2, <2>2 DEF ExecLocked, ExecError, Op, TypeOK
  <2>4. TypeOK' /\ OneWriterInside' /\ OpsMatch' /\ OneLiveOp' /\ QueueMatch' /\ IdleEmpty'
    BY <2>1, <2>3, ReportStep
  <2>5. Staged' BY <2>1, <2>2 DEF Staged, Report, ThreadTakes, TypeOK, Op
  <2> QED BY <2>4, <2>5
<1>3. CASE CommitOk
  <2>1. ThreadTakes("commit") /\ Report("committed") BY <1>3 DEF CommitOk
  <2>2. /\ NextOp \in Op
        /\ NextOp.live => pc[NextOp.writer] = "committing"
    BY <2>1, ThreadTakesProperties
  <2>3. db' = db \cup txn /\ txn' = {} BY <1>3 DEF CommitOk
  <2>4. txn' \subseteq Effects /\ db' \subseteq Effects
    BY <2>3 DEF TypeOK
  <2>5. TypeOK' /\ OneWriterInside' /\ OpsMatch' /\ OneLiveOp' /\ QueueMatch' /\ IdleEmpty'
    BY <2>1, <2>4, ReportStep
  <2>6. Staged'
    BY <2>1, <2>2, <2>3 DEF Staged, Report, ThreadTakes, TypeOK, Op
  <2> QED BY <2>5, <2>6
<1>4. CASE CommitError
  <2>1. /\ ThreadTakes("commit") /\ Report("failed")
        /\ UNCHANGED <<txn, db>>
    BY <1>4 DEF CommitError
  <2>2. NextOp \in Op BY <2>1, ThreadTakesProperties
  <2>3. TypeOK' /\ OneWriterInside' /\ OpsMatch' /\ OneLiveOp' /\ QueueMatch' /\ IdleEmpty'
    BY <2>1, ReportStep DEF TypeOK
  <2>4. Staged' BY <2>1, <2>2 DEF Staged, Report, ThreadTakes, TypeOK, Op
  <2> QED BY <2>3, <2>4
<1> QED BY <1>1, <1>2, <1>3, <1>4 DEF Thread

\* A crash leaves the durable effects.
LEMMA CrashStep ==
  ASSUME IInv, Crash
  PROVE  IInv'
<1> USE DEF IInv, Crash
<1>1. TypeOK'
  <2>1. << >> \in Seq(Writers) /\ << >> \in Seq(Op) BY EmptySeq
  <2> QED BY <2>1, AttemptsAssumption DEF TypeOK, PC
<1>2. OneWriterInside' BY WritersAssumption DEF OneWriterInside, Inside
<1>3. OpsMatch' /\ OneLiveOp' BY DEF OpsMatch, OneLiveOp
<1>4. Staged' /\ QueueMatch' /\ IdleEmpty' BY DEF Staged, QueueMatch, IdleEmpty
<1> QED BY <1>1, <1>2, <1>3, <1>4

\* A step of another component changes nothing here.
LEMMA StutterStep ==
  ASSUME IInv, UNCHANGED writeVars
  PROVE  IInv'
BY DEF IInv, TypeOK, OneWriterInside, Inside, OpsMatch, OneLiveOp, Staged, QueueMatch,
       IdleEmpty,       writeVars

\* A step of one writer, cancelled or not.
LEMMA WriterStep ==
  ASSUME IInv, NEW w \in Writers, Progress(w) \/ Cancel(w)
  PROVE  IInv'
BY AcquireStep, SubmitStep, RetryStep, ReturnStep, CancelInsideStep,
   CancelWaitingStep DEF Progress, Cancel

\* Every step keeps it.
LEMMA NextIInv == IInv /\ [Next]_writeVars => IInv'
<1> SUFFICES ASSUME IInv, [Next]_writeVars PROVE IInv' OBVIOUS
<1>1. CASE \E w \in Writers, effects \in (SUBSET Effects) \ {{}} :
             Enqueue(w, effects)
  BY <1>1, EnqueueStep
<1>2. CASE \E w \in Writers : Progress(w) \/ Cancel(w)
  BY <1>2, WriterStep
<1>3. CASE Thread BY <1>3, ThreadStep
<1>4. CASE Crash BY <1>4, CrashStep
<1>5. CASE UNCHANGED writeVars BY <1>5, StutterStep
<1> QED BY <1>1, <1>2, <1>3, <1>4, <1>5 DEF Next

\* The inductive invariant holds of every behaviour of the write path.
THEOREM WritePathInvariant == Spec => []IInv
BY InitIInv, NextIInv, PTL DEF Spec

(***************************************************************************)
(* What follows for the users of the storage.                              *)
(***************************************************************************)

\* Every variable of the write path keeps its type; in particular no writer
\* makes more than MaxAttempts attempts (_run_write_with_retry).
THEOREM TypeCorrect == Spec => []TypeOK
<1>1. IInv => TypeOK BY DEF IInv
<1> QED BY <1>1, WritePathInvariant, PTL

\* One writer at a time is between the statement and the end of its commit, and
\* the connection thread answers only to it (_write_under_lock).
THEOREM WritersExclude == Spec => []OneWriterInside
<1>1. IInv => OneWriterInside BY DEF IInv
<1> QED BY <1>1, WritePathInvariant, PTL

\* A write method returns only when all it wrote is durable, whatever failed or
\* was cancelled before it on the same connection (_write_under_lock).
THEOREM ReturnedIsDurable == Spec => []AckedDurable
<1>1. IInv => AckedDurable BY DEF IInv, Staged, AckedDurable
<1> QED BY <1>1, WritePathInvariant, PTL

(***************************************************************************)
(* The write path implements WriteContract.                                *)
(***************************************************************************)
Acked == {w \in Writers : pc[w] = "committed"}

\* A write asks for something.
Asked == \A w \in Writers : pc[w] # "idle" => batch[w] # {}

\* Every step keeps that: only a write that is over asks for nothing.
LEMMA AskedStep == ASSUME IInv, IInv', Asked, [Next]_writeVars PROVE Asked'
<1>1. TypeOK /\ TypeOK' BY DEF IInv
<1>2. ASSUME NEW w \in Writers, NEW effects \in (SUBSET Effects) \ {{}}, Enqueue(w, effects)
      PROVE  Asked'
  BY <1>1, <1>2 DEF Enqueue, Asked, TypeOK
<1>3. ASSUME NEW w \in Writers, Progress(w) \/ Cancel(w) PROVE Asked'
  <2>1. CASE Acquire(w)
    <3>1. pc[w] = "queued"
      <4>1. queue \in Seq(Writers) /\ queue # << >> /\ Head(queue) = w
        BY <1>1, <2>1 DEF Acquire, TypeOK
      <4>2. 1 \in DOMAIN queue /\ queue[1] = w BY <4>1
      <4> QED BY <4>2 DEF IInv, QueueMatch
    <3> QED BY <1>1, <2>1, <3>1 DEF Acquire, Asked, TypeOK
  <2>2. CASE Execute(w) \/ Retry(w) \/ Commit(w)
    BY <1>1, <2>2 DEF Execute, Retry, Commit, connVars, Asked, TypeOK
  <2>3. CASE Return(w) \/ Raise(w) \/ Cancel(w)
    BY <1>1, <2>3 DEF Return, Raise, Cancel, CancelWaiting, CancelInside, Leave, Asked, TypeOK
  <2> QED BY <1>3, <2>1, <2>2, <2>3 DEF Progress
<1>4. CASE Thread
  <2>1. PICK kind \in {"exec", "commit"}, outcome \in {"executed", "locked", "committed", "failed"} :
          ThreadTakes(kind) /\ Report(outcome)
    BY <1>4 DEF Thread, ExecOk, ExecLocked, ExecError, CommitOk, CommitError
  <2>2. /\ NextOp \in Op /\ batch' = batch
        /\ NextOp.live => pc[NextOp.writer] \in {"executing", "committing"}
    BY <2>1, ThreadTakesProperties DEF ThreadTakes
  <2>3. \A w \in Writers : pc'[w] # "idle" => pc[w] # "idle"
    BY <1>1, <2>1, <2>2 DEF Report, Op, TypeOK
  <2> QED BY <2>2, <2>3 DEF Asked
<1>5. CASE Crash BY <1>5 DEF Crash, Asked
<1>6. CASE UNCHANGED writeVars BY <1>6 DEF writeVars, Asked
<1> QED BY <1>2, <1>3, <1>4, <1>5, <1>6 DEF Next

\* Where an effect in limbo is.
LEMMA LimboMembers ==
  /\ \A e : e \in Limbo <=> \/ e \in txn
                            \/ \E w \in Writers : e \in batch[w]
                            \/ \E i \in DOMAIN ops : e \in ops[i].effects
  /\ \A e : e \in Limbo' <=> \/ e \in txn'
                             \/ \E w \in Writers : e \in batch'[w]
                             \/ \E i \in DOMAIN ops' : e \in ops'[i].effects
<1>1. \A e : e \in UNION {batch[w] : w \in Writers} <=> \E w \in Writers : e \in batch[w]
  OBVIOUS
<1>2. \A e : e \in UNION {ops[i].effects : i \in DOMAIN ops}
              <=> \E i \in DOMAIN ops : e \in ops[i].effects
  OBVIOUS
<1>3. \A e : e \in UNION {batch'[w] : w \in Writers} <=> \E w \in Writers : e \in batch'[w]
  OBVIOUS
<1>4. \A e : e \in UNION {ops'[i].effects : i \in DOMAIN ops'}
              <=> \E i \in DOMAIN ops' : e \in ops'[i].effects
  OBVIOUS
<1>5. \A e : e \in Limbo <=> \/ e \in txn
                             \/ e \in UNION {batch[w] : w \in Writers}
                             \/ e \in UNION {ops[i].effects : i \in DOMAIN ops}
  BY DEF Limbo
<1>6. \A e : e \in Limbo' <=> \/ e \in txn'
                              \/ e \in UNION {batch'[w] : w \in Writers}
                              \/ e \in UNION {ops'[i].effects : i \in DOMAIN ops'}
  BY DEF Limbo
<1> QED BY <1>1, <1>2, <1>3, <1>4, <1>5, <1>6

\* Handing a statement or a commit to the thread puts nothing new in limbo.
LEMMA SubmitMaps ==
  ASSUME IInv, NEW w \in Writers, Execute(w) \/ Commit(w)
  PROVE  UNCHANGED <<batch, Acked, Limbo, db>>
<1>1. TypeOK BY DEF IInv
<1>2. PICK kind \in {"exec", "commit"} :
        /\ Submit(w, kind) /\ UNCHANGED <<batch, txn, db>>
        /\ \E at \in {"executing", "committing"} : pc' = [pc EXCEPT ![w] = at]
        /\ pc[w] # "committed"
  BY DEF Execute, Commit
<1>3. Acked' = Acked BY <1>1, <1>2 DEF Acked, TypeOK
<1>4. /\ ops \in Seq(Op) /\ Len(ops') = Len(ops) + 1 /\ ops' \in Seq(Op)
      /\ \A i \in DOMAIN ops' : \/ i \in DOMAIN ops /\ ops'[i] = ops[i]
                                \/ i = Len(ops) + 1 /\ ops'[i].effects = batch[w]
  BY <1>1, <1>2, SubmitProperties DEF TypeOK
<1>5. \A i \in DOMAIN ops : i \in DOMAIN ops' /\ i # Len(ops) + 1 BY <1>4
<1>6. Limbo' = Limbo
  <2>1. \A e : e \in Limbo' => e \in Limbo BY <1>2, <1>4, LimboMembers
  <2>2. \A e : e \in Limbo => e \in Limbo' BY <1>2, <1>4, <1>5, LimboMembers
  <2> QED BY <2>1, <2>2
<1> QED BY <1>2, <1>3, <1>6

\* A write that is over, returned, raised or cancelled: Finish.
LEMMA FinishMaps ==
  ASSUME IInv, NEW w \in Writers, Return(w) \/ Raise(w) \/ Cancel(w)
  PROVE  Contract!Finish(w)
<1>1. TypeOK BY DEF IInv
<1>2. /\ pc' = [pc EXCEPT ![w] = "idle"] /\ batch' = [batch EXCEPT ![w] = {}]
      /\ UNCHANGED <<txn, db>> /\ (ops' = ops \/ ops' = Orphan(w))
  BY DEF Return, Raise, Cancel, CancelWaiting, CancelInside, Leave, connVars
<1>3. /\ DOMAIN ops' = DOMAIN ops
      /\ \A i \in DOMAIN ops : ops'[i].effects = ops[i].effects
  BY <1>1, <1>2, OrphanProperties
<1>4. \A v \in Writers : batch'[v] \subseteq batch[v] BY <1>1, <1>2 DEF TypeOK
<1>5. Limbo' \subseteq Limbo
  <2>1. \A e : e \in Limbo' => e \in Limbo BY <1>2, <1>3, <1>4, LimboMembers
  <2> QED BY <2>1
<1>6. Acked' = Acked \ {w} BY <1>1, <1>2 DEF Acked, TypeOK
<1> QED BY <1>2, <1>5, <1>6 DEF Contract!Finish, Acked

\* A step of the connection thread: what it changes was in limbo.
LEMMA ThreadMaps ==
  ASSUME IInv, IInv', Asked, Thread
  PROVE  Contract!Publish
<1>1. TypeOK /\ TypeOK' BY DEF IInv
<1>2. PICK kind \in {"exec", "commit"}, outcome \in {"executed", "locked", "committed", "failed"} :
        /\ ThreadTakes(kind) /\ Report(outcome)
        /\ outcome = "committed" => kind = "commit"
        /\ \/ db' = db /\ txn' \subseteq txn \cup NextOp.effects
           \/ db' = db \cup txn /\ txn' = {}
  BY DEF Thread, ExecOk, ExecLocked, ExecError, CommitOk, CommitError
<1>3. /\ NextOp \in Op /\ ops \in Seq(Op) /\ ops # << >> /\ batch' = batch
      /\ \A i \in DOMAIN ops' : i + 1 \in DOMAIN ops /\ ops'[i] = ops[i + 1]
      /\ NextOp.live => pc[NextOp.writer] \in {"executing", "committing"}
  BY <1>1, <1>2, ThreadTakesProperties DEF ThreadTakes, TypeOK
<1>4. 1 \in DOMAIN ops /\ NextOp = ops[1] BY <1>3 DEF NextOp
<1>5. Limbo' \subseteq Limbo
  <2>1. \A e : e \in NextOp.effects => e \in Limbo BY <1>4, LimboMembers
  <2>2. \A e : e \in txn => e \in Limbo BY LimboMembers
  <2>3. \A e : e \in txn' => e \in Limbo BY <1>2, <2>1, <2>2
  <2>4. \A e : e \in Limbo' => e \in Limbo BY <1>3, <2>3, LimboMembers
  <2> QED BY <2>4
<1>6. \E effects \in SUBSET Limbo : db' = db \cup effects
  <2>1. txn \subseteq Limbo
    <3>1. \A e : e \in txn => e \in Limbo BY LimboMembers
    <3> QED BY <3>1
  <2>2. db' = db \cup {} \/ db' = db \cup txn BY <1>2
  <2>3. {} \in SUBSET Limbo OBVIOUS
  <2> QED BY <2>1, <2>2, <2>3
<1>7. \/ Acked' = Acked
      \/ \E w \in Writers : batch[w] # {} /\ batch[w] \subseteq db' /\ Acked' = Acked \cup {w}
  <2>1. CASE NextOp.live /\ outcome = "committed"
    <3> DEFINE w == NextOp.writer
    <3>1. w \in Writers /\ pc' = [pc EXCEPT ![w] = "committed"] /\ pc[w] # "idle"
      BY <1>2, <1>3, <2>1 DEF Report, Op
    <3> HIDE DEF w
    <3>2. pc'[w] = "committed" /\ Acked' = Acked \cup {w} BY <1>1, <3>1 DEF Acked, TypeOK
    <3>3. batch'[w] \subseteq db' BY <3>1, <3>2 DEF IInv, Staged
    <3>4. batch[w] # {} BY <3>1 DEF Asked
    <3> QED BY <1>3, <3>1, <3>2, <3>3, <3>4
  <2>2. CASE ~NextOp.live BY <1>2, <2>2 DEF Report, Acked
  <2>3. CASE NextOp.live /\ outcome # "committed"
    <3>1. /\ NextOp.writer \in Writers /\ pc' = [pc EXCEPT ![NextOp.writer] = outcome]
          /\ pc[NextOp.writer] # "committed"
      BY <1>2, <1>3, <2>3 DEF Report, Op
    <3> QED BY <1>1, <2>3, <3>1 DEF Acked, TypeOK
  <2> QED BY <2>1, <2>2, <2>3
<1> QED BY <1>3, <1>5, <1>6, <1>7 DEF Contract!Publish, Acked

\* A step of the write path is a step of the contract, or none.
LEMMA ContractStep ==
  ASSUME IInv, IInv', Asked, [Next]_writeVars
  PROVE  [Contract!Next]_(Contract!vars)
<1>1. TypeOK BY DEF IInv
<1>2. ASSUME NEW w \in Writers, NEW effects \in (SUBSET Effects) \ {{}}, Enqueue(w, effects)
      PROVE  Contract!Next
  <2>1. /\ pc[w] = "idle" /\ pc' = [pc EXCEPT ![w] = "queued"]
        /\ batch' = [batch EXCEPT ![w] = effects] /\ UNCHANGED <<ops, txn, db>>
    BY <1>2 DEF Enqueue
  <2>2. batch[w] = {} BY <2>1 DEF IInv, IdleEmpty
  <2>3. batch'[w] = effects /\ \A v \in Writers : v # w => batch'[v] = batch[v]
    BY <1>1, <2>1 DEF TypeOK
  <2>4. Limbo' = Limbo \cup effects
    <3>1. \A e : e \in Limbo' => e \in Limbo \cup effects BY <2>1, <2>3, LimboMembers
    <3>2. \A e : e \in Limbo \cup effects => e \in Limbo' BY <2>1, <2>2, <2>3, LimboMembers
    <3> QED BY <3>1, <3>2
  <2>5. Acked' = Acked BY <1>1, <2>1 DEF Acked, TypeOK
  <2>6. Contract!Ask(w, effects) BY <2>1, <2>2, <2>4, <2>5 DEF Contract!Ask, Acked
  <2> QED BY <2>6 DEF Contract!Next
<1>3. ASSUME NEW w \in Writers, Acquire(w) \/ Retry(w)
      PROVE  UNCHANGED <<batch, Acked, Limbo, db>>
  <2>1. /\ pc[w] # "committed" /\ pc' = [pc EXCEPT ![w] = "holding"]
        /\ UNCHANGED <<batch, ops, txn, db>>
    <3>1. CASE Retry(w) BY <3>1 DEF Retry, connVars
    <3>2. CASE Acquire(w)
      <4>1. queue \in Seq(Writers) /\ queue # << >> /\ Head(queue) = w
        BY <1>1, <3>2 DEF Acquire, TypeOK
      <4>2. 1 \in DOMAIN queue /\ queue[1] = w BY <4>1
      <4>3. pc[w] = "queued" BY <4>2 DEF IInv, QueueMatch
      <4> QED BY <3>2, <4>3 DEF Acquire
    <3> QED BY <1>3, <3>1, <3>2
  <2>2. Acked' = Acked BY <1>1, <2>1 DEF Acked, TypeOK
  <2>3. Limbo' = Limbo BY <2>1 DEF Limbo
  <2> QED BY <2>1, <2>2, <2>3
<1>4. ASSUME NEW w \in Writers, Progress(w) \/ Cancel(w)
      PROVE  Contract!Next \/ UNCHANGED <<batch, Acked, Limbo, db>>
  <2>1. Contract!Finish(w) => Contract!Next BY DEF Contract!Next
  <2> QED BY <1>3, <1>4, <2>1, SubmitMaps, FinishMaps DEF Progress
<1>5. CASE Thread
  <2>1. Contract!Publish BY <1>5, ThreadMaps
  <2> QED BY <2>1 DEF Contract!Next
<1>6. CASE Crash
  <2>1. /\ batch' = [w \in Writers |-> {}] /\ txn' = {} /\ ops' = << >> /\ db' = db
        /\ \A w \in Writers : pc'[w] = "idle"
    BY <1>6 DEF Crash
  <2>2. DOMAIN ops' = {} BY <2>1
  <2>3. Limbo' = {}
    <3>1. \A e : e \notin Limbo' BY <2>1, <2>2, LimboMembers
    <3> QED BY <3>1
  <2>4. Acked' = {} BY <2>1 DEF Acked
  <2>5. Contract!Crash BY <2>1, <2>3, <2>4 DEF Contract!Crash, Acked
  <2> QED BY <2>5 DEF Contract!Next
<1>7. CASE UNCHANGED writeVars
  BY <1>7 DEF writeVars, Acked, Limbo, Contract!vars
<1>8. UNCHANGED <<batch, Acked, Limbo, db>> => UNCHANGED Contract!vars
  BY DEF Contract!vars, Acked
<1> QED BY <1>2, <1>4, <1>5, <1>6, <1>7, <1>8 DEF Next

\* Every behaviour of the lock, the retries, the connection thread and the transaction is
\* one that callers were promised: acknowledged only when durable, nothing durable that
\* was not asked for, nothing durable lost (sqlite.py:148-205).
THEOREM WritePathImplementsContract == Spec => ImplementsContract
<1>1. Init => Contract!Init /\ Asked
  <2> SUFFICES ASSUME Init PROVE Contract!Init /\ Asked OBVIOUS
  <2>1. /\ batch = [w \in Writers |-> {}] /\ txn = {} /\ DOMAIN ops = {} /\ db = {}
        /\ \A w \in Writers : pc[w] = "idle"
    BY DEF Init
  <2>2. Limbo = {}
    <3>1. \A e : e \notin Limbo BY <2>1, LimboMembers
    <3> QED BY <3>1
  <2>3. Acked = {} BY <2>1 DEF Acked
  <2> QED BY <2>1, <2>2, <2>3 DEF Contract!Init, Asked, Acked
<1>2. IInv /\ IInv' /\ Asked /\ [Next]_writeVars => Asked' /\ [Contract!Next]_(Contract!vars)
  BY AskedStep, ContractStep
<1> QED BY <1>1, <1>2, WritePathInvariant, PTL DEF Spec, ImplementsContract, Contract!Spec


(***************************************************************************)
(* The buffer.                                                             *)
(***************************************************************************)

\* deque.append keeps the new trade and, below the bound, every other one.
LEMMA PushedProperties ==
  ASSUME buffer \in Seq(Trades), NEW t \in Trades
  PROVE  /\ Pushed(t) \in Seq(Trades)
         /\ t \in ToSet(Pushed(t))
         /\ Len(buffer) < BufferCap => ToSet(Pushed(t)) = ToSet(buffer) \cup {t}
<1>1. \A s \in Seq(Trades) :
        /\ Append(s, t) \in Seq(Trades)
        /\ ToSet(Append(s, t)) = ToSet(s) \cup {t}
  <2> TAKE s \in Seq(Trades)
  <2>1. /\ Append(s, t) \in Seq(Trades)
        /\ Len(Append(s, t)) = Len(s) + 1
        /\ \A i \in 1..Len(s) : Append(s, t)[i] = s[i]
        /\ Append(s, t)[Len(s) + 1] = t
    BY AppendProperties
  <2>2. DOMAIN Append(s, t) = 1..(Len(s) + 1) /\ DOMAIN s = 1..Len(s)
        /\ Len(s) \in Nat
    BY <2>1
  <2>3. \A x : x \in ToSet(Append(s, t)) => x \in ToSet(s) \cup {t}
    BY <2>1, <2>2 DEF ToSet
  <2>4. \A x : x \in ToSet(s) \cup {t} => x \in ToSet(Append(s, t))
    <3>1. t \in ToSet(Append(s, t)) BY <2>1, <2>2 DEF ToSet
    <3>2. \A i \in DOMAIN s : s[i] \in ToSet(Append(s, t))
      BY <2>1, <2>2 DEF ToSet
    <3>3. \A x \in ToSet(s) : x \in ToSet(Append(s, t)) BY <3>2 DEF ToSet
    <3> QED BY <3>1, <3>3
  <2> QED BY <2>1, <2>3, <2>4
<1>2. CASE Len(buffer) < BufferCap
  BY <1>1, <1>2 DEF Pushed
<1>3. CASE ~(Len(buffer) < BufferCap)
  <2>1. buffer # << >> BY <1>3, CapAssumption, EmptySeq
  <2>2. Tail(buffer) \in Seq(Trades) BY <2>1, HeadTailProperties
  <2> QED BY <1>1, <1>3, <2>2 DEF Pushed
<1> QED BY <1>2, <1>3

\* What a sequence over the trades holds are trades.
LEMMA ToSetType ==
  ASSUME NEW s \in Seq(Trades)
  PROVE  ToSet(s) \in SUBSET Trades
BY ElementOfSeq, LenProperties DEF ToSet

(***************************************************************************)
(* The inductive invariant.                                                *)
(***************************************************************************)

\* As long as nothing failed there is no backoff, so a trade is in a running
\* flush from the moment it is received until it is durable.
HandedOver ==
  events \subseteq {"overlap"} => ~backoff /\ received \subseteq db \cup InFlight

\* As long as no trade was received during another task's flush, the buffer has
\* every trade that is not durable, and a running flush writes all of it.
Buffered ==
  events \subseteq {"fault", "cancel"} =>
    /\ received \subseteq db \cup ToSet(buffer)
    /\ \A s \in Streams :
         pc[s] # "idle" => ToSet(buffer) \subseteq db \cup batch[s]

IngestInv == IngestTypeOK /\ IInv /\ HandedOver /\ Buffered

\* It holds at first.
LEMMA IngestInitInv == IngestInit => IngestInv
<1> SUFFICES ASSUME IngestInit PROVE IngestInv OBVIOUS
<1>1. IInv BY InitIInv DEF IngestInit
<1>2. << >> \in Seq(Trades) BY EmptySeq
<1>3. IngestTypeOK BY <1>1, <1>2 DEF IngestInit, IngestTypeOK, IInv
<1>4. HandedOver /\ Buffered
  BY StreamsAssumption DEF IngestInit, Init, HandedOver, Buffered
<1> QED BY <1>1, <1>3, <1>4 DEF IngestInv

\* A step that leaves the ingestion alone, the flushes running and the database
\* no smaller keeps the invariant.
LEMMA QuietStep ==
  ASSUME IngestInv, IInv', UNCHANGED ingestVars,
         db \subseteq db',
         \A s \in Streams : /\ batch'[s] = batch[s]
                            /\ pc'[s] = "idle" <=> pc[s] = "idle"
  PROVE  IngestInv'
<1> USE DEF IngestInv, ingestVars
<1>1. IngestTypeOK' BY DEF IngestTypeOK, IInv
<1>2. InFlight' = InFlight BY DEF InFlight
<1>3. HandedOver' BY <1>2 DEF HandedOver
<1>4. Buffered' BY DEF Buffered
<1> QED BY <1>1, <1>3, <1>4

\* The steps of a write between its start and its end leave the buffer alone.
LEMMA PipelineInv ==
  ASSUME IngestInv, NEW w \in Writers, PipelineStep(w)
  PROVE  IngestInv'
<1>1. Progress(w) /\ UNCHANGED ingestVars BY DEF PipelineStep, Progress
<1>2. IInv' BY <1>1, WriterStep DEF IngestInv
<1>3. /\ UNCHANGED <<batch, db>>
      /\ \A s \in Writers : pc'[s] = "idle" <=> pc[s] = "idle"
  <2>1. pc \in [Writers -> PC] BY DEF IngestInv, IInv, TypeOK
  <2>2. Acquire(w) => pc[w] = "queued"
    <3>1. queue \in Seq(Writers) BY DEF IngestInv, IInv, TypeOK
    <3>2. queue # << >> => 1 \in DOMAIN queue /\ Head(queue) = queue[1]
      BY <3>1
    <3> QED BY <3>2 DEF Acquire, IngestInv, IInv, QueueMatch
  <2> QED BY <2>1, <2>2 DEF PipelineStep, Acquire, Execute, Retry, Commit, connVars
<1> QED BY <1>1, <1>2, <1>3, QuietStep, StreamsAssumption

\* Leaving the write path empties the leaver's batch and disturbs nobody else.
LEMMA LeaveEffect ==
  ASSUME TypeOK, NEW w \in Writers, Leave(w)
  PROVE  /\ pc'[w] = "idle" /\ batch'[w] = {}
         /\ \A v \in Writers : v # w => pc'[v] = pc[v] /\ batch'[v] = batch[v]
BY DEF Leave, TypeOK

\* A new trade is in the buffer and, outside a backoff window, in the flush that starts.
LEMMA DispatchInv ==
  ASSUME IngestInv, NEW s \in Streams, NEW t \in Trades, DispatchTrade(s, t)
  PROVE  IngestInv'
<1> USE DEF IngestInv
<1>1. s \in Writers /\ Trades \subseteq Effects
  BY StreamsAssumption, TradesAssumption
<1>2. /\ buffer' \in Seq(Trades)
      /\ t \in ToSet(buffer')
      /\ Len(buffer) < BufferCap => ToSet(buffer') = ToSet(buffer) \cup {t}
  BY PushedProperties DEF DispatchTrade, IngestTypeOK
<1>3. ToSet(buffer') \in SUBSET Effects BY <1>1, <1>2, ToSetType
<1>4. \/ backoff /\ UNCHANGED writeVars
      \/ ~backoff /\ Enqueue(s, ToSet(buffer'))
  BY DEF DispatchTrade
<1>5. IInv' BY <1>1, <1>3, <1>4, EnqueueStep, StutterStep
<1>6. /\ received' = received \cup {t} /\ backoff' = backoff
      /\ events \subseteq events' /\ events' \subseteq Events
      /\ "overflow" \notin events' => Len(buffer) < BufferCap
      /\ "overlap" \notin events' => \A r \in Streams : pc[r] = "idle"
      /\ pc[s] = "idle"
  BY DEF DispatchTrade, IngestTypeOK, Events
<1>7. IngestTypeOK' BY <1>2, <1>5, <1>6 DEF IngestTypeOK, IInv
<1>8. db' = db /\ InFlight \subseteq InFlight' \cup batch[s]
  <2>1. db' = db BY <1>4 DEF Enqueue, writeVars
  <2>2. \A r \in Streams : r # s => batch'[r] = batch[r]
    BY <1>1, <1>4, StreamsAssumption DEF Enqueue, writeVars, IInv, TypeOK
  <2>3. ASSUME NEW x \in InFlight PROVE x \in InFlight' \cup batch[s]
    <3>1. PICK r \in Streams : x \in batch[r] BY <2>3 DEF InFlight
    <3> QED BY <2>2, <3>1 DEF InFlight
  <2> QED BY <2>1, <2>3
<1>9. HandedOver'
  <2>1. SUFFICES ASSUME events' \subseteq {"overlap"}
                 PROVE  ~backoff' /\ received' \subseteq db' \cup InFlight'
    BY DEF HandedOver
  <2>2. ~backoff /\ received \subseteq db \cup InFlight
    BY <1>6, <2>1 DEF HandedOver
  <2>3. batch' = [batch EXCEPT ![s] = ToSet(buffer')]
    BY <1>4, <2>2 DEF Enqueue
  <2>4. batch'[s] = ToSet(buffer') BY <1>1, <2>3 DEF IInv, TypeOK
  <2>5. t \in InFlight' BY <1>2, <2>4 DEF InFlight
  <2>6. batch[s] = {} BY <1>1, <1>6 DEF IInv, IdleEmpty
  <2> QED BY <1>6, <1>8, <2>2, <2>5, <2>6
<1>10. Buffered'
  <2>1. SUFFICES ASSUME events' \subseteq {"fault", "cancel"}
                 PROVE  /\ received' \subseteq db' \cup ToSet(buffer')
                        /\ \A r \in Streams : pc'[r] # "idle" =>
                             ToSet(buffer') \subseteq db' \cup batch'[r]
    BY DEF Buffered
  <2>2. received \subseteq db \cup ToSet(buffer) BY <1>6, <2>1 DEF Buffered
  <2>3. /\ \A r \in Streams : pc[r] = "idle"
        /\ ToSet(buffer') = ToSet(buffer) \cup {t}
    BY <1>2, <1>6, <2>1
  <2>4. \A r \in Streams : pc'[r] # "idle" => batch'[r] = ToSet(buffer')
    BY <1>1, <1>4, <2>3, StreamsAssumption DEF Enqueue, writeVars, IInv, TypeOK
  <2> QED BY <1>6, <1>8, <2>2, <2>3, <2>4
<1> QED BY <1>5, <1>7, <1>9, <1>10

\* A flush that returns has made what it took durable.
LEMMA FlushDoneInv ==
  ASSUME IngestInv, NEW s \in Streams, FlushDone(s)
  PROVE  IngestInv'
<1> USE DEF IngestInv
<1>1. s \in Writers BY StreamsAssumption
<1>2. /\ Return(s) /\ pc[s] = "committed" /\ Leave(s) /\ db' = db
      /\ buffer' = << >> /\ backoff' = FALSE
      /\ UNCHANGED <<received, events>>
  BY DEF FlushDone, Return, connVars
<1>3. IInv' BY <1>1, <1>2, ReturnStep
<1>4. batch[s] \subseteq db BY <1>1, <1>2 DEF IInv, Staged
<1>5. /\ batch'[s] = {}
      /\ \A v \in Writers : v # s => batch'[v] = batch[v]
  BY <1>1, <1>2, LeaveEffect DEF IInv
<1>6. IngestTypeOK'
  <2>1. << >> \in Seq(Trades) BY EmptySeq
  <2> QED BY <1>2, <1>3, <2>1 DEF IngestTypeOK, IInv
<1>7. InFlight \subseteq InFlight' \cup db
  BY <1>4, <1>5, StreamsAssumption DEF InFlight
<1>8. HandedOver' BY <1>2, <1>7 DEF HandedOver
<1>9. Buffered'
  <2>1. ToSet(buffer') = {} BY <1>2 DEF ToSet
  <2>2. events \subseteq {"fault", "cancel"} => received \subseteq db
    BY <1>2, <1>4 DEF Buffered
  <2> QED BY <1>2, <2>1, <2>2 DEF Buffered
<1> QED BY <1>3, <1>6, <1>8, <1>9

\* A flush that failed or was cancelled keeps the buffer, and the history says
\* so.
LEMMA FlushLostInv ==
  ASSUME IngestInv, NEW s \in Streams, FlushFailed(s) \/ FlushCancelled(s)
  PROVE  IngestInv'
<1> USE DEF IngestInv
<1>1. s \in Writers BY StreamsAssumption
<1>2. /\ Progress(s) \/ Cancel(s)
      /\ UNCHANGED <<buffer, received, db>> /\ backoff' \in BOOLEAN
      /\ events \subseteq events' /\ events' \subseteq Events
      /\ ~(events' \subseteq {"overlap"})
  <2>1. CASE FlushFailed(s)
    <3>1. Raise(s) /\ db' = db BY <2>1 DEF FlushFailed, Raise, connVars
    <3>2. Progress(s) BY <3>1 DEF Progress
    <3> QED BY <2>1, <3>1, <3>2 DEF FlushFailed, IngestTypeOK, Events
  <2>2. CASE FlushCancelled(s)
    <3>1. Cancel(s) BY <2>2 DEF FlushCancelled
    <3>2. db' = db BY <3>1 DEF Cancel, CancelWaiting, CancelInside, connVars
    <3> QED BY <2>2, <3>1, <3>2 DEF FlushCancelled, IngestTypeOK, Events
  <2> QED BY <2>1, <2>2
<1>3. IInv' BY <1>1, <1>2, WriterStep
<1>4. IngestTypeOK' BY <1>2, <1>3 DEF IngestTypeOK, IInv
<1>5. HandedOver' BY <1>2 DEF HandedOver
<1>6. /\ pc'[s] = "idle"
      /\ \A v \in Writers : v # s => pc'[v] = pc[v] /\ batch'[v] = batch[v]
  BY <1>1 DEF FlushFailed, FlushCancelled, Raise, Cancel, CancelWaiting,
              CancelInside, Leave, IInv, TypeOK
<1>7. Buffered' BY <1>2, <1>6, StreamsAssumption DEF Buffered
<1> QED BY <1>3, <1>4, <1>5, <1>7

\* A write of another coroutine touches no trade.
LEMMA OtherWriteInv ==
  ASSUME IngestInv, NEW w \in Writers \ Streams, OtherWrite(w)
  PROVE  IngestInv'
<1> USE DEF IngestInv
<1>1. UNCHANGED ingestVars BY DEF OtherWrite
<1>2. CASE \E effects \in SUBSET (Effects \ Trades) : Enqueue(w, effects)
  <2>1. PICK effects \in SUBSET (Effects \ Trades) : Enqueue(w, effects)
    BY <1>2
  <2>2. IInv' BY <2>1, EnqueueStep
  <2>3. /\ db' = db
        /\ \A s \in Streams : batch'[s] = batch[s] /\ pc'[s] = pc[s]
    BY <2>1, StreamsAssumption DEF Enqueue, IInv, TypeOK
  <2> QED BY <1>1, <2>2, <2>3, QuietStep
<1>3. CASE Return(w) \/ Raise(w) \/ Cancel(w)
  <2>1. IInv' BY <1>3, WriterStep DEF Progress
  <2>2. /\ db' = db
        /\ \A s \in Streams : batch'[s] = batch[s] /\ pc'[s] = pc[s]
    BY <1>3, StreamsAssumption
       DEF Return, Raise, Cancel, CancelWaiting, CancelInside, Leave,
           connVars, IInv, TypeOK
  <2> QED BY <1>1, <2>1, <2>2, QuietStep
<1> QED BY <1>2, <1>3 DEF OtherWrite

\* The connection thread takes nothing from the database.
LEMMA ConnectionInv ==
  ASSUME IngestInv, ConnectionStep
  PROVE  IngestInv'
<1> USE DEF IngestInv
<1>1. Thread /\ UNCHANGED ingestVars BY DEF ConnectionStep
<1>2. IInv' BY <1>1, ThreadStep
<1>3. PICK kind \in {"exec", "commit"} : ThreadTakes(kind)
  BY <1>1 DEF Thread, ExecOk, ExecLocked, ExecError, CommitOk, CommitError
<1>4. /\ NextOp \in Op
      /\ NextOp.live => pc[NextOp.writer] \in {"executing", "committing"}
  BY <1>3, ThreadTakesProperties
<1>5. batch' = batch /\ db \subseteq db'
  BY <1>1 DEF Thread, ExecOk, ExecLocked, ExecError, CommitOk, CommitError,
              ThreadTakes
<1>6. PICK outcome \in {"executed", "locked", "committed", "failed"} :
        Report(outcome)
  BY <1>1 DEF Thread, ExecOk, ExecLocked, ExecError, CommitOk, CommitError
<1>7. \A s \in Writers : pc'[s] = "idle" <=> pc[s] = "idle"
  BY <1>4, <1>6 DEF Report, IInv, TypeOK, Op
<1> QED BY <1>1, <1>2, <1>5, <1>7, QuietStep, StreamsAssumption

\* Every step keeps it.
LEMMA IngestNextInv == IngestInv /\ [IngestNext]_vars => IngestInv'
<1> SUFFICES ASSUME IngestInv, [IngestNext]_vars PROVE IngestInv' OBVIOUS
<1>1. CASE \E s \in Streams, t \in Trades : DispatchTrade(s, t)
  BY <1>1, DispatchInv
<1>2. CASE \E s \in Streams :
             FlushDone(s) \/ FlushFailed(s) \/ FlushCancelled(s)
  BY <1>2, FlushDoneInv, FlushLostInv
<1>3. CASE BackoffElapses
  <2>1. IInv' BY <1>3, StutterStep DEF BackoffElapses, IngestInv
  <2> QED BY <1>3, <2>1 DEF BackoffElapses, IngestInv, IngestTypeOK, IInv,
             HandedOver, Buffered, InFlight, writeVars
<1>4. CASE \E w \in Writers : PipelineStep(w) BY <1>4, PipelineInv
<1>5. CASE \E w \in Writers \ Streams : OtherWrite(w) BY <1>5, OtherWriteInv
<1>6. CASE ConnectionStep BY <1>6, ConnectionInv
<1>7. CASE IngestCrash
  <2>1. IInv' BY <1>7, CrashStep DEF IngestCrash, IngestInv
  <2>2. << >> \in Seq(Trades) BY EmptySeq
  <2>3. "crash" \in events' /\ events' \subseteq Events
    BY <1>7 DEF IngestCrash, IngestInv, IngestTypeOK, Events
  <2> QED BY <1>7, <2>1, <2>2, <2>3
          DEF IngestCrash, IngestInv, IngestTypeOK, IInv, HandedOver, Buffered
<1>8. CASE UNCHANGED vars
  <2>1. IInv' BY <1>8, StutterStep DEF vars, IngestInv
  <2> QED BY <1>8, <2>1 DEF vars, ingestVars, writeVars, IngestInv,
             IngestTypeOK, IInv, HandedOver, Buffered, InFlight
<1> QED BY <1>1, <1>2, <1>3, <1>4, <1>5, <1>6, <1>7, <1>8 DEF IngestNext

\* The inductive invariant holds of every behaviour of the ingestion.
THEOREM IngestInvariant == IngestSpec => []IngestInv
BY IngestInitInv, IngestNextInv, PTL DEF IngestSpec

(***************************************************************************)
(* When no trade is lost.                                                  *)
(***************************************************************************)

\* The variables of the ingestion keep their types (Orchestrator.__init__).
THEOREM IngestTypeCorrect == IngestSpec => []IngestTypeOK
<1>1. IngestInv => IngestTypeOK BY DEF IngestInv
<1> QED BY <1>1, IngestInvariant, PTL

\* With any number of concurrent flushes over one shared buffer, no trade is
\* lost while no flush fails or is cancelled (_flush_trade_buffer).
THEOREM FaultlessKeepsTrades == IngestSpec => []NoGapWithoutFault
<1>1. IngestInv => NoGapWithoutFault
  BY DEF IngestInv, HandedOver, NoGapWithoutFault, Gaps
<1> QED BY <1>1, IngestInvariant, PTL

\* With any number of failed and cancelled flushes, no trade is lost while none
\* arrives during another task's flush (_dispatch_trade).
THEOREM UnsharedKeepsTrades == IngestSpec => []NoGapWithoutOverlap
<1>1. IngestInv => NoGapWithoutOverlap
  BY DEF IngestInv, Buffered, NoGapWithoutOverlap, Gaps
<1> QED BY <1>1, IngestInvariant, PTL
=============================================================================
