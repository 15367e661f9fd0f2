---------------------------- MODULE WriteContract ----------------------------
(***************************************************************************)
(* What a caller of SqliteStorage may rely on, without the lock, the       *)
(* retries, the connection thread and the transaction.                     *)
(*                                                                         *)
(* A write is asked for, and then either acknowledged, which it may be     *)
(* only when all of it is durable, or given up.  Effects of a write that   *)
(* is running or was given up are in limbo: they may still become durable, *)
(* in part, until the process dies.  Nothing else ever becomes durable and *)
(* nothing durable is lost.                                                *)
(***************************************************************************)
CONSTANTS Writers, Effects

VARIABLES
  pending,  \* the effects each writer is waiting for; {} when it is not writing
  acked,    \* writers whose write is acknowledged and about to return
  limbo,    \* effects that may become durable without being acknowledged
  db        \* durable effects

vars == <<pending, acked, limbo, db>>

Init ==
  /\ pending = [w \in Writers |-> {}]
  /\ acked = {}
  /\ limbo = {}
  /\ db = {}

Ask(w, effects) ==
  /\ pending[w] = {}
  /\ pending' = [pending EXCEPT ![w] = effects]
  /\ limbo' = limbo \cup effects
  /\ UNCHANGED <<acked, db>>

\* Some of what is in limbo becomes durable, some of it may be forgotten, and
\* one writer all of whose effects are now durable may be told so.
Publish ==
  /\ \E effects \in SUBSET limbo : db' = db \cup effects
  /\ limbo' \subseteq limbo
  /\ \/ UNCHANGED acked
     \/ \E w \in Writers : /\ pending[w] # {}
                           /\ pending[w] \subseteq db'
                           /\ acked' = acked \cup {w}
  /\ UNCHANGED pending

\* The write is over: it returned if it was acknowledged, and raised or was
\* cancelled if not.
Finish(w) ==
  /\ pending' = [pending EXCEPT ![w] = {}]
  /\ acked' = acked \ {w}
  /\ limbo' \subseteq limbo
  /\ UNCHANGED db

Crash ==
  /\ pending' = [w \in Writers |-> {}]
  /\ acked' = {}
  /\ limbo' = {}
  /\ UNCHANGED db

Next ==
  \/ \E w \in Writers, effects \in (SUBSET Effects) \ {{}} : Ask(w, effects)
  \/ \E w \in Writers : Finish(w)
  \/ Publish
  \/ Crash

Spec == Init /\ [][Next]_vars
=============================================================================
