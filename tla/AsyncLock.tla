----------------------------- MODULE AsyncLock -----------------------------
(***************************************************************************)
(* asyncio.Lock as the code under src/ relies on it: a task that awaits    *)
(* acquire() takes the lock when nobody holds it or waits for it and       *)
(* otherwise queues up; release() hands the lock to the task that waited   *)
(* longest; a waiter that is cancelled leaves the queue.                   *)
(*                                                                         *)
(* A lock is a record: "queued" holds the owner and the waiters, and       *)
(* ahead[t] the queued tasks that came before t.  The owner is the queued  *)
(* task nobody is ahead of.  The order of arrival is all that a FIFO queue *)
(* adds to a set, and kept this way it is first-order.                     *)
(***************************************************************************)

LockType(T) == [queued : SUBSET T, ahead : [T -> SUBSET T]]

FreeLock(T) == [queued |-> {}, ahead |-> [t \in T |-> {}]]

\* t is the owner of lock l.
Owns(l, t) == t \in l.queued /\ l.ahead[t] = {}

\* t arrives: it becomes the owner exactly when the queue was empty.
Enqueue(l, t) == [queued |-> l.queued \cup {t},
                  ahead  |-> [l.ahead EXCEPT ![t] = l.queued]]

\* t leaves: the owner releases, or a waiter is cancelled.
Leave(l, t) == [queued |-> l.queued \ {t},
                ahead  |-> [x \in DOMAIN l.ahead |->
                              IF x = t THEN {} ELSE l.ahead[x] \ {t}]]

\* The order of arrival of the tasks that are queued is total and strict,
\* and a task that is not queued has nobody ahead.
Queue(l, T) ==
  /\ l \in LockType(T)
  /\ \A t \in T : l.ahead[t] \subseteq l.queued \ {t}
  /\ \A t \in T : t \notin l.queued => l.ahead[t] = {}
  /\ \A x, y \in l.queued : x # y => (x \in l.ahead[y] <=> y \notin l.ahead[x])

=============================================================================
