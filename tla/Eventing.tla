------------------------------ MODULE Eventing ------------------------------
(***************************************************************************)
(* The events of one renderer                                              *)
(* (src/src/miairx/protocols/dlna/eventing.py and _handle_event of         *)
(* server.py): control points subscribe, renew and unsubscribe while       *)
(* operations of the renderer and the health check change its state and    *)
(* call notify(), each of which waits for its requests alone.  Such an     *)
(* operation may be the automatic next track, which a command cancels      *)
(* while it waits in notify().                                             *)
(*                                                                         *)
(* The state that an event tells is a version: 0 at first, one more with   *)
(* each change.  asyncio starts tasks in the order in which they were      *)
(* made; that order is kept here for the tasks of each subscription.       *)
(***************************************************************************)
EXTENDS Naturals, Sequences

CONSTANTS
  Subs,      \* bound: the subscriptions ever made
  Callers,   \* bound: calls of notify() that may be under way at once
  None,      \* nobody waits for the initial event
  MaxState,  \* bound: changes of the state
  MaxCalls   \* bound: calls of notify()

ASSUME EventingAssumption ==
  None \notin Callers /\ MaxState \in Nat /\ MaxCalls \in Nat

VARIABLES
  state,    \* the renderer's state
  subs,     \* "none", "here", "late" (expired, not yet removed), "gone"
  seq,      \* the SEQ of the next event of each subscription
  ready,    \* its tasks that have been made and have not started
  flying,   \* the requests that have been sent and have not ended
  waiting,  \* the callers that wait in notify()
  session,  \* the HTTP session: "none", "open", "closed"
  calls,    \* the calls of notify() so far
  told,     \* history: the state at the last call of notify()
  last,     \* history: the state that the last event of each told
  missed    \* history: whose latest event a cancelled call has dropped

vars == <<state, subs, seq, ready, flying, waiting, session, calls, told, last, missed>>

States == 0..MaxState
Task == [by : Callers \cup {None}, xml : States, cut : BOOLEAN]
Request == [sub : Subs, by : Callers \cup {None}, seq : Nat]

Init ==
  /\ state = 0 /\ subs = [s \in Subs |-> "none"] /\ seq = [s \in Subs |-> 0]
  /\ ready = [s \in Subs |-> <<>>] /\ flying = {} /\ waiting = {}
  /\ session = "none" /\ calls = 0 /\ told = 0 /\ last = [s \in Subs |-> 0] /\ missed = {}

\* The subscriptions that are in _subscriptions.
Known == {s \in Subs : subs[s] \in {"here", "late"}}

----------------------------------------------------------------------------
(* The renderer: notify(). *)

\* Not every change of the state is followed by a call of notify().
Change ==
  /\ state < MaxState /\ state' = state + 1
  /\ UNCHANGED <<subs, seq, ready, flying, waiting, session, calls, told, last, missed>>

\* One task for each of these subscriptions, all with the same event.
Schedule(to, c) ==
  /\ ready' = [s \in Subs |-> IF s \in to
                              THEN Append(ready[s], [by |-> c, xml |-> state, cut |-> FALSE])
                              ELSE ready[s]]
  /\ missed' = missed \ to
  /\ waiting' = IF to = {} THEN waiting ELSE waiting \cup {c}

\* Mutant of Notify: an expired subscription is passed over, not removed.
NotifySkips(c) ==
  /\ c \notin waiting /\ calls < MaxCalls
  /\ calls' = calls + 1 /\ told' = state
  /\ Schedule({s \in Subs : subs[s] = "here"}, c)
  /\ UNCHANGED <<state, subs, seq, flying, session, last>>

\* The event is built, what has expired is removed, and the rest is told.
Notify(c) ==
  /\ c \notin waiting /\ calls < MaxCalls
  /\ calls' = calls + 1 /\ told' = state
  /\ subs' = [s \in Subs |-> IF subs[s] = "late" THEN "gone" ELSE subs[s]]
  /\ Schedule({s \in Subs : subs[s] = "here"}, c)
  /\ UNCHANGED <<state, seq, flying, session, last>>

\* The caller is cancelled in notify(): gather() cancels the tasks it waits for.
\* What has started ends in its request, like any other; what has not started
\* will never send its event.
CallerCancelled(c) ==
  /\ c \in waiting
  /\ ready' = [s \in Subs |-> [i \in DOMAIN ready[s] |->
                 [ready[s][i] EXCEPT !.cut = @ \/ ready[s][i].by = c]]]
  /\ missed' = missed \cup
       {s \in Subs : ready[s] # <<>> /\ ready[s][Len(ready[s])].by = c}
  /\ UNCHANGED <<state, subs, seq, flying, waiting, session, calls, told, last>>

\* gather() has all its results.
Returns(c) ==
  /\ c \in waiting
  /\ \A s \in Subs : \A i \in DOMAIN ready[s] : ready[s][i].by # c
  /\ \A q \in flying : q.by # c
  /\ waiting' = waiting \ {c}
  /\ UNCHANGED <<state, subs, seq, ready, flying, session, calls, told, last, missed>>

----------------------------------------------------------------------------
(* The tasks: _notify_one, _send_initial_event and _send_notify. *)

\* SEQ is taken and counted before anything is awaited; a session that is
\* closed or was never there is opened.
Send(s, xml, by) ==
  /\ seq' = [seq EXCEPT ![s] = @ + 1]
  /\ last' = [last EXCEPT ![s] = xml]
  /\ flying' = flying \cup {[sub |-> s, by |-> by, seq |-> seq[s]]}
  /\ session' = "open"

\* The initial event tells the state of the moment, if the subscription is
\* there; the others were built when notify() was called,
\* and one that has been cancelled ends without a SEQ.
Starts(s) ==
  /\ ready[s] # <<>>
  /\ ready' = [ready EXCEPT ![s] = Tail(@)]
  /\ LET task == Head(ready[s]) IN
     CASE task.by # None /\ ~task.cut -> Send(s, task.xml, task.by)
       [] task.by = None /\ s \in Known -> Send(s, state, None)
       [] OTHER -> UNCHANGED <<seq, last, flying, session>>
  /\ UNCHANGED <<state, subs, waiting, calls, told, missed>>

\* Mutant of Ends: a request that has failed is sent once more.
EndsRetried(q) ==
  /\ q \in flying /\ flying' = flying \ {q}
  /\ ready' \in {ready, [ready EXCEPT ![q.sub] = Append(@, [by |-> q.by, xml |-> last[q.sub], cut |-> FALSE])]}
  /\ UNCHANGED <<state, subs, seq, waiting, session, calls, told, last, missed>>

\* An answer, an error or five seconds: nothing is sent again.
Ends(q) ==
  /\ q \in flying /\ flying' = flying \ {q}
  /\ UNCHANGED <<state, subs, seq, ready, waiting, session, calls, told, last, missed>>

----------------------------------------------------------------------------
(* The control points, time, and the end. *)

Subscribe(s) ==
  /\ subs[s] = "none"
  /\ subs' = [subs EXCEPT ![s] = "here"]
  /\ ready' = [ready EXCEPT ![s] = Append(@, [by |-> None, xml |-> 0, cut |-> FALSE])]
  /\ UNCHANGED <<state, seq, flying, waiting, session, calls, told, last, missed>>

\* A subscription that has expired is renewed as long as it is there.
Renew(s) ==
  /\ s \in Known
  /\ subs' = [subs EXCEPT ![s] = "here"]
  /\ UNCHANGED <<state, seq, ready, flying, waiting, session, calls, told, last, missed>>

Unsubscribe(s) ==
  /\ s \in Known
  /\ subs' = [subs EXCEPT ![s] = "gone"]
  /\ UNCHANGED <<state, seq, ready, flying, waiting, session, calls, told, last, missed>>

Expire(s) ==
  /\ subs[s] = "here"
  /\ subs' = [subs EXCEPT ![s] = "late"]
  /\ UNCHANGED <<state, seq, ready, flying, waiting, session, calls, told, last, missed>>

Close ==
  /\ session' = IF session = "open" THEN "closed" ELSE session
  /\ subs' = [s \in Subs |-> IF s \in Known THEN "gone" ELSE subs[s]]
  /\ UNCHANGED <<state, seq, ready, flying, waiting, calls, told, last, missed>>

----------------------------------------------------------------------------
Next ==
  \/ Change \/ Close
  \/ \E c \in Callers : Notify(c) \/ CallerCancelled(c) \/ Returns(c)
  \/ \E s \in Subs : \/ Starts(s) \/ Subscribe(s) \/ Renew(s)
                     \/ Unsubscribe(s) \/ Expire(s)
  \/ \E q \in flying : Ends(q)

Spec == Init /\ [][Next]_vars

----------------------------------------------------------------------------
TypeOK ==
  /\ state \in States /\ told \in States /\ calls \in 0..MaxCalls
  /\ subs \in [Subs -> {"none", "here", "late", "gone"}]
  /\ seq \in [Subs -> Nat] /\ last \in [Subs -> States]
  /\ ready \in [Subs -> Seq(Task)]
  /\ flying \subseteq Request /\ waiting \subseteq Callers /\ missed \subseteq Subs
  /\ session \in {"none", "open", "closed"}

\* The events of a subscription are numbered without a gap, and a later number
\* never tells an earlier state, also when a request has failed.  Only the second
\* one may: the initial event is built when its task starts, and the other may
\* have been built before.
EventsInOrder ==
  [][\A s \in Subs :
       <<seq[s], last[s]>>' # <<seq[s], last[s]>> =>
         seq[s]' = seq[s] + 1 /\ (seq[s] # 1 => last[s]' >= last[s])]_vars

\* As long as a SID is accepted for renewal its subscriber lacks an event only
\* where the renderer itself cut notify() short: once the tasks of a known
\* subscription have run, its initial event has been sent, and the state that
\* notify() was last called for, or a later one, as well - unless the caller was
\* cancelled before the last of these tasks started.  Such an event takes no
\* SEQ, so that the subscriber sees no gap; the next call of notify() makes it
\* good.
RenewableIsCurrent ==
  \A s \in Known :
    ready[s] = <<>> => seq[s] > 0 /\ (last[s] >= told \/ s \in missed)
=============================================================================
