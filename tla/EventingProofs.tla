--------------------------- MODULE EventingProofs ---------------------------
(***************************************************************************)
(* What Eventing keeps for any number of subscriptions, of callers and of  *)
(* changes of the state.                                                   *)
(***************************************************************************)
EXTENDS Eventing, SequenceTheorems, TLAPS

----------------------------------------------------------------------------
(* One subscription: its tasks q, where it is, the number n of its next    *)
(* event and what the last one told; now is the state and t that of the    *)
(* last call of notify(), and u the state that it must be told: nothing    *)
(* but the first one once a cancelled call has dropped its event.          *)

IsKnown(sub) == sub \in {"here", "late"}

\* The initial event comes first, and what the others tell was true at one
\* call of notify() after the other.
InOrder(q, t) ==
  /\ \A i \in DOMAIN q : q[i].by = None => i = 1 /\ ~q[i].cut
  /\ \A i \in DOMAIN q : q[i].by # None => q[i].xml <= t
  /\ \A i, j \in DOMAIN q :
       i < j /\ q[i].by # None /\ q[j].by # None => q[i].xml <= q[j].xml

\* From the second event on the tasks tell nothing older than the last one, and
\* as long as it is known its initial event has been sent or comes first.
Progress(q, sub, n, l, now) ==
  /\ l <= now
  /\ sub = "none" => q = <<>> /\ n = 0
  /\ n = 0 => l = 0
  /\ n > 0 => \A i \in DOMAIN q : q[i].by # None
  /\ n > 1 => \A i \in DOMAIN q : l <= q[i].xml
  /\ IsKnown(sub) /\ n = 0 => q # <<>> /\ q[1].by = None

\* The last task will tell what it must be told.
Current(q, sub, l, u) ==
  IsKnown(sub) =>
    /\ q = <<>> => l >= u
    /\ q # <<>> /\ q[Len(q)].by # None =>
         q[Len(q)].xml >= u /\ (q[Len(q)].cut => u = 0)

SubOK(q, sub, n, l, now, t, u) ==
  InOrder(q, t) /\ Progress(q, sub, n, l, now) /\ Current(q, sub, l, u)

Owed(s) == IF s \in missed THEN 0 ELSE told

SubInv(s) == SubOK(ready[s], subs[s], seq[s], last[s], state, told, Owed(s))

EventingInv ==
  /\ TypeOK /\ told <= state
  /\ \A s \in Subs : SubInv(s)

LEMMA TaskType ==
  ASSUME NEW q \in Seq(Task), NEW i \in DOMAIN q
  PROVE  /\ q[i] \in Task /\ q[i].xml \in Nat /\ q[i].by \in Callers \cup {None}
         /\ q[i].cut \in BOOLEAN
  <1>1. q[i] \in Task
    OBVIOUS
  <1>2. q[i].xml \in States /\ q[i].by \in Callers \cup {None} /\ q[i].cut \in BOOLEAN
    BY <1>1 DEF Task
  <1>. QED BY <1>1, <1>2 DEF States

\* It is left alone, or unsubscribed, while the state may change.
LEMMA OtherOK ==
  ASSUME NEW q \in Seq(Task), NEW n \in Nat, NEW l \in Nat, NEW now \in Nat, NEW t \in Nat,
         NEW u \in Nat,
         NEW sub, NEW sub2, NEW now2 \in Nat,
         SubOK(q, sub, n, l, now, t, u), now <= now2,
         IsKnown(sub2) => IsKnown(sub), sub2 = "none" => sub = "none"
  PROVE  SubOK(q, sub2, n, l, now2, t, u)
  BY DEF SubOK, InOrder, Progress, Current

\* notify() passes it over.
LEMMA PassedOK ==
  ASSUME NEW q \in Seq(Task), NEW n \in Nat, NEW l \in Nat, NEW now \in Nat, NEW t \in Nat,
         NEW u \in Nat,
         NEW sub, NEW sub2,
         SubOK(q, sub, n, l, now, t, u), t <= now,
         ~IsKnown(sub2), sub2 = "none" => sub = "none", NEW u2
  PROVE  SubOK(q, sub2, n, l, now, now, u2)
  <1>1. \A i \in DOMAIN q : q[i].xml \in Nat
    BY TaskType
  <1>. QED BY <1>1 DEF SubOK, InOrder, Progress, Current

\* notify() makes a task for it.
LEMMA QueuedOK ==
  ASSUME NEW q \in Seq(Task), NEW n \in Nat, NEW l \in Nat, NEW now \in Nat, NEW t \in Nat,
         NEW u \in Nat,
         NEW task \in Task, task.by # None, task.xml = now, ~task.cut,
         SubOK(q, "here", n, l, now, t, u), t <= now
  PROVE  SubOK(Append(q, task), "here", n, l, now, now, now)
  <1>. DEFINE p == Append(q, task)
  <1>1. /\ p \in Seq(Task) /\ Len(p) = Len(q) + 1 /\ Len(q) \in Nat /\ p # <<>>
        /\ DOMAIN p = 1..Len(p) /\ DOMAIN q = 1..Len(q)
        /\ p[Len(p)] = task /\ \A i \in 1..Len(q) : p[i] = q[i]
    OBVIOUS
  <1>2. \A i \in DOMAIN q : q[i].xml \in Nat
    BY TaskType
  <1>. HIDE DEF p
  <1>3. \A i \in DOMAIN p : i = Len(p) \/ (i \in DOMAIN q /\ i < Len(p) /\ p[i] = q[i])
    BY <1>1
  <1>4. InOrder(p, now)
    BY SMTT(30), <1>1, <1>2, <1>3 DEF SubOK, InOrder
  <1>5. q # <<>> => 1 \in DOMAIN q /\ p[1] = q[1]
    BY <1>1
  <1>6. Progress(p, "here", n, l, now)
    BY <1>1, <1>3, <1>5 DEF SubOK, Progress, IsKnown
  <1>7. Current(p, "here", l, now)
    BY <1>1 DEF Current
  <1>. QED BY <1>4, <1>6, <1>7 DEF SubOK, p

\* Its initial event is the first task.
LEMMA SubscribedOK ==
  ASSUME NEW q \in Seq(Task), NEW n \in Nat, NEW l \in Nat, NEW now \in Nat, NEW t \in Nat,
         NEW u \in Nat,
         NEW task \in Task, task.by = None, ~task.cut,
         SubOK(q, "none", n, l, now, t, u)
  PROVE  SubOK(Append(q, task), "here", n, l, now, t, u)
  <1>1. q = <<>> /\ n = 0 /\ l = 0
    BY DEF SubOK, Progress
  <1>. DEFINE p == Append(q, task)
  <1>2. DOMAIN p = {1} /\ p[1] = task /\ Len(p) = 1 /\ p # <<>>
    BY <1>1
  <1>. HIDE DEF p
  <1>3. SubOK(p, "here", n, l, now, t, u)
    BY <1>1, <1>2 DEF SubOK, InOrder, Progress, Current, IsKnown
  <1>. QED BY <1>3 DEF p

\* What is left of the tasks when the first one has started.
LEMMA TailOf ==
  ASSUME NEW q \in Seq(Task), q # <<>>
  PROVE  /\ Tail(q) \in Seq(Task) /\ Len(q) \in Nat /\ Len(q) >= 1 /\ 1 \in DOMAIN q
         /\ Head(q) = q[1]
         /\ \A i \in DOMAIN Tail(q) :
              i \in Nat /\ i + 1 \in DOMAIN q /\ Tail(q)[i] = q[i + 1] /\ 1 < i + 1
         /\ Tail(q) # <<>> => Len(q) > 1 /\ Tail(q)[Len(Tail(q))] = q[Len(q)]
         /\ Tail(q) = <<>> => Len(q) = 1
  <1>1. /\ Tail(q) \in Seq(Task) /\ Len(q) \in Nat /\ Len(q) >= 1 /\ DOMAIN q = 1..Len(q)
        /\ Len(Tail(q)) = Len(q) - 1 /\ DOMAIN Tail(q) = 1..(Len(q) - 1)
        /\ \A i \in 1..(Len(q) - 1) : Tail(q)[i] = q[i + 1]
        /\ Head(q) = q[1]
    OBVIOUS
  <1>2. Tail(q) # <<>> => Len(Tail(q)) # 0
    BY <1>1
  <1>3. Tail(q) = <<>> => Len(Tail(q)) = 0
    <2>1. Len(<<>>) = 0
      OBVIOUS
    <2>. QED BY <2>1, Zenon
  <1>4. ASSUME NEW i \in DOMAIN Tail(q)
        PROVE  i \in Nat /\ i + 1 \in DOMAIN q /\ Tail(q)[i] = q[i + 1] /\ 1 < i + 1
    BY <1>1
  <1>5. Tail(q) # <<>> => Len(q) > 1 /\ Tail(q)[Len(Tail(q))] = q[Len(q)]
    <2>1. Tail(q) # <<>> => Len(q) - 1 \in 1..(Len(q) - 1) /\ (Len(q) - 1) + 1 = Len(q)
      BY <1>1, <1>2
    <2>. QED BY <1>1, <1>2, <2>1
  <1>6. Tail(q) = <<>> => Len(q) = 1
    BY <1>1, <1>3
  <1>. QED BY <1>1, <1>4, <1>5, <1>6

\* The first task leaves the others in order.
LEMMA TailInOrder ==
  ASSUME NEW q \in Seq(Task), q # <<>>, NEW t \in Nat, InOrder(q, t)
  PROVE  /\ InOrder(Tail(q), t)
         /\ \A i \in DOMAIN Tail(q) : Tail(q)[i].by # None
         /\ q[1].by # None => \A i \in DOMAIN Tail(q) : q[1].xml <= Tail(q)[i].xml
  <1>1. \A i \in DOMAIN Tail(q) : Tail(q)[i].by # None
    BY TailOf DEF InOrder
  <1>2. \A i \in DOMAIN Tail(q) : Tail(q)[i].xml <= t
    BY <1>1, TailOf DEF InOrder
  <1>3. \A i, j \in DOMAIN Tail(q) : i < j => Tail(q)[i].xml <= Tail(q)[j].xml
    <2>1. \A i, j \in DOMAIN Tail(q) : i < j => i + 1 < j + 1
      BY TailOf
    <2>. QED BY SMTT(30), <1>1, <2>1, TailOf DEF InOrder
  <1>4. q[1].by # None => \A i \in DOMAIN Tail(q) : q[1].xml <= Tail(q)[i].xml
    BY <1>1, TailOf DEF InOrder
  <1>. QED BY <1>1, <1>2, <1>3, <1>4 DEF InOrder

\* The first task sends its event.
LEMMA SentOK ==
  ASSUME NEW q \in Seq(Task), q # <<>>,
         NEW n \in Nat, NEW l \in Nat, NEW now \in Nat, NEW t \in Nat,
         NEW u \in Nat, t <= now, u <= t,
         NEW sub, SubOK(q, sub, n, l, now, t, u), q[1].by # None \/ IsKnown(sub),
         NEW l2, l2 = IF q[1].by # None THEN q[1].xml ELSE now
  PROVE  /\ SubOK(Tail(q), sub, n + 1, l2, now, t, u)
         /\ n # 1 => l2 >= l
  <1>1. q[1].xml \in Nat /\ l2 \in Nat
    BY TailOf, TaskType
  <1>2. q[1].by = None => n = 0
    BY TailOf DEF SubOK, Progress
  <1>3. /\ InOrder(Tail(q), t)
        /\ \A i \in DOMAIN Tail(q) : Tail(q)[i].by # None
        /\ q[1].by # None => \A i \in DOMAIN Tail(q) : q[1].xml <= Tail(q)[i].xml
    BY TailInOrder DEF SubOK
  <1>4. l2 <= now
    BY <1>1, TailOf DEF SubOK, InOrder
  <1>5. Progress(Tail(q), sub, n + 1, l2, now)
    <2>1. sub # "none"
      BY DEF SubOK, Progress
    <2>. QED BY SMTT(30), <1>2, <1>3, <1>4, <2>1 DEF Progress
  <1>6. Current(Tail(q), sub, l2, u)
    BY TailOf DEF SubOK, Current
  <1>7. n # 1 => l2 >= l
    BY <1>1, <1>2, TailOf DEF SubOK, Progress
  <1>. QED BY <1>3, <1>5, <1>6, <1>7 DEF SubOK

\* The initial event of a subscription that is gone is not sent.
LEMMA DroppedOK ==
  ASSUME NEW q \in Seq(Task), q # <<>>,
         NEW n \in Nat, NEW l \in Nat, NEW now \in Nat, NEW t \in Nat,
         NEW u \in Nat,
         NEW sub, SubOK(q, sub, n, l, now, t, u), q[1].by = None, ~IsKnown(sub)
  PROVE  SubOK(Tail(q), sub, n, l, now, t, u)
  <1>1. n = 0 /\ sub # "none" /\ l = 0 /\ l <= now
    BY TailOf DEF SubOK, Progress
  <1>. QED BY <1>1, TailInOrder DEF SubOK, Progress, Current

\* A task that has been cancelled sends nothing either.
LEMMA CutOK ==
  ASSUME NEW q \in Seq(Task), q # <<>>,
         NEW n \in Nat, NEW l \in Nat, NEW now \in Nat, NEW t \in Nat,
         NEW u \in Nat,
         NEW sub, SubOK(q, sub, n, l, now, t, u), q[1].by # None, q[1].cut
  PROVE  SubOK(Tail(q), sub, n, l, now, t, u)
  <1>1. InOrder(Tail(q), t) /\ \A i \in DOMAIN Tail(q) : Tail(q)[i].by # None
    BY TailInOrder DEF SubOK
  <1>2. l <= now /\ sub # "none" /\ (n = 0 => l = 0) /\ (IsKnown(sub) => n # 0)
    BY DEF SubOK, Progress
  <1>3. n > 1 => \A i \in DOMAIN Tail(q) : l <= Tail(q)[i].xml
    BY TailOf DEF SubOK, Progress
  <1>4. Progress(Tail(q), sub, n, l, now)
    BY <1>1, <1>2, <1>3 DEF Progress
  <1>5. Current(Tail(q), sub, l, u)
    BY TailOf DEF SubOK, Current
  <1>. QED BY <1>1, <1>4, <1>5 DEF SubOK

\* The tasks q of a subscription when those of the caller c are cancelled.
Marked(q, c) == [i \in DOMAIN q |-> [q[i] EXCEPT !.cut = @ \/ q[i].by = c]]

LEMMA MarkedTypes ==
  ASSUME NEW q \in Seq(Task), NEW c \in Callers
  PROVE  /\ Marked(q, c) \in Seq(Task) /\ Len(Marked(q, c)) = Len(q)
         /\ \A i \in DOMAIN q : /\ Marked(q, c)[i].by = q[i].by
                                /\ Marked(q, c)[i].xml = q[i].xml
                                /\ Marked(q, c)[i].cut <=> q[i].cut \/ q[i].by = c
  <1>. DEFINE p == Marked(q, c)
  <1>1. Len(q) \in Nat /\ DOMAIN q = 1..Len(q) /\ DOMAIN p = 1..Len(q)
    BY DEF Marked
  <1>2. \A i \in DOMAIN q : p[i] = [q[i] EXCEPT !.cut = @ \/ q[i].by = c]
    BY DEF Marked
  <1>3. \A i \in DOMAIN q : q[i] \in Task
    BY TaskType
  <1>4. \A i \in DOMAIN q : /\ p[i] \in Task /\ p[i].by = q[i].by /\ p[i].xml = q[i].xml
                            /\ p[i].cut <=> q[i].cut \/ q[i].by = c
    BY <1>2, <1>3 DEF Task
  <1>5. p = [i \in 1..Len(q) |-> p[i]]
    BY <1>1 DEF Marked
  <1>. HIDE DEF p
  <1>6. p \in Seq(Task) /\ Len(p) = Len(q)
    <2>1. p \in [1..Len(q) -> Task]
      BY <1>1, <1>4, <1>5
    <2>. QED BY <1>1, <2>1, SeqDef, LenProperties
  <1>. QED BY <1>4, <1>6 DEF p

\* They stay in order, and if the last one is among them nothing is owed.
LEMMA MarkedOK ==
  ASSUME NEW q \in Seq(Task), NEW n \in Nat, NEW l \in Nat, NEW now \in Nat, NEW t \in Nat,
         NEW u \in Nat, NEW sub, NEW c \in Callers,
         SubOK(q, sub, n, l, now, t, u),
         NEW v \in Nat, v = u \/ v = 0,
         q # <<>> /\ q[Len(q)].by = c => v = 0
  PROVE  SubOK(Marked(q, c), sub, n, l, now, t, v)
  <1>. DEFINE p == Marked(q, c)
  <1>1. /\ p \in Seq(Task) /\ Len(p) = Len(q)
        /\ \A i \in DOMAIN q : /\ p[i].by = q[i].by /\ p[i].xml = q[i].xml
                               /\ p[i].cut <=> q[i].cut \/ q[i].by = c
    BY MarkedTypes
  <1>. HIDE DEF p
  <1>2. /\ Len(q) \in Nat /\ DOMAIN q = 1..Len(q) /\ DOMAIN p = 1..Len(q)
        /\ q # <<>> => Len(q) \in DOMAIN q /\ 1 \in DOMAIN q
        /\ p = <<>> <=> q = <<>>
    BY <1>1
  <1>3. \A i \in DOMAIN q : q[i].xml \in Nat
    BY TaskType
  <1>4. InOrder(p, t)
    BY <1>1, <1>2, EventingAssumption DEF SubOK, InOrder
  <1>5. Progress(p, sub, n, l, now)
    BY <1>1, <1>2 DEF SubOK, Progress
  <1>6. Current(p, sub, l, v)
    BY <1>1, <1>2, <1>3 DEF SubOK, Progress, Current
  <1>7. SubOK(p, sub, n, l, now, t, v)
    BY <1>4, <1>5, <1>6 DEF SubOK
  <1>. QED BY <1>7 DEF p

----------------------------------------------------------------------------
(* The actions. *)

LEMMA Types ==
  ASSUME EventingInv
  PROVE  /\ state \in Nat /\ told \in Nat /\ told <= state
         /\ \A s \in Subs : /\ ready[s] \in Seq(Task) /\ seq[s] \in Nat /\ last[s] \in Nat
                            /\ Owed(s) \in Nat /\ Owed(s) <= told
  BY DEF EventingInv, TypeOK, States, Owed

LEMMA InitOK == Init => EventingInv
  <1>. SUFFICES ASSUME Init PROVE EventingInv
    OBVIOUS
  <1>1. TypeOK
    BY EventingAssumption DEF Init, TypeOK, States
  <1>. QED
    BY <1>1 DEF Init, EventingInv, SubInv, SubOK, InOrder, Progress, Current, IsKnown

\* The tasks, the events and what notify() was called for stay as they are.
LEMMA OthersKeep ==
  ASSUME EventingInv, UNCHANGED <<seq, ready, told, last, missed>>, TypeOK', state <= state',
         \A s \in Subs : /\ IsKnown(subs'[s]) => IsKnown(subs[s])
                         /\ subs'[s] = "none" => subs[s] = "none"
  PROVE  EventingInv'
  <1>1. state' \in Nat
    BY DEF TypeOK, States
  <1>2. \A s \in Subs : SubInv(s)'
    BY <1>1, Types, OtherOK DEF EventingInv, SubInv, Owed
  <1>. QED BY <1>1, <1>2, Types DEF EventingInv

LEMMA ChangeKeeps ==
  ASSUME EventingInv, Change
  PROVE  EventingInv'
  <1>1. state' \in States /\ state <= state'
    BY EventingAssumption DEF Change, EventingInv, TypeOK, States
  <1>2. TypeOK'
    BY <1>1 DEF Change, EventingInv, TypeOK
  <1>. QED BY <1>1, <1>2, OthersKeep DEF Change

LEMMA RestKeeps ==
  ASSUME EventingInv,
         \/ \E s \in Subs : Renew(s) \/ Unsubscribe(s) \/ Expire(s)
         \/ Close \/ (\E c \in Callers : Returns(c)) \/ (\E q \in flying : Ends(q))
         \/ UNCHANGED vars
  PROVE  EventingInv'
  <1>1. TypeOK'
    BY DEF Renew, Unsubscribe, Expire, Close, Returns, Ends, EventingInv, TypeOK, vars
  <1>2. \A r \in Subs : /\ IsKnown(subs'[r]) => IsKnown(subs[r])
                        /\ subs'[r] = "none" => subs[r] = "none"
    BY DEF Renew, Unsubscribe, Expire, Close, Returns, Ends, Known, IsKnown, EventingInv, TypeOK, vars
  <1>3. UNCHANGED <<state, seq, ready, told, last, missed>> /\ state <= state'
    BY Types DEF Renew, Unsubscribe, Expire, Close, Returns, Ends, vars
  <1>. QED BY <1>1, <1>2, <1>3, OthersKeep

LEMMA CancelKeeps ==
  ASSUME EventingInv, NEW c \in Callers, CallerCancelled(c)
  PROVE  EventingInv'
  <1>. DEFINE dropped == {s \in Subs : ready[s] # <<>> /\ ready[s][Len(ready[s])].by = c}
  <1>1. /\ ready' = [s \in Subs |-> Marked(ready[s], c)] /\ missed' = missed \cup dropped
        /\ UNCHANGED <<state, subs, seq, flying, waiting, session, calls, told, last>>
    BY DEF CallerCancelled, Marked
  <1>2. ready' \in [Subs -> Seq(Task)]
    BY <1>1, Types, MarkedTypes
  <1>3. TypeOK'
    BY <1>1, <1>2 DEF EventingInv, TypeOK
  <1>4. ASSUME NEW s \in Subs
        PROVE  SubInv(s)'
    <2>1. /\ Owed(s)' \in Nat /\ (Owed(s)' = Owed(s) \/ Owed(s)' = 0)
          /\ s \in dropped => Owed(s)' = 0
      BY <1>1, Types DEF Owed
    <2>2. ready[s] # <<>> /\ ready[s][Len(ready[s])].by = c => Owed(s)' = 0
      BY <2>1
    <2>3. SubOK(Marked(ready[s], c), subs[s], seq[s], last[s], state, told, Owed(s)')
      BY <2>1, <2>2, Types, MarkedOK DEF EventingInv, SubInv
    <2>. QED BY <1>1, <2>3 DEF SubInv
  <1>. QED BY <1>1, <1>3, <1>4 DEF EventingInv

LEMMA SubscribeKeeps ==
  ASSUME EventingInv, NEW s \in Subs, Subscribe(s)
  PROVE  EventingInv'
  <1>. DEFINE task == [by |-> None, xml |-> 0, cut |-> FALSE]
  <1>1. /\ subs[s] = "none" /\ subs' = [subs EXCEPT ![s] = "here"]
        /\ ready' = [ready EXCEPT ![s] = Append(@, task)]
        /\ UNCHANGED <<state, seq, flying, waiting, session, calls, told, last, missed>>
    BY DEF Subscribe
  <1>2. task \in Task /\ task.by = None /\ ~task.cut
    BY EventingAssumption DEF Task, States
  <1>. HIDE DEF task
  <1>3. TypeOK'
    BY <1>1, <1>2 DEF EventingInv, TypeOK
  <1>4. SubInv(s)'
    <2>1. SubOK(Append(ready[s], task), "here", seq[s], last[s], state, told, Owed(s))
      BY <1>1, <1>2, Types, SubscribedOK DEF EventingInv, SubInv
    <2>. QED BY <1>1, <2>1 DEF SubInv, EventingInv, TypeOK, Owed
  <1>5. \A r \in Subs : r # s => SubInv(r)'
    BY <1>1 DEF EventingInv, TypeOK, SubInv, Owed
  <1>. QED BY <1>1, <1>3, <1>4, <1>5 DEF EventingInv

LEMMA NotifyKeeps ==
  ASSUME EventingInv, NEW c \in Callers, Notify(c)
  PROVE  EventingInv'
  <1>. DEFINE task == [by |-> c, xml |-> state, cut |-> FALSE]
  <1>1. /\ told' = state /\ calls' = calls + 1 /\ calls < MaxCalls
        /\ subs' = [s \in Subs |-> IF subs[s] = "late" THEN "gone" ELSE subs[s]]
        /\ ready' = [s \in Subs |-> IF subs[s] = "here" THEN Append(ready[s], task) ELSE ready[s]]
        /\ waiting' \subseteq waiting \cup {c}
        /\ missed' = missed \ {s \in Subs : subs[s] = "here"}
        /\ UNCHANGED <<state, seq, flying, session, last>>
    BY DEF Notify, Schedule
  <1>2. task \in Task /\ task.by # None /\ task.xml = state /\ ~task.cut
    BY EventingAssumption DEF Task, EventingInv, TypeOK
  <1>. HIDE DEF task
  <1>3. TypeOK'
    <2>1. ready' \in [Subs -> Seq(Task)]
      BY <1>1, <1>2 DEF EventingInv, TypeOK
    <2>2. calls' \in 0..MaxCalls
      BY <1>1, EventingAssumption DEF EventingInv, TypeOK
    <2>. QED BY <1>1, <2>1, <2>2 DEF EventingInv, TypeOK
  <1>4. ASSUME NEW s \in Subs
        PROVE  SubInv(s)'
    <2>0. /\ ready[s] \in Seq(Task) /\ seq[s] \in Nat /\ last[s] \in Nat
          /\ state \in Nat /\ told \in Nat /\ told <= state /\ Owed(s) \in Nat
          /\ SubOK(ready[s], subs[s], seq[s], last[s], state, told, Owed(s))
      BY Types DEF EventingInv, SubInv
    <2>1. CASE subs[s] = "here"
      <3>1. SubOK(Append(ready[s], task), "here", seq[s], last[s], state, state, state)
        BY <1>2, <2>0, <2>1, QueuedOK
      <3>. QED BY <1>1, <2>1, <3>1 DEF SubInv, Owed
    <2>2. CASE subs[s] # "here"
      <3>1. ~IsKnown(subs'[s]) /\ (subs'[s] = "none" => subs[s] = "none")
        BY <1>1, <2>2 DEF IsKnown, EventingInv, TypeOK
      <3>2. SubOK(ready[s], subs'[s], seq[s], last[s], state, state, Owed(s)')
        BY <2>0, <3>1, PassedOK
      <3>. QED BY <1>1, <2>2, <3>2 DEF SubInv
    <2>. QED BY <2>1, <2>2
  <1>. QED BY <1>1, <1>3, <1>4, Types DEF EventingInv

LEMMA StartsKeeps ==
  ASSUME EventingInv, NEW s \in Subs, Starts(s)
  PROVE  /\ EventingInv'
         /\ \A r \in Subs :
              <<seq[r], last[r]>>' # <<seq[r], last[r]>> =>
                seq'[r] = seq[r] + 1 /\ (seq[r] # 1 => last'[r] >= last[r])
  <1>. DEFINE q == ready[s]
  <1>1. /\ q # <<>> /\ q \in Seq(Task)
        /\ ready' = [ready EXCEPT ![s] = Tail(q)]
        /\ UNCHANGED <<state, subs, waiting, calls, told, missed>>
        /\ LET task == Head(q) IN
           CASE task.by # None /\ ~task.cut -> Send(s, task.xml, task.by)
             [] task.by = None /\ s \in Known -> Send(s, state, None)
             [] OTHER -> UNCHANGED <<seq, last, flying, session>>
    BY DEF Starts, EventingInv, TypeOK
  <1>2. /\ Head(q) = q[1] /\ q[1].xml \in Nat /\ q[1] \in Task /\ Tail(q) \in Seq(Task)
    BY <1>1, TailOf, TaskType
  <1>3. /\ state \in Nat /\ told \in Nat /\ told <= state /\ seq[s] \in Nat /\ last[s] \in Nat
        /\ Owed(s) \in Nat /\ Owed(s) <= told /\ Owed(s)' = Owed(s)
        /\ SubOK(q, subs[s], seq[s], last[s], state, told, Owed(s))
    BY <1>1, Types DEF EventingInv, SubInv, Owed
  <1>. HIDE DEF q
  <1>4. ASSUME NEW l2 \in States, NEW by \in Callers \cup {None}, Send(s, l2, by),
               SubOK(Tail(q), subs[s], seq[s] + 1, l2, state, told, Owed(s)),
               seq[s] # 1 => l2 >= last[s]
        PROVE  /\ EventingInv'
               /\ \A r \in Subs :
                    <<seq[r], last[r]>>' # <<seq[r], last[r]>> =>
                      seq'[r] = seq[r] + 1 /\ (seq[r] # 1 => last'[r] >= last[r])
    <2>1. /\ seq' = [seq EXCEPT ![s] = @ + 1] /\ last' = [last EXCEPT ![s] = l2]
          /\ flying' = flying \cup {[sub |-> s, by |-> by, seq |-> seq[s]]}
          /\ session' = "open"
      BY <1>4 DEF Send
    <2>2. TypeOK'
      BY SMTT(30), <1>1, <1>2, <1>3, <1>4, <2>1 DEF EventingInv, TypeOK, Request
    <2>3. SubInv(s)'
      BY <1>1, <1>4, <2>1 DEF SubInv, EventingInv, TypeOK, Owed
    <2>4. ASSUME NEW r \in Subs, r # s
          PROVE  SubInv(r)' /\ UNCHANGED <<seq[r], last[r]>>
      BY <1>1, <2>1, <2>4 DEF SubInv, EventingInv, TypeOK, Owed
    <2>5. seq'[s] = seq[s] + 1 /\ last'[s] = l2
      BY <2>1 DEF EventingInv, TypeOK
    <2>. QED BY <1>1, <1>3, <1>4, <2>2, <2>3, <2>4, <2>5 DEF EventingInv
  <1>5. CASE q[1].by # None /\ ~q[1].cut
    <2>1. q[1].xml \in States /\ q[1].by \in Callers \cup {None}
      BY <1>2 DEF Task
    <2>2. /\ SubOK(Tail(q), subs[s], seq[s] + 1, q[1].xml, state, told, Owed(s))
          /\ seq[s] # 1 => q[1].xml >= last[s]
      BY <1>1, <1>3, <1>5, SentOK
    <2>3. Send(s, q[1].xml, q[1].by)
      BY <1>1, <1>2, <1>5
    <2>. QED BY <1>4, <2>1, <2>2, <2>3
  <1>6. CASE q[1].by = None /\ s \in Known
    <2>1. state \in States /\ IsKnown(subs[s])
      BY <1>6 DEF EventingInv, TypeOK, Known, IsKnown
    <2>2. /\ SubOK(Tail(q), subs[s], seq[s] + 1, state, state, told, Owed(s))
          /\ seq[s] # 1 => state >= last[s]
      BY <1>1, <1>3, <1>6, <2>1, SentOK
    <2>3. Send(s, state, None)
      BY <1>1, <1>2, <1>6
    <2>. QED BY <1>4, <2>1, <2>2, <2>3
  <1>7. CASE (q[1].by = None /\ s \notin Known) \/ (q[1].by # None /\ q[1].cut)
    <2>1. UNCHANGED <<seq, last, flying, session>>
      BY <1>1, <1>2, <1>7
    <2>2. SubOK(Tail(q), subs[s], seq[s], last[s], state, told, Owed(s))
      <3>1. CASE q[1].by = None /\ s \notin Known
        BY <1>1, <1>3, <3>1, DroppedOK DEF Known, IsKnown
      <3>2. CASE q[1].by # None /\ q[1].cut
        BY <1>1, <1>3, <3>2, CutOK
      <3>. QED BY <1>7, <3>1, <3>2
    <2>3. TypeOK'
      BY <1>1, <1>2, <2>1 DEF EventingInv, TypeOK
    <2>4. SubInv(s)'
      BY <1>1, <2>1, <2>2 DEF SubInv, EventingInv, TypeOK, Owed
    <2>5. \A r \in Subs : r # s => SubInv(r)'
      BY <1>1, <2>1 DEF SubInv, EventingInv, TypeOK, Owed
    <2>. QED BY <1>1, <2>1, <2>3, <2>4, <2>5 DEF EventingInv
  <1>. QED BY <1>5, <1>6, <1>7

----------------------------------------------------------------------------
(* The inductive invariant, and the theorems. *)

LEMMA NextKeeps ==
  ASSUME EventingInv, [Next]_vars
  PROVE  EventingInv'
  BY ChangeKeeps, RestKeeps, SubscribeKeeps, NotifyKeeps, CancelKeeps, StartsKeeps DEF Next

LEMMA Invariance == Spec => []EventingInv
  <1>1. EventingInv /\ [Next]_vars => EventingInv'
    BY NextKeeps
  <1>. QED BY <1>1, InitOK, PTL DEF Spec

\* Every variable keeps its type.
THEOREM TypeCorrect == Spec => []TypeOK
  BY Invariance, PTL DEF EventingInv

\* Whose SID is accepted for renewal has been sent the state of the last notify(),
\* unless a cancelled call has dropped it.
THEOREM RenewableAlwaysCurrent == Spec => []RenewableIsCurrent
  <1>1. EventingInv => RenewableIsCurrent
    <2>. SUFFICES ASSUME EventingInv, NEW s \in Known, ready[s] = <<>>
                  PROVE  seq[s] > 0 /\ (last[s] >= told \/ s \in missed)
      BY DEF RenewableIsCurrent
    <2>1. s \in Subs /\ IsKnown(subs[s])
      BY DEF Known, IsKnown
    <2>. QED BY <2>1, Types DEF EventingInv, SubInv, SubOK, Progress, Current, Owed
  <1>. QED BY <1>1, Invariance, PTL

\* No event is skipped or numbered twice, and after the second one none tells
\* an earlier state than the one before.
THEOREM EventsAlwaysInOrder == Spec => EventsInOrder
  <1>. DEFINE Ordered ==
         \A s \in Subs :
           <<seq[s], last[s]>>' # <<seq[s], last[s]>> =>
             seq[s]' = seq[s] + 1 /\ (seq[s] # 1 => last[s]' >= last[s])
  <1>1. ASSUME EventingInv, [Next]_vars
        PROVE  Ordered
    <2>1. CASE \E s \in Subs : Starts(s)
      BY <1>1, <2>1, StartsKeeps
    <2>2. CASE UNCHANGED <<seq, last>>
      BY <2>2
    <2>. QED
      BY <1>1, <2>1, <2>2
      DEF Next, Change, Close, Notify, CallerCancelled, Returns, Subscribe, Renew, Unsubscribe, Expire, Ends, vars
  <1>2. EventingInv /\ [Next]_vars => [Ordered]_vars
    BY <1>1
  <1>. QED BY <1>2, Invariance, PTL DEF Spec, EventsInOrder

=============================================================================
