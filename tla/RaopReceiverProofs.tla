------------------------- MODULE RaopReceiverProofs -------------------------
(***************************************************************************)
(* Proofs about RaopReceiver, for every modulus, window and bound: the     *)
(* jitter buffer stays within its window, the PCM queue is in order        *)
(* without repetition, and nothing that a FLUSH has cut off is written     *)
(* after it.                                                               *)
(***************************************************************************)
EXTENDS RaopReceiver, FiniteSetTheorems, TLAPS

(***************************************************************************)
(* The inductive invariant.  The head is never before what has been        *)
(* written, nor after what has been sent; while there is no head, the      *)
(* timestamp floor stands in for it; and outside a FLUSH the queue lies    *)
(* between the cut and what has been written.                              *)
(***************************************************************************)
HeadInv ==
  /\ \A n \in packets : n < next
  /\ cut <= done
  /\ expected # None => done <= expected /\ expected <= next
  /\ phase = "record" /\ expected = None
       => done = cut /\ (cut = 0 \/ (floor # None /\ cut <= floor))
  /\ phase = "setup" => packets = {} /\ queue = <<>>

Between(q, low, high) ==
  /\ \A i \in 1 .. Len(q) : low <= q[i] /\ q[i] < high
  /\ \A i, j \in 1 .. Len(q) : i < j => q[i] < q[j]

QueueInv == rtsp = "idle" => Between(queue, cut, done)

IInv == TypeOK /\ WindowInv /\ HeadInv /\ QueueInv

-----------------------------------------------------------------------------
(* What write_audio leaves in the queue.                                   *)

\* The chunks that stay are the last ones, in the order they came.
LEMMA NewestStay ==
  ASSUME NEW s \in Seq(Nat)
  PROVE  /\ Newest(s) \in Seq(Nat) /\ Len(Newest(s)) <= QueueMax
         /\ \E d \in Nat : /\ Len(Newest(s)) + d = Len(s)
                           /\ \A k \in 1 .. Len(Newest(s)) : Newest(s)[k] = s[k + d]
  <1>. DEFINE r == Newest(s)
  <1>1. QueueMax \in Nat /\ QueueMax > 0 /\ Len(s) \in Nat
    BY ReceiverAssumption
  <1>2. CASE Len(s) > QueueMax
    <2>. DEFINE d == Len(s) - QueueMax
    <2>1. d \in Nat /\ r = SubSeq(s, d + 1, Len(s)) /\ d + QueueMax = Len(s)
      BY <1>1, <1>2 DEF Newest
    <2>. HIDE DEF d, r
    <2>2. \A i \in d + 1 .. Len(s) : s[i] \in Nat
      BY <1>1, <2>1
    <2>3. r \in Seq(Nat) /\ Len(r) = QueueMax
      BY <1>1, <2>1, <2>2
    <2>4. \A k \in 1 .. QueueMax : r[k] = s[k + d]
      BY <1>1, <2>1
    <2>5. Len(r) + d = Len(s) /\ \A k \in 1 .. Len(r) : r[k] = s[k + d]
      BY <1>1, <2>1, <2>3, <2>4
    <2>6. \E e \in Nat : /\ Len(r) + e = Len(s)
                         /\ \A k \in 1 .. Len(r) : r[k] = s[k + e]
      <3>1. d \in Nat
        BY <2>1
      <3>. WITNESS d \in Nat
      <3>. QED BY <2>5
    <2>7. r \in Seq(Nat) /\ Len(r) <= QueueMax
      BY <1>1, <2>3
    <2>. QED BY <2>6, <2>7, Zenon DEF r
  <1>3. CASE ~(Len(s) > QueueMax)
    <2>1. r = s
      BY <1>3 DEF Newest
    <2>2. Len(s) + 0 = Len(s) /\ \A k \in 1 .. Len(s) : s[k] = s[k + 0]
      BY <1>1
    <2>3. s \in Seq(Nat) /\ Len(s) <= QueueMax /\ 0 \in Nat
      BY <1>1, <1>3
    <2>. QED BY <2>1, <2>2, <2>3 DEF r
  <1>. QED BY <1>2, <1>3

\* The chunks of a concatenation.
LEMMA Joined ==
  ASSUME NEW q \in Seq(Nat), NEW s \in Seq(Nat)
  PROVE  /\ q \o s \in Seq(Nat) /\ Len(q \o s) = Len(q) + Len(s) /\ Len(q) \in Nat
         /\ \A i \in 1 .. Len(q) + Len(s) :
              (q \o s)[i] = IF i <= Len(q) THEN q[i] ELSE s[i - Len(q)]
  OBVIOUS

\* k chunks from n on.
Run(s, n, k) == Len(s) = k /\ \A i \in 1 .. k : s[i] = n + i - 1

\* Increasing chunks, written behind smaller ones, keep the queue in order.
LEMMA WrittenInOrder ==
  ASSUME NEW q \in Seq(Nat), NEW n \in Nat, NEW k \in Nat, NEW c \in Nat,
         NEW m \in Nat, c <= m, m <= n,
         Between(q, c, m), NEW s \in Seq(Nat), Run(s, n, k)
  PROVE  Between(Newest(q \o s), c, n + k)
  <1>. DEFINE all == q \o s
  <1>. USE DEF Between, Run
  <1>1. /\ all \in Seq(Nat) /\ Len(all) = Len(q) + k /\ Len(q) \in Nat
        /\ \A i \in 1 .. Len(q) + k : all[i] = IF i <= Len(q) THEN q[i] ELSE s[i - Len(q)]
    BY Joined, Zenon
  <1>2. \A i \in 1 .. Len(q) : all[i] = q[i] /\ q[i] \in Nat
    BY SMTT(30), <1>1
  <1>. HIDE DEF all
  <1>4. \A i \in 1 .. Len(all) : i > Len(q) => all[i] = n + (i - Len(q)) - 1
    <2>. TAKE i \in 1 .. Len(all)
    <2>. HAVE i > Len(q)
    <2>1. i - Len(q) \in 1 .. k /\ all[i] = s[i - Len(q)]
      BY <1>1
    <2>. QED BY <2>1
  <1>5. \A i \in 1 .. Len(all) : c <= all[i] /\ all[i] < n + k
    <2>. TAKE i \in 1 .. Len(all)
    <2>1. CASE i <= Len(q)
      <3>1. i \in 1 .. Len(q)
        BY <1>1, <2>1
      <3>2. all[i] = q[i] /\ q[i] \in Nat /\ c <= q[i] /\ q[i] < m
        BY <1>2, <3>1
      <3>. QED BY <3>2
    <2>2. CASE i > Len(q)
      BY SMTT(30), <1>1, <1>4, <2>2
    <2>. QED BY <1>1, <2>1, <2>2
  <1>6. \A i, j \in 1 .. Len(all) : i < j => all[i] < all[j]
    <2>. TAKE i, j \in 1 .. Len(all)
    <2>. HAVE i < j
    <2>1. CASE j <= Len(q)
      <3>1. i \in 1 .. Len(q) /\ j \in 1 .. Len(q)
        BY <1>1, <2>1
      <3>2. q[i] < q[j]
        BY <3>1
      <3>. QED BY <1>2, <3>1, <3>2
    <2>2. CASE j > Len(q) /\ i <= Len(q)
      <3>1. all[j] = n + (j - Len(q)) - 1
        BY <1>4, <2>2
      <3>2. all[i] = q[i] /\ q[i] < m /\ q[i] \in Nat
        BY SMTT(30), <1>1, <1>2, <2>2
      <3>. QED BY SMTT(30), <1>1, <2>2, <3>1, <3>2
    <2>3. CASE j > Len(q) /\ i > Len(q)
      BY <1>1, <1>4, <2>3
    <2>. QED BY <1>1, <2>1, <2>2, <2>3
  <1>. DEFINE r == Newest(all)
  <1>7. PICK d \in Nat : /\ Len(r) + d = Len(all)
                         /\ \A i \in 1 .. Len(r) : r[i] = all[i + d]
    BY <1>1, NewestStay
  <1>8. r \in Seq(Nat) /\ Len(r) \in Nat
    BY <1>1, NewestStay
  <1>. HIDE DEF r
  <1>9. \A i \in 1 .. Len(r) : i + d \in 1 .. Len(all)
    BY <1>1, <1>7, <1>8
  <1>10. Between(r, c, n + k)
    BY SMTT(30), <1>5, <1>6, <1>7, <1>8, <1>9
  <1>. QED BY <1>10 DEF r, all

-----------------------------------------------------------------------------
(* The invariant is inductive, one lemma for each group of actions.        *)

LEMMA InitOK == Init => IInv
  <1>1. QueueMax \in Nat /\ Retries \in Nat /\ Window \in Nat
    BY ReceiverAssumption
  <1>. SUFFICES ASSUME Init PROVE IInv
    OBVIOUS
  <1>2. TypeOK
    <2>1. queue \in Seq(Nat) /\ Len(queue) <= QueueMax
      BY <1>1 DEF Init
    <2>2. packets \subseteq Nat /\ retries \in 0 .. Retries
      BY <1>1 DEF Init
    <2>. QED BY <2>1, <2>2 DEF Init, TypeOK
  <1>3. WindowInv
    BY <1>1, FS_EmptySet DEF Init, WindowInv
  <1>4. HeadInv /\ QueueInv
    BY DEF Init, HeadInv, QueueInv, Between, None
  <1>. QED BY <1>2, <1>3, <1>4 DEF IInv

\* RECORD and FLUSH move the cut to what they name.
LEMMA RestartKeeps ==
  ASSUME IInv, Record \/ Flush
  PROVE  IInv'
  <1>1. Retries \in Nat /\ QueueMax \in Nat /\ Window \in Nat
    BY ReceiverAssumption
  <1>2. PICK info \in Infos : Restart(info)
    BY DEF Record, Flush
  <1>3. /\ expected' \in {None, next} /\ floor' \in {None, next}
        /\ expected' = None /\ floor' = None => cut' = 0
        /\ cut' \in {0, next} /\ done' = cut' /\ next' = next
        /\ expected' # None => expected' = next
    BY <1>2 DEF Restart, Infos, Record, Flush, env
  <1>4. /\ packets' = {}
        /\ \/ queue' = <<>>
           \/ rtsp' = "clear" /\ queue' = queue /\ phase' = phase
    BY DEF Record, Flush, IInv, HeadInv
  <1>5. TypeOK'
    <2>1. queue' \in Seq(Nat) /\ Len(queue') <= QueueMax
      <3>1. CASE queue' = <<>>
        BY <1>1, <3>1
      <3>2. CASE queue' = queue
        BY <3>2 DEF IInv, TypeOK
      <3>. QED BY <1>4, <3>1, <3>2
    <2>2. packets' \subseteq Nat
      BY <1>4
    <2>3. gap' \in {"none", "young", "old"} /\ retries' \in 0 .. Retries
      BY <1>1 DEF IInv, TypeOK, Record, Flush
    <2>4. /\ phase' \in {"setup", "record", "closed"} /\ rtsp' \in {"idle", "clear"}
          /\ quiet' \in BOOLEAN /\ draining' \in BOOLEAN
      BY DEF IInv, TypeOK, Record, Flush, env
    <2>5. /\ expected' \in Nat \cup {None} /\ floor' \in Nat \cup {None}
          /\ next' \in Nat /\ cut' \in Nat /\ done' \in Nat
      BY <1>3 DEF IInv, TypeOK
    <2>. QED BY <2>1, <2>2, <2>3, <2>4, <2>5 DEF TypeOK
  <1>6. WindowInv'
    BY <1>1, <1>4, FS_EmptySet DEF WindowInv
  <1>7. HeadInv'
    <2>1. phase' = "setup" => queue' = <<>>
      BY DEF Record, Flush, IInv, HeadInv
    <2>2. cut' <= next' /\ next \in Nat
      BY <1>3 DEF IInv, TypeOK
    <2>3. expected' = None => cut' = 0 \/ (floor' # None /\ cut' <= floor')
      BY <1>3, <2>2 DEF None
    <2>. QED BY <1>3, <1>4, <2>1, <2>2, <2>3 DEF HeadInv, None
  <1>8. QueueInv'
    BY <1>4 DEF QueueInv, Between
  <1>. QED BY <1>5, <1>6, <1>7, <1>8 DEF IInv

\* The reader and clear_audio take the oldest chunk.
LEMMA TakeKeeps ==
  ASSUME IInv, Listen \/ ClearAudio
  PROVE  IInv'
  <1>. USE DEF jitter, env
  <1>1. /\ UNCHANGED <<phase, jitter, quiet, draining, next, cut, done>>
        /\ rtsp' \in {"idle", "clear"}
    BY DEF Listen, ClearAudio, IInv, TypeOK
  <1>2. \/ queue # <<>> /\ queue' = Tail(queue) /\ rtsp' = rtsp
        \/ queue = <<>> /\ queue' = queue
    BY DEF Listen, ClearAudio
  <1>3. CASE queue # <<>> /\ queue' = Tail(queue) /\ rtsp' = rtsp
    <2>1. /\ queue' \in Seq(Nat) /\ Len(queue') = Len(queue) - 1 /\ Len(queue) \in Nat
          /\ \A i \in 1 .. Len(queue') : queue'[i] = queue[i + 1]
      BY <1>3 DEF IInv, TypeOK
    <2>2. QueueMax \in Nat
      BY ReceiverAssumption
    <2>3. TypeOK'
      BY <1>1, <2>1, <2>2 DEF IInv, TypeOK
    <2>4. QueueInv'
      <3>. SUFFICES ASSUME rtsp' = "idle" PROVE QueueInv'
        BY DEF QueueInv
      <3>1. \A i \in 1 .. Len(queue') : i + 1 \in 1 .. Len(queue)
        BY <2>1
      <3>2. /\ \A i \in 1 .. Len(queue) : cut <= queue[i] /\ queue[i] < done
            /\ \A i, j \in 1 .. Len(queue) : i < j => queue[i] < queue[j]
        BY <1>3 DEF IInv, QueueInv, Between
      <3>3. \A i \in 1 .. Len(queue') : cut <= queue'[i] /\ queue'[i] < done
        BY <2>1, <3>1, <3>2
      <3>4. \A i, j \in 1 .. Len(queue') : i < j => queue'[i] < queue'[j]
        BY SMTT(30), <2>1, <3>1, <3>2
      <3>. QED BY <1>1, <3>3, <3>4 DEF QueueInv, Between
    <2>5. WindowInv' /\ HeadInv'
      BY <1>1, <1>3 DEF IInv, WindowInv, HeadInv
    <2>. QED BY <2>3, <2>4, <2>5 DEF IInv
  <1>4. CASE queue = <<>> /\ queue' = queue
    <2>1. TypeOK' /\ WindowInv' /\ HeadInv'
      BY <1>1, <1>4 DEF IInv, TypeOK, WindowInv, HeadInv
    <2>2. QueueInv'
      BY <1>4 DEF QueueInv, Between
    <2>. QED BY <2>1, <2>2 DEF IInv
  <1>. QED BY <1>2, <1>3, <1>4

\* A packet that is accepted is not before the head, and fits the window.
LEMMA InsertKeeps ==
  ASSUME IInv, NEW n \in 0 .. next - 1, n + Delay >= next, Insert(n)
  PROVE  IInv'
  <1>. USE DEF jitter, env
  <1>1. /\ Window \in Nat /\ Window > 0 /\ 2 * Window < Modulus /\ Modulus \in Nat
        /\ Half \in Nat /\ Modulus = 2 * Half /\ Delay \in Nat /\ Delay <= Half
    BY ReceiverAssumption
  <1>2. /\ phase = "record" /\ n \in Nat /\ next \in Nat
        /\ UNCHANGED <<phase, draining, queue, rtsp, next, cut, done, floor>>
        /\ quiet' = FALSE /\ ~Stale(n)
    BY DEF IInv, TypeOK, Insert, Begins, Recovers, Keeps
  <1>3. ASSUME expected # None, Distance(n) < Half
        PROVE  n >= expected /\ Distance(n) = n - expected /\ expected \in Nat
    <2>1. expected \in Nat /\ expected <= next
      BY <1>3 DEF IInv, TypeOK, HeadInv
    <2>. QED BY <1>1, <1>2, <1>3, <2>1 DEF Distance
  <1>4. IsFiniteSet(packets) /\ Cardinality(packets) \in Nat
        /\ Cardinality(packets) <= Window
    BY FS_CardinalityType DEF IInv, WindowInv
  <1>5. QueueInv'
    BY <1>2 DEF IInv, QueueInv
  <1>6. CASE Begins(n)
    <2>1. /\ expected = None /\ packets = {} /\ expected' = n /\ packets' = {n}
          /\ gap' = gap /\ retries' = retries
      BY <1>6 DEF Begins, IInv, WindowInv
    <2>2. TypeOK'
      BY <1>2, <2>1 DEF IInv, TypeOK
    <2>3. WindowInv'
      <3>1. IsFiniteSet(packets') /\ Cardinality(packets') = 1
        BY <2>1, FS_Singleton
      <3>2. expected' # None
        BY <1>2, <2>1 DEF None
      <3>3. \A k \in packets' : expected' <= k /\ k <= expected' + Window
        BY <1>1, <1>2, <2>1
      <3>. QED BY <1>1, <3>1, <3>2, <3>3 DEF WindowInv
    <2>4. done <= n
      BY <1>2, <2>1 DEF IInv, TypeOK, HeadInv, Stale
    <2>5. HeadInv'
      BY <1>2, <2>1, <2>4 DEF IInv, HeadInv, None
    <2>. QED BY <1>5, <2>2, <2>3, <2>5 DEF IInv
  <1>7. CASE Recovers(n)
    <2>1. /\ expected # None /\ expected' = n /\ packets' = {n}
          /\ gap' = "none" /\ retries' = 0 /\ Distance(n) < Half
      BY <1>7 DEF Recovers
    <2>2. TypeOK'
      <3>1. 0 \in 0 .. Retries
        BY ReceiverAssumption
      <3>. QED BY <1>2, <2>1, <3>1 DEF IInv, TypeOK
    <2>3. WindowInv'
      <3>1. IsFiniteSet(packets') /\ Cardinality(packets') = 1
        BY <2>1, FS_Singleton
      <3>2. expected' # None
        BY <1>2, <2>1 DEF None
      <3>3. \A k \in packets' : expected' <= k /\ k <= expected' + Window
        BY <1>1, <1>2, <2>1
      <3>. QED BY <1>1, <3>1, <3>2, <3>3 DEF WindowInv
    <2>4. done <= n
      BY <1>2, <1>3, <2>1 DEF IInv, TypeOK, HeadInv
    <2>5. HeadInv'
      BY <1>2, <2>1, <2>4 DEF IInv, HeadInv, None
    <2>. QED BY <1>5, <2>2, <2>3, <2>5 DEF IInv
  <1>8. CASE expected # None /\ Keeps(n)
    <2>1. /\ n >= expected /\ n <= expected + Window /\ n \notin packets
          /\ expected \in Nat
      <3>1. n \notin packets /\ Distance(n) <= Window
        BY <1>8 DEF Keeps
      <3>2. expected \in Nat
        BY <1>8 DEF IInv, TypeOK
      <3>3. Distance(n) < Half
        BY <1>1, <1>2, <3>1, <3>2 DEF Distance
      <3>. QED BY <1>1, <1>2, <1>3, <1>8, <3>1, <3>2, <3>3
    <2>2. UNCHANGED <<expected, floor, gap, retries>>
      BY <1>8 DEF Keeps
    <2>3. packets' \subseteq packets \cup {n}
      BY <1>8 DEF Keeps
    <2>4. IsFiniteSet(packets') /\ Cardinality(packets') <= Window
      <3>1. CASE Cardinality(packets) < Window /\ packets' = packets \cup {n}
        BY <1>1, <1>4, <2>1, <3>1, FS_AddElement
      <3>2. ASSUME NEW far \in packets, packets' = (packets \ {far}) \cup {n}
            PROVE  IsFiniteSet(packets') /\ Cardinality(packets') <= Window
        <4>1. /\ IsFiniteSet(packets \ {far})
              /\ Cardinality(packets \ {far}) = Cardinality(packets) - 1
          BY <1>4, FS_RemoveElement
        <4>2. n \notin packets \ {far}
          BY <2>1
        <4>3. /\ IsFiniteSet(packets')
              /\ Cardinality(packets') = Cardinality(packets \ {far}) + 1
          BY <3>2, <4>1, <4>2, FS_AddElement
        <4>. QED BY <1>1, <1>4, <4>1, <4>3
      <3>. QED BY <1>8, <3>1, <3>2 DEF Keeps
    <2>5. TypeOK'
      BY <1>2, <2>2, <2>3 DEF IInv, TypeOK
    <2>6. WindowInv'
      BY <1>8, <2>1, <2>2, <2>3, <2>4 DEF IInv, WindowInv
    <2>7. HeadInv'
      BY <1>2, <1>8, <2>2, <2>3 DEF IInv, HeadInv
    <2>. QED BY <1>5, <2>5, <2>6, <2>7 DEF IInv
  <1>. QED BY <1>6, <1>7, <1>8 DEF Insert

\* What is written from the head on keeps the queue in order.
LEMMA WriteKeeps ==
  ASSUME IInv, expected \in Nat, NEW k \in Nat,
         NEW s \in Seq(Nat), Run(s, expected, k),
         WriteAudio(s), k > 0 => done' = expected + k, k = 0 => done' = done,
         UNCHANGED <<rtsp, cut>>
  PROVE  /\ queue' \in Seq(Nat) /\ Len(queue') <= QueueMax
         /\ QueueInv'
  <1>1. queue \in Seq(Nat) /\ done \in Nat /\ cut \in Nat
        /\ cut <= done /\ done <= expected
    BY DEF IInv, TypeOK, HeadInv, None
  <1>2. queue \o s \in Seq(Nat) /\ queue' = Newest(queue \o s)
    BY <1>1, Joined DEF WriteAudio
  <1>3. queue' \in Seq(Nat) /\ Len(queue') <= QueueMax
    BY <1>2, NewestStay
  <1>4. QueueInv'
    <2>. SUFFICES ASSUME rtsp = "idle" PROVE QueueInv'
      BY DEF QueueInv
    <2>1. Between(queue, cut, done)
      BY DEF IInv, QueueInv
    <2>2. CASE k = 0
      <3>1. queue' = queue
        <4>1. s = <<>>
          BY <2>2 DEF Run
        <4>2. queue \o s = queue
          BY <1>1, <4>1
        <4>3. ~(Len(queue) > QueueMax)
          BY <1>1, ReceiverAssumption DEF IInv, TypeOK
        <4>. QED BY <1>2, <4>2, <4>3 DEF Newest
      <3>. QED BY <2>1, <2>2, <3>1 DEF QueueInv
    <2>3. CASE k > 0
      <3>1. Between(queue', cut, expected + k)
        BY <1>1, <1>2, <2>1, WrittenInOrder
      <3>. QED BY <2>3, <3>1 DEF QueueInv
    <2>. QED BY <2>2, <2>3
  <1>. QED BY <1>3, <1>4

\* Playing the head moves it by one, whether it can be decoded or not.
LEMMA PlayKeeps ==
  ASSUME IInv, PlayHead
  PROVE  IInv'
  <1>. USE DEF jitter, env
  <1>1. /\ expected \in Nat /\ expected \in packets /\ expected # None
        /\ expected + 1 <= next /\ next \in Nat /\ done <= expected /\ done \in Nat
    BY DEF IInv, TypeOK, HeadInv, PlayHead, None
  <1>2. /\ packets' = packets \ {expected} /\ expected' = expected + 1
        /\ gap' = "none" /\ retries' = 0 /\ draining' = TRUE /\ phase = "record"
        /\ UNCHANGED <<phase, quiet, rtsp, next, cut>>
    BY DEF PlayHead
  <1>3. /\ queue' \in Seq(Nat) /\ Len(queue') <= QueueMax /\ QueueInv'
        /\ done' \in Nat /\ done <= done' /\ done' <= expected'
        /\ floor' \in Nat \cup {None}
    <2>1. CASE WriteAudio(<<expected>>) /\ floor' = expected /\ done' = expected + 1
      <3>. DEFINE s == <<expected>>
      <3>1. s \in Seq(Nat) /\ Run(s, expected, 1)
        BY <1>1 DEF Run
      <3>2. WriteAudio(s)
        BY <2>1
      <3>. HIDE DEF s
      <3>3. (1 > 0 => done' = expected + 1) /\ (1 = 0 => done' = done)
        BY <2>1
      <3>4. UNCHANGED <<rtsp, cut>>
        BY <1>2
      <3>5. queue' \in Seq(Nat) /\ Len(queue') <= QueueMax /\ QueueInv'
        BY <1>1, <3>1, <3>2, <3>3, <3>4, WriteKeeps
      <3>. QED BY <1>1, <1>2, <2>1, <3>5
    <2>2. CASE UNCHANGED <<queue, floor, done>>
      BY <1>1, <1>2, <2>2 DEF IInv, TypeOK, QueueInv
    <2>. QED BY <2>1, <2>2 DEF PlayHead
  <1>4. TypeOK'
    <2>1. 0 \in 0 .. Retries
      BY ReceiverAssumption
    <2>. QED BY <1>1, <1>2, <1>3, <2>1 DEF IInv, TypeOK
  <1>5. WindowInv'
    <2>1. IsFiniteSet(packets) /\ Cardinality(packets) <= Window
          /\ Cardinality(packets) \in Nat /\ Window \in Nat
      BY FS_CardinalityType, ReceiverAssumption DEF IInv, WindowInv
    <2>2. IsFiniteSet(packets') /\ Cardinality(packets') <= Window
      BY <1>1, <1>2, <2>1, FS_RemoveElement
    <2>3. \A n \in packets : n \in Nat /\ expected <= n /\ n <= expected + Window
      BY <1>1 DEF IInv, TypeOK, WindowInv
    <2>4. \A n \in packets' : expected' <= n /\ n <= expected' + Window
      BY <1>1, <1>2, <2>1, <2>3
    <2>5. expected' # None
      BY <1>1, <1>2 DEF None
    <2>. QED BY <2>2, <2>4, <2>5 DEF WindowInv
  <1>6. HeadInv'
    <2>1. cut <= done /\ cut \in Nat /\ \A n \in packets : n < next
      BY DEF IInv, TypeOK, HeadInv
    <2>2. expected' # None
      BY <1>1, <1>2 DEF None
    <2>. QED BY <1>1, <1>2, <1>3, <2>1, <2>2 DEF HeadInv
  <1>. QED BY <1>3, <1>4, <1>5, <1>6 DEF IInv

\* Skipping a gap moves the head to the nearest packet; the silence written
\* for it stays short of that packet.
LEMMA SkipKeeps ==
  ASSUME IInv, SkipGap
  PROVE  IInv'
  <1>. USE DEF jitter, env
  <1>1. /\ Missing /\ expected \in Nat /\ next \in Nat /\ done \in Nat /\ cut \in Nat
        /\ done <= expected /\ cut <= done
        /\ \A n \in packets : n < next
    BY DEF SkipGap, Missing, IInv, TypeOK, HeadInv
  <1>2. PICK near \in packets :
          LET silent == IF near - expected < Conceal THEN near - expected ELSE Conceal
          IN /\ \A m \in packets : near <= m
             /\ WriteAudio([i \in 1 .. silent |-> expected + i - 1])
             /\ done' = IF silent = 0 THEN done ELSE expected + silent
             /\ expected' = near
    BY DEF SkipGap
  <1>. DEFINE k == IF near - expected < Conceal THEN near - expected ELSE Conceal
              s == [i \in 1 .. k |-> expected + i - 1]
  <1>3. /\ near \in Nat /\ expected <= near /\ near <= expected + Window
        /\ near < next /\ \A n \in packets : n \in Nat /\ n <= expected + Window
    BY <1>1 DEF IInv, TypeOK, WindowInv, None
  <1>4. k \in Nat /\ expected + k <= near
    BY <1>1, <1>3, ReceiverAssumption
  <1>5. /\ WriteAudio(s) /\ done' = IF k = 0 THEN done ELSE expected + k
        /\ expected' = near /\ \A m \in packets : near <= m
    BY <1>2
  <1>. HIDE DEF k
  <1>6. s \in Seq(Nat) /\ Run(s, expected, k)
    BY <1>1, <1>4 DEF Run
  <1>. HIDE DEF s
  <1>7. /\ gap' = "none" /\ retries' = 0 /\ draining' = FALSE /\ phase = "record"
        /\ UNCHANGED <<phase, packets, floor, quiet, rtsp, next, cut>>
    BY <1>1 DEF SkipGap, Missing
  <1>8. queue' \in Seq(Nat) /\ Len(queue') <= QueueMax /\ QueueInv'
    BY <1>1, <1>4, <1>5, <1>6, <1>7, WriteKeeps
  <1>9. done' \in Nat /\ done <= done' /\ done' <= expected' /\ expected' # None
    BY <1>1, <1>3, <1>4, <1>5 DEF None
  <1>10. TypeOK'
    <2>1. 0 \in 0 .. Retries
      BY ReceiverAssumption
    <2>. QED BY <1>3, <1>5, <1>7, <1>8, <1>9, <2>1 DEF IInv, TypeOK
  <1>11. WindowInv'
    <2>1. Window \in Nat
      BY ReceiverAssumption
    <2>2. \A n \in packets : near <= n /\ n <= near + Window
      BY <1>1, <1>3, <1>5, <2>1
    <2>. QED BY <1>5, <1>7, <1>9, <2>2 DEF IInv, WindowInv
  <1>12. HeadInv'
    BY <1>1, <1>3, <1>5, <1>7, <1>9 DEF HeadInv
  <1>. QED BY <1>8, <1>10, <1>11, <1>12 DEF IInv

\* The actions that move neither the head, the packets nor the queue.
LEMMA OthersKeep ==
  ASSUME IInv, \/ Close \/ DrainEnds \/ AwaitHead \/ Send
               \/ GapAges \/ BecomesQuiet \/ UNCHANGED vars
  PROVE  IInv'
  <1>. USE DEF jitter, env, vars
  <1>. DEFINE same == <<expected, packets, floor, queue, cut, done, rtsp>>
  <1>1. UNCHANGED same
    BY DEF Close, DrainEnds, AwaitHead, Send, GapAges, BecomesQuiet
  <1>2. /\ phase' \in {phase, "closed"} /\ next' \in {next, next + 1}
        /\ gap' \in {"none", "young", "old"} /\ retries' \in 0 .. Retries
        /\ quiet' \in BOOLEAN /\ draining' \in BOOLEAN
    <2>1. phase' \in {phase, "closed"} /\ next' \in {next, next + 1}
      BY DEF Close, DrainEnds, AwaitHead, Send, GapAges, BecomesQuiet
    <2>2. gap' \in {"none", "young", "old"} /\ retries' \in 0 .. Retries
      <3>1. CASE AwaitHead
        BY <3>1, ReceiverAssumption DEF AwaitHead, IInv, TypeOK
      <3>2. CASE ~AwaitHead
        BY <3>2 DEF Close, DrainEnds, Send, GapAges, BecomesQuiet, IInv, TypeOK
      <3>. QED BY <3>1, <3>2
    <2>3. quiet' \in BOOLEAN /\ draining' \in BOOLEAN
      BY DEF Close, DrainEnds, AwaitHead, Send, GapAges, BecomesQuiet, IInv, TypeOK
    <2>. QED BY <2>1, <2>2, <2>3
  <1>3. TypeOK'
    BY <1>1, <1>2 DEF IInv, TypeOK
  <1>4. WindowInv' /\ QueueInv'
    BY <1>1 DEF IInv, WindowInv, QueueInv
  <1>5. HeadInv'
    <2>1. next \in Nat /\ next' \in Nat /\ next <= next'
      BY <1>2 DEF IInv, TypeOK
    <2>2. \A n \in packets' : n < next'
      BY <1>1, <2>1 DEF IInv, TypeOK, HeadInv
    <2>3. expected' # None => done' <= expected' /\ expected' <= next'
      BY <1>1, <1>2, <2>1 DEF IInv, TypeOK, HeadInv
    <2>. QED BY <1>1, <1>2, <2>2, <2>3 DEF IInv, HeadInv
  <1>. QED BY <1>3, <1>4, <1>5 DEF IInv

-----------------------------------------------------------------------------
(* The theorems.                                                           *)

LEMMA NextKeeps == IInv /\ [Next]_vars => IInv'
  <1>. SUFFICES ASSUME IInv, [Next]_vars PROVE IInv'
    OBVIOUS
  <1>1. CASE Deliver
    BY <1>1, InsertKeeps DEF Deliver
  <1>. QED BY <1>1, RestartKeeps, TakeKeeps, PlayKeeps, SkipKeeps, OthersKeep DEF Next

\* The strengthened invariant of the receiver holds always.
THEOREM Invariance == Spec => []IInv
  <1>. QED BY InitOK, NextKeeps, PTL DEF Spec

\* Every variable has its type; the PCM queue and the retries are bounded
\* (receiver.py:70-79, audio.py:35, 119-131).
THEOREM TypeCorrect == Spec => []TypeOK
  <1>1. IInv => TypeOK
    BY DEF IInv
  <1>. QED BY <1>1, Invariance, PTL

\* The jitter buffer is bounded in number and in span, whatever the network
\* delivers (receiver.py:194-218).
THEOREM WindowKept == Spec => []WindowInv
  <1>1. IInv => WindowInv
    BY DEF IInv
  <1>. QED BY <1>1, Invariance, PTL

\* Nothing of the receiver outgrows its bound (receiver.py:194-218, 270-290,
\* audio.py:119-131).
THEOREM AllBounded == Spec => []Bounded
  <1>1. IInv => Bounded
    BY DEF IInv, Bounded
  <1>. QED BY <1>1, Invariance, PTL

\* The PCM queue is in the order of the stream, without repetition
\* (receiver.py:187-209, 249-267, 289-301).
THEOREM InOrder == Spec => []QueueInOrder
  <1>1. IInv => QueueInOrder
    BY DEF IInv, QueueInv, Between, QueueInOrder
  <1>. QED BY <1>1, Invariance, PTL

\* After a FLUSH, the PCM queue has nothing from before it
\* (server.py:424-431, receiver.py:98-107).
THEOREM FlushedIsGone == Spec => []FlushDiscards
  <1>1. IInv => FlushDiscards
    BY DEF IInv, QueueInv, Between, FlushDiscards
  <1>. QED BY <1>1, Invariance, PTL

\* Writing adds no other chunks than the ones written.
LEMMA WriteAdds ==
  ASSUME NEW q \in Seq(Nat), NEW s \in Seq(Nat)
  PROVE  Chunks(Newest(q \o s)) \subseteq Chunks(q) \cup Chunks(s)
  <1>. DEFINE all == q \o s
              r == Newest(all)
  <1>1. /\ all \in Seq(Nat) /\ Len(all) = Len(q) + Len(s)
        /\ Len(q) \in Nat /\ Len(s) \in Nat
        /\ \A i \in 1 .. Len(q) + Len(s) :
             all[i] = IF i <= Len(q) THEN q[i] ELSE s[i - Len(q)]
    BY Joined
  <1>. HIDE DEF all
  <1>2. PICK d \in Nat : /\ Len(r) + d = Len(all)
                         /\ \A i \in 1 .. Len(r) : r[i] = all[i + d]
    BY <1>1, NewestStay
  <1>3. Len(r) \in Nat
    BY <1>1, NewestStay
  <1>. HIDE DEF r
  <1>4. ASSUME NEW i \in 1 .. Len(r)
        PROVE  r[i] \in Chunks(q) \cup Chunks(s)
    <2>1. i + d \in 1 .. Len(all) /\ r[i] = all[i + d]
      BY <1>1, <1>2, <1>3
    <2>2. CASE i + d <= Len(q)
      <3>1. i + d \in 1 .. Len(q) /\ r[i] = q[i + d]
        BY SMTT(30), <1>1, <2>1, <2>2
      <3>. QED BY <3>1 DEF Chunks
    <2>3. CASE ~(i + d <= Len(q))
      <3>1. (i + d) - Len(q) \in 1 .. Len(s) /\ r[i] = s[(i + d) - Len(q)]
        BY SMTT(30), <1>1, <2>1, <2>3
      <3>. QED BY <3>1 DEF Chunks
    <2>. QED BY <2>2, <2>3
  <1>5. Chunks(r) \subseteq Chunks(q) \cup Chunks(s)
    BY <1>4 DEF Chunks
  <1>. QED BY <1>5 DEF r, all

\* The chunks a step adds are at or after the end of what has been written.
LEMMA StepWritesForward ==
  ASSUME IInv, [Next]_vars
  PROVE  \A c \in Chunks(queue') \ Chunks(queue) : c >= done
  <1>1. queue \in Seq(Nat) /\ done \in Nat
    BY DEF IInv, TypeOK
  <1>2. CASE queue' = <<>> \/ queue' = queue
    <2>1. queue' = <<>> => Chunks(queue') = {}
      BY DEF Chunks
    <2>. QED BY <1>2, <2>1
  <1>3. CASE queue # <<>> /\ queue' = Tail(queue)
    <2>1. /\ Len(queue') = Len(queue) - 1 /\ Len(queue) \in Nat
          /\ \A i \in 1 .. Len(queue') : queue'[i] = queue[i + 1]
      BY <1>1, <1>3
    <2>2. \A i \in 1 .. Len(queue') : i + 1 \in 1 .. Len(queue)
      BY <2>1
    <2>3. Chunks(queue') \subseteq Chunks(queue)
      BY <2>1, <2>2 DEF Chunks
    <2>. QED BY <2>3
  <1>4. ASSUME expected \in Nat, done <= expected, NEW s \in Seq(Nat), NEW k \in Nat,
               Run(s, expected, k), WriteAudio(s)
        PROVE  \A c \in Chunks(queue') \ Chunks(queue) : c >= done
    <2>1. Chunks(queue') \subseteq Chunks(queue) \cup Chunks(s)
      BY <1>1, <1>4, WriteAdds DEF WriteAudio
    <2>2. \A i \in 1 .. Len(s) : s[i] >= done
      BY <1>1, <1>4 DEF Run
    <2>3. \A c \in Chunks(s) : c >= done
      BY <2>2 DEF Chunks
    <2>. QED BY <2>1, <2>3
  <1>5. CASE PlayHead
    <2>1. expected \in Nat /\ done <= expected
      BY <1>5 DEF IInv, TypeOK, HeadInv, PlayHead, None
    <2>2. <<expected>> \in Seq(Nat) /\ Run(<<expected>>, expected, 1)
      BY <2>1 DEF Run
    <2>3. WriteAudio(<<expected>>) \/ queue' = queue
      BY <1>5 DEF PlayHead
    <2>. QED BY <1>2, <1>4, <2>1, <2>2, <2>3
  <1>6. CASE SkipGap
    <2>1. expected \in Nat /\ done <= expected
      BY <1>6 DEF IInv, TypeOK, HeadInv, SkipGap, Missing
    <2>2. PICK near \in packets :
            WriteAudio([i \in 1 .. (IF near - expected < Conceal
                                     THEN near - expected ELSE Conceal)
                          |-> expected + i - 1])
      BY <1>6 DEF SkipGap
    <2>. DEFINE k == IF near - expected < Conceal THEN near - expected ELSE Conceal
                s == [i \in 1 .. k |-> expected + i - 1]
    <2>3. near \in Nat /\ expected <= near
      BY <2>1 DEF IInv, TypeOK, WindowInv, None
    <2>4. k \in Nat
      BY <2>1, <2>3, ReceiverAssumption
    <2>5. WriteAudio(s)
      BY <2>2
    <2>. HIDE DEF k
    <2>6. s \in Seq(Nat) /\ Run(s, expected, k)
      BY <2>1, <2>4 DEF Run
    <2>. HIDE DEF s
    <2>. QED BY <1>4, <2>1, <2>4, <2>5, <2>6
  <1>7. CASE \/ Listen \/ Record \/ Flush \/ ClearAudio \/ Close \/ Deliver \/ DrainEnds
             \/ AwaitHead \/ Send \/ GapAges \/ BecomesQuiet \/ UNCHANGED vars
    <2>1. queue' = <<>> \/ queue' = queue \/ (queue # <<>> /\ queue' = Tail(queue))
      BY <1>7 DEF Listen, Record, Flush, ClearAudio, Close, Deliver, Insert, DrainEnds,
         AwaitHead, Send, GapAges, BecomesQuiet, vars
    <2>. QED BY <1>2, <1>3, <2>1
  <1>. QED BY <1>5, <1>6, <1>7 DEF Next

\* No packet is written twice, nor one from before the last FLUSH, however
\* the network repeats and reorders them (receiver.py:186-190, 249-267).
THEOREM NeverBack == Spec => WritesForward
  <1>1. IInv /\ [Next]_vars
          => [\A c \in Chunks(queue') \ Chunks(queue) : c >= done]_vars
    BY StepWritesForward
  <1>. QED BY <1>1, Invariance, PTL DEF Spec, WritesForward

=============================================================================
