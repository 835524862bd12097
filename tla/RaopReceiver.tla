---------------------------- MODULE RaopReceiver ----------------------------
(***************************************************************************)
(* The RAOP receiver of one AirPlay session                                *)
(* (src/src/miairx/protocols/airplay/receiver.py) between the sender's UDP *)
(* packets and the PCM queue of AudioStreamServer (audio.py) that the      *)
(* speaker reads over HTTP.                                                *)
(*                                                                         *)
(* Three threads meet here: the receiver thread (_run), the RTSP thread of *)
(* the session (RECORD, FLUSH, TEARDOWN in server.py) and the HTTP reader. *)
(* Receiver._lock covers one _insert or one whole _drain, and flush and    *)
(* start; clear_audio, the second half of FLUSH, runs without it.          *)
(*                                                                         *)
(* A packet is its position in the sender's stream.  Its RTP sequence      *)
(* number is the position modulo Modulus; the code only ever uses the      *)
(* distance from _expected (Distance below), so the state keeps positions. *)
(* The RTP timestamp of a packet orders packets as their positions do.     *)
(***************************************************************************)
EXTENDS Integers, Sequences, FiniteSets

CONSTANTS
  Modulus,   \* sequence numbers (65536)
  Window,    \* packets kept ahead of the head, and how far ahead (512)
  Conceal,   \* silent packets written for one gap, at most (8)
  Retries,   \* retransmission requests for one gap, at most (3)
  QueueMax,  \* chunks in the PCM queue, at most (100)
  Delay,     \* bound: how many packets later the network may still deliver one
  MaxPos     \* bound: packets the sender sends

None == -1
Half == Modulus \div 2

ASSUME ReceiverAssumption ==
  /\ Modulus \in Nat /\ Window \in Nat /\ Window > 0 /\ 2 * Window < Modulus
  /\ Half \in Nat /\ Modulus = 2 * Half
  /\ Conceal \in Nat /\ Retries \in Nat /\ QueueMax \in Nat \ {0}
  /\ Delay \in Nat /\ Delay <= Half /\ MaxPos \in Nat

VARIABLES
  phase,     \* "setup" until RECORD (_started), "record", then "closed"
  expected,  \* _expected: the head of the jitter buffer, or None
  packets,   \* _packets
  floor,     \* _timestamp_floor, or None
  gap,       \* _gap_since: "none", "young" (less than 0.1 s ago) or "old"
  retries,   \* _retries
  quiet,     \* nothing has been accepted for 0.25 s (last_audio)
  draining,  \* the receiver thread is inside _drain, with the lock
  queue,     \* _audio_queue: the position that each chunk plays or conceals
  rtsp,      \* the RTSP thread is "idle", or in the clear_audio of a FLUSH
  next,      \* the sender's next packet
  cut,       \* history: the position the last FLUSH or RECORD named, else 0
  done       \* history: end of what has been written since then, else cut

jitter == <<expected, packets, floor, gap, retries>>
env == <<rtsp, next>>
vars == <<phase, jitter, quiet, draining, queue, env, cut, done>>

TypeOK ==
  /\ phase \in {"setup", "record", "closed"}
  /\ expected \in Nat \cup {None} /\ floor \in Nat \cup {None}
  /\ packets \subseteq Nat
  /\ gap \in {"none", "young", "old"} /\ retries \in 0 .. Retries
  /\ quiet \in BOOLEAN /\ draining \in BOOLEAN
  /\ queue \in Seq(Nat) /\ Len(queue) <= QueueMax
  /\ rtsp \in {"idle", "clear"}
  /\ next \in Nat /\ cut \in Nat /\ done \in Nat

Init ==
  /\ phase = "setup" /\ expected = None /\ packets = {} /\ floor = None
  /\ gap = "none" /\ retries = 0
  /\ quiet = FALSE /\ draining = FALSE /\ queue = <<>> /\ rtsp = "idle"
  /\ next = 0 /\ cut = 0 /\ done = 0

-----------------------------------------------------------------------------
(* The PCM queue.                                                          *)

\* A full queue gives up its oldest chunks.
Newest(s) ==
  IF Len(s) > QueueMax THEN SubSeq(s, Len(s) - QueueMax + 1, Len(s)) ELSE s

\* write_audio for each chunk of s.
WriteAudio(s) == queue' = Newest(queue \o s)

\* The HTTP handler takes the oldest chunk.
Listen ==
  /\ phase = "record" /\ queue # <<>>
  /\ queue' = Tail(queue)
  /\ UNCHANGED <<phase, jitter, quiet, draining, env, cut, done>>

-----------------------------------------------------------------------------
(* The RTSP thread.                                                        *)

\* What an RTP-Info header may say: each of its two fields may be missing.
Infos == {None, next} \X {None, next}

\* Mutant of Restart: a restart that keeps no timestamp floor.
RestartWithoutFloor(info) ==
  /\ expected' = info[1] /\ floor' = None
  /\ cut' = IF info = <<None, None>> THEN 0 ELSE next
  /\ done' = cut'

\* What flush and start set; packets of before come back only where the
\* header says nothing.
Restart(info) ==
  /\ expected' = info[1] /\ floor' = info[2]
  /\ cut' = IF info = <<None, None>> THEN 0 ELSE next
  /\ done' = cut'

\* The first RECORD: start_streaming, then Receiver.start.
Record ==
  /\ phase = "setup" /\ rtsp = "idle" /\ ~draining
  /\ \E info \in Infos : Restart(info)
  /\ phase' = "record" /\ queue' = <<>>
  /\ UNCHANGED <<packets, gap, retries, quiet, draining, env>>

\* Mutant of Flush: a FLUSH that leaves the PCM queue alone.
FlushWithoutClear ==
  /\ phase # "closed" /\ rtsp = "idle" /\ ~draining
  /\ \E info \in Infos : Restart(info)
  /\ packets' = {} /\ gap' = "none" /\ retries' = 0
  /\ UNCHANGED <<phase, quiet, draining, queue, env>>

\* FLUSH: Receiver.flush under the lock, after which clear_audio goes on.
Flush ==
  /\ phase # "closed" /\ rtsp = "idle" /\ ~draining
  /\ \E info \in Infos : Restart(info)
  /\ packets' = {} /\ gap' = "none" /\ retries' = 0
  /\ rtsp' = "clear"
  /\ UNCHANGED <<phase, quiet, draining, queue, next>>

\* clear_audio takes chunks until it finds the queue empty.
ClearAudio ==
  /\ rtsp = "clear"
  /\ IF queue = <<>> THEN rtsp' = "idle" /\ UNCHANGED queue
                     ELSE queue' = Tail(queue) /\ UNCHANGED rtsp
  /\ UNCHANGED <<phase, jitter, quiet, draining, next, cut, done>>

\* TEARDOWN or the end of the connection: close joins the receiver thread.
Close ==
  /\ phase # "closed" /\ rtsp = "idle" /\ ~draining
  /\ phase' = "closed"
  /\ UNCHANGED <<jitter, quiet, draining, queue, env, cut, done>>

-----------------------------------------------------------------------------
(* The receiver thread: _insert.                                           *)

\* (seq - _expected) & 65535, for positions less than Modulus apart.
Distance(n) == IF n >= expected THEN n - expected ELSE n - expected + Modulus

\* Older than what a FLUSH named or than what has been played.
Stale(n) == floor # None /\ n < floor

\* Mutant of Keeps: a buffer that takes the head without making room for it.
KeepsTooMany(n) ==
  /\ Distance(n) <= Window /\ n \notin packets
  /\ Cardinality(packets) < Window \/ n = expected
  /\ packets' = packets \cup {n}
  /\ UNCHANGED <<expected, floor, gap, retries>>

\* A packet of the window goes into the buffer.  A full one makes room for
\* the head alone, at the expense of the packet farthest from it.
Keeps(n) ==
  /\ Distance(n) <= Window /\ n \notin packets
  /\ \/ /\ Cardinality(packets) < Window
        /\ packets' = packets \cup {n}
     \/ /\ Cardinality(packets) >= Window /\ n = expected
        /\ \E far \in packets :
             /\ \A m \in packets : m <= far
             /\ packets' = (packets \ {far}) \cup {n}
  /\ UNCHANGED <<expected, floor, gap, retries>>

\* The first packet after RECORD or FLUSH without a sequence number.
Begins(n) ==
  /\ expected = None
  /\ expected' = n /\ packets' = packets \cup {n}
  /\ UNCHANGED <<floor, gap, retries>>

\* Mutant of Recovers: a recovery that takes an old packet for one far ahead.
RecoversBack(n) ==
  /\ expected # None /\ quiet
  /\ Distance(n) > Window
  /\ packets' = {n} /\ expected' = n
  /\ gap' = "none" /\ retries' = 0
  /\ UNCHANGED floor

\* After an outage, a packet beyond the window restarts the buffer.
Recovers(n) ==
  /\ expected # None /\ quiet
  /\ Distance(n) < Half /\ Distance(n) > Window
  /\ packets' = {n} /\ expected' = n
  /\ gap' = "none" /\ retries' = 0
  /\ UNCHANGED floor

\* A packet is delivered, by the network for the first time or again, or as
\* a retransmission, and accepted.  All others leave the state as it is:
\* stale, old, duplicate, beyond the window, or invalid.
Insert(n) ==
  /\ phase = "record" /\ ~draining /\ ~Stale(n)
  /\ Begins(n) \/ Recovers(n) \/ (expected # None /\ Keeps(n))
  /\ quiet' = FALSE
  /\ UNCHANGED <<phase, draining, queue, env, cut, done>>

-----------------------------------------------------------------------------
(* The receiver thread: _drain, one packet at a time.                      *)

\* The head is played, or lost if it cannot be decoded.
PlayHead ==
  /\ phase = "record" /\ expected \in packets
  /\ draining' = TRUE
  /\ packets' = packets \ {expected} /\ expected' = expected + 1
  /\ gap' = "none" /\ retries' = 0
  /\ \/ WriteAudio(<<expected>>) /\ floor' = expected /\ done' = expected + 1
     \/ UNCHANGED <<queue, floor, done>>
  /\ UNCHANGED <<phase, quiet, env, cut>>

\* The drain gives the lock back when the next packet is not due yet, or when
\* nothing is left.  (When a packet is due is left open: _anchor is omitted.)
DrainEnds ==
  /\ draining /\ draining' = FALSE
  /\ expected \in packets \/ packets = {}
  /\ UNCHANGED <<phase, jitter, quiet, queue, env, cut, done>>

\* The head is missing while later packets wait.
Missing ==
  phase = "record" /\ expected # None /\ packets # {} /\ expected \notin packets

\* The drain notes the gap, asks for the head, or waits.
AwaitHead ==
  /\ Missing /\ gap # "old"
  /\ gap' = "young" /\ draining' = FALSE
  /\ retries' \in {retries, retries + 1} /\ retries' <= Retries
  /\ UNCHANGED <<phase, expected, packets, floor, quiet, queue, env,
                 cut, done>>

\* Mutant of SkipGap: a skip that forgets to move the head.
SkipNothing ==
  /\ Missing /\ gap = "old"
  /\ gap' = "none" /\ retries' = 0 /\ draining' = FALSE
  /\ UNCHANGED <<phase, expected, packets, floor, quiet, queue, env,
                 cut, done>>

\* The head did not come in 0.1 s: silence, and on to the nearest packet.
SkipGap ==
  /\ Missing /\ gap = "old"
  /\ \E near \in packets :
       LET silent == IF near - expected < Conceal THEN near - expected ELSE Conceal
       IN /\ \A m \in packets : near <= m
          /\ WriteAudio([i \in 1 .. silent |-> expected + i - 1])
          /\ done' = IF silent = 0 THEN done ELSE expected + silent
          /\ expected' = near
  /\ gap' = "none" /\ retries' = 0 /\ draining' = FALSE
  /\ UNCHANGED <<phase, packets, floor, quiet, env, cut>>

-----------------------------------------------------------------------------
(* The sender, the network and time.                                       *)

\* The next packet is sent.  An outage stays within a cycle of sequence numbers.
Send ==
  /\ phase = "record" /\ next < MaxPos
  /\ expected # None => next + 1 < expected + Modulus
  /\ next' = next + 1
  /\ UNCHANGED <<phase, jitter, quiet, draining, queue, rtsp, cut, done>>

\* The network delivers late, again, out of order, or not at all.
Deliver == \E n \in 0 .. next - 1 : n + Delay >= next /\ Insert(n)

GapAges ==
  /\ gap = "young" /\ gap' = "old"
  /\ UNCHANGED <<phase, expected, packets, floor, retries, quiet,
                 draining, queue, env, cut, done>>

BecomesQuiet ==
  /\ ~quiet /\ quiet' = TRUE
  /\ UNCHANGED <<phase, jitter, draining, queue, env, cut, done>>

Next ==
  \/ Listen \/ Record \/ Flush \/ ClearAudio \/ Close
  \/ Deliver \/ PlayHead \/ DrainEnds \/ AwaitHead \/ SkipGap
  \/ Send \/ GapAges \/ BecomesQuiet

Spec == Init /\ [][Next]_vars

\* The receiver thread drains every 20 ms, a packet is due within a second of
\* its turn, time passes, and clear_audio is a loop that runs.
FairSpec ==
  /\ Spec
  /\ WF_vars(PlayHead) /\ WF_vars(DrainEnds) /\ WF_vars(AwaitHead)
  /\ WF_vars(SkipGap) /\ WF_vars(GapAges) /\ WF_vars(ClearAudio)

-----------------------------------------------------------------------------
(* Properties.                                                             *)

\* The buffer holds at most Window packets, none before the head and none
\* farther than Window from it, whatever the network does
\* (receiver.py:194-218); without a head it is empty.
WindowInv ==
  /\ IsFiniteSet(packets) /\ Cardinality(packets) <= Window
  /\ expected = None => packets = {}
  /\ expected # None => \A n \in packets : expected <= n /\ n <= expected + Window

\* Whatever is lost, late or repeated, nothing grows: the jitter buffer keeps
\* its window, the PCM queue its length and the gap its number of retries
\* (receiver.py:211-218, 270-290, audio.py:119-131).
Bounded == TypeOK /\ WindowInv

\* Outside a FLUSH under way, the queue holds each packet at most once, and
\* in the order of the stream (receiver.py:187-209, 249-267, 289-301).
QueueInOrder ==
  rtsp = "idle" => \A i, j \in 1 .. Len(queue) : i < j => queue[i] < queue[j]

\* Once FLUSH is over, what it cut off is neither in the queue nor written
\* any more, however late its packets come (server.py:424-431,
\* receiver.py:98-107, 186-190).
FlushDiscards == rtsp = "idle" => \A i \in 1 .. Len(queue) : queue[i] >= cut

Chunks(q) == {q[i] : i \in 1 .. Len(q)}

\* Nothing is written that has been written since the last RECORD or FLUSH,
\* nor anything before it: the listener hears no packet twice, although
\* the packets are retransmitted (receiver.py:187-190).
WritesForward ==
  [][\A c \in Chunks(queue') \ Chunks(queue) : c >= done]_vars

\* A packet of the buffer does not stay there: it is played, given up, or
\* evicted (receiver.py:224-301).
BufferedAudioLeaves ==
  \A n \in 0 .. MaxPos - 1 :
    n \in packets ~> n \notin packets \/ phase = "closed"

=============================================================================
