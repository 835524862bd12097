---------------------------- MODULE AudioStream ----------------------------
(***************************************************************************)
(* The HTTP audio stream of the AirPlay server                             *)
(* (src/src/miairx/protocols/airplay/audio.py): the RTSP threads start and *)
(* stop a stream, the speaker reads it over HTTP in the event loop.  No    *)
(* lock covers the two, so the assignments of start_streaming and the      *)
(* reads at the top of _handle_stream_wav interleave one by one.           *)
(*                                                                         *)
(* The session id is a monotonic clock; here it counts the sessions.  A    *)
(* queue and a consumer lock are named by the session they were made for.  *)
(* What is in a queue is left to RaopReceiver; only the receiver of a      *)
(* session writes to the queue of that session.                            *)
(***************************************************************************)
EXTENDS Naturals, FiniteSets

CONSTANTS
  Readers,  \* GET requests for a stream URL that may be under way at once
  MaxSid    \* bound: sessions that start streaming

ASSUME MaxSidAssumption == MaxSid \in Nat

VARIABLES
  active,   \* _active
  sid,      \* _session_id; 0 is the one of the constructor
  queue,    \* _audio_queue
  lock,     \* _consumer_lock
  held,     \* the consumer locks that are held
  public,   \* the sessions whose stream_url has been handed out
  reader    \* the request under way: where it is, its URL and what it took

stream == <<active, sid, queue, lock, held, public, reader>>

Sids == 0..MaxSid
NotReading == [at |-> "idle", url |-> 0, lock |-> 0, queue |-> 0]
ReaderType == [at : {"idle", "checked", "lock", "queue", "serving"},
               url : Sids, lock : Sids, queue : Sids]

StreamInit ==
  /\ active = FALSE /\ sid = 0 /\ queue = 0 /\ lock = 0
  /\ held = {} /\ public = {}
  /\ reader = [r \in Readers |-> NotReading]

(***************************************************************************)
(* start_streaming, assignment by assignment, stop_streaming, and          *)
(* stream_url when the URL is given to the speaker.  _abort is never set:  *)
(* nothing calls abort_streaming.                                          *)
(***************************************************************************)
Activate ==
  /\ sid < MaxSid
  /\ active' = TRUE
  /\ UNCHANGED <<sid, queue, lock, held, public, reader>>

NewSid ==
  /\ sid' = sid + 1
  /\ UNCHANGED <<active, queue, lock, held, public, reader>>

\* Mutant of NewQueue: the queue of the last session is used on.
KeepsQueue == UNCHANGED stream

NewQueue ==
  /\ queue' = sid
  /\ UNCHANGED <<active, sid, lock, held, public, reader>>

NewLock ==
  /\ lock' = sid
  /\ UNCHANGED <<active, sid, queue, held, public, reader>>

StopStreaming ==
  /\ active' = FALSE
  /\ UNCHANGED <<sid, queue, lock, held, public, reader>>

Publish ==
  /\ public' = public \cup {sid}
  /\ UNCHANGED <<active, sid, queue, lock, held, reader>>

(***************************************************************************)
(* _handle_stream_wav.  A request comes with a URL that was handed out at  *)
(* some time; 404 and 409 end it.  It serves until the session that it     *)
(* reads from _session_id ends or changes, or its client goes: when that   *)
(* is, is left open.                                                       *)
(***************************************************************************)
Reads(r, from, to) ==
  /\ reader[r].at = from
  /\ reader' = [reader EXCEPT ![r] = to]
  /\ UNCHANGED <<active, sid, queue, lock, public>>

Request(r) ==
  \E u \in public :
    /\ active /\ u = sid
    /\ Reads(r, "idle", [NotReading EXCEPT !.at = "checked", !.url = u])
    /\ UNCHANGED held

TakeLock(r) ==
  /\ Reads(r, "checked", [reader[r] EXCEPT !.at = "lock", !.lock = lock])
  /\ UNCHANGED held

TakeQueue(r) ==
  /\ Reads(r, "lock", [reader[r] EXCEPT !.at = "queue", !.queue = queue])
  /\ UNCHANGED held

Acquire(r) ==
  IF reader[r].lock \in held
  THEN Reads(r, "queue", NotReading) /\ UNCHANGED held
  ELSE /\ Reads(r, "queue", [reader[r] EXCEPT !.at = "serving"])
       /\ held' = held \cup {reader[r].lock}

Leave(r) ==
  /\ Reads(r, "serving", NotReading)
  /\ held' = held \ {reader[r].lock}

HandleStream(r) ==
  \/ Request(r) \/ TakeLock(r) \/ TakeQueue(r) \/ Acquire(r) \/ Leave(r)

StreamTypeOK ==
  /\ active \in BOOLEAN /\ sid \in Sids /\ queue \in Sids /\ lock \in Sids
  /\ held \subseteq Sids /\ public \subseteq Sids
  /\ reader \in [Readers -> ReaderType]

\* Two requests for the URL of one session never share its PCM, whatever
\* sessions start and stop while they come in (the 409 of audio.py:139).
OneConsumer ==
  \A r, s \in Readers :
    /\ r # s
    /\ reader[r].at = "serving" /\ reader[s].at = "serving"
    /\ reader[r].queue = reader[r].url /\ reader[s].queue = reader[s].url
    => reader[r].url # reader[s].url

\* A request for a session never gets the PCM left over from an earlier one
\* (start_streaming makes a new queue before any URL of the session is known).
NoEarlierPcm ==
  \A r \in Readers :
    reader[r].at \in {"queue", "serving"} => reader[r].queue >= reader[r].url
=============================================================================
