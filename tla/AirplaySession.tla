--------------------------- MODULE AirplaySession ---------------------------
(***************************************************************************)
(* The RTSP side of the AirPlay server                                     *)
(* (src/src/miairx/protocols/airplay/server.py): one thread for every      *)
(* connection (_handle_client), the playback lock they compete for         *)
(* (_session_lock), the receiver and the audio stream of the one that has  *)
(* it, and the stop of the server in the event loop.                       *)
(*                                                                         *)
(* One request is one step where its thread touches the shared state once; *)
(* RECORD and the finally block are taken apart.  A request that only      *)
(* answers (OPTIONS, GET /info, /feedback, GET_PARAMETER, every 4xx) is no *)
(* step.  Of the handshakes the one that gates something is kept,          *)
(* TransientPairing and its encrypted channel (hap.py); whether a message  *)
(* is well-formed, in time and within the limits is open, and so is        *)
(* whether the SDP of ANNOUNCE has a usable key (fairplay.py, crypto.py).  *)
(* What the receiver does with packets and FLUSH is in RaopReceiver.       *)
(***************************************************************************)
EXTENDS AudioStream, Integers

CONSTANTS
  Conns,     \* the connections that may be open at once (8 in the code)
  NoConn,
  Hap        \* bound: the connections whose sender uses HAP pairing and AP2

ASSUME SessionAssumption == NoConn \notin Conns /\ Hap \subseteq Conns

VARIABLES
  conn,      \* the local variables of _handle_client
  session,   \* the connection that holds _session_lock, or NoConn
  receiver,  \* the connection that _receiver belongs to, or NoConn
  sockets,   \* the connections whose receiver has the UDP ports open
  playFlag,  \* _session_active
  server,    \* "running", "stopping" (_running is False) or "stopped"
  gone       \* connections whose sender has vanished without a word

rtsp == <<conn, session, receiver, sockets, playFlag, server, gone>>
vars == <<stream, rtsp>>

NoClient == [at |-> "free", owns |-> FALSE, playing |-> FALSE, decoder |-> FALSE,
             recv |-> "none", configured |-> FALSE, notified |-> FALSE,
             hap |-> "none", channel |-> FALSE]

Recording == {"sid", "queue", "lock"}
Ending == {"close", "closed", "ended", "told"}

ConnType ==
  [at : {"free", "open"} \cup Recording \cup Ending,
   owns : BOOLEAN, playing : BOOLEAN, decoder : BOOLEAN,
   recv : {"none", "raop", "ap2"}, configured : BOOLEAN, notified : BOOLEAN,
   hap : {"none", "pending", "shared"}, channel : BOOLEAN]

SessionInit ==
  /\ conn = [c \in Conns |-> NoClient]
  /\ session = NoConn /\ receiver = NoConn /\ sockets = {}
  /\ playFlag = FALSE /\ server = "running" /\ gone = {}

\* A request of c arrives: its sender is there and its thread waits for one.
Asked(c) == conn[c].at = "open" /\ c \notin gone

Accept(c) ==
  /\ server = "running" /\ conn[c].at = "free"
  /\ conn' = [conn EXCEPT ![c].at = "open"]
  /\ UNCHANGED <<stream, session, receiver, sockets, playFlag, server, gone>>

----------------------------------------------------------------------------
(* The handshakes: local to the connection. *)

Local(c, new) ==
  /\ conn' = [conn EXCEPT ![c] = new]
  /\ UNCHANGED <<stream, session, receiver, sockets, playFlag, server, gone>>

MayPair(c) == ~conn[c].channel /\ ~conn[c].owns

\* M1 begins an exchange and drops the last one; the fourth of a connection,
\* one beyond the rate limit and a bad one are refused.
PairStart(c) ==
  /\ c \in Hap /\ Asked(c) /\ MayPair(c)
  /\ \E good \in BOOLEAN :
       Local(c, [conn[c] EXCEPT !.hap = IF good THEN "pending" ELSE "none"])

\* M3 ends it.  After the plaintext M4 the connection is encrypted.
PairProof(c) ==
  /\ c \in Hap /\ Asked(c) /\ MayPair(c)
  /\ \E good \in BOOLEAN :
       LET proved == good /\ conn[c].hap = "pending" IN
       Local(c, [conn[c] EXCEPT !.channel = proved,
                                !.hap = IF proved THEN "shared" ELSE "none"])

----------------------------------------------------------------------------
(* The session. *)

\* Mutant of MayOwn: ANNOUNCE does not look at the playback lock.
MayOwnAnyway(c) == TRUE

\* 453: another connection has the playback lock.
MayOwn(c) == conn[c].owns \/ session = NoConn

\* Whatever is wrong with the SDP or its key leaves the owner no decoder.
Announce(c) ==
  /\ Asked(c) /\ conn[c].recv = "none" /\ MayOwn(c)
  /\ session' = c
  /\ \E good \in BOOLEAN :
       conn' = [conn EXCEPT ![c].owns = TRUE, ![c].decoder = good]
  /\ UNCHANGED <<stream, receiver, sockets, playFlag, server, gone>>

\* The ports are the same for every session: only one can have them.
Binds(c, new) ==
  /\ sockets = {}
  /\ sockets' = {c} /\ receiver' = c
  /\ conn' = [conn EXCEPT ![c] = new]

SetupEnds(c) ==
  /\ conn' = [conn EXCEPT ![c].at = "close"]
  /\ UNCHANGED <<sockets, receiver>>

\* SETUP of classic RAOP: a port that cannot be had or a bad header ends the
\* connection.
Setup(c) ==
  /\ Asked(c) /\ conn[c].owns /\ conn[c].decoder /\ conn[c].recv = "none"
  /\ \/ Binds(c, [conn[c] EXCEPT !.recv = "raop"])
     \/ SetupEnds(c)
  /\ UNCHANGED <<stream, session, playFlag, server, gone>>

MayStream(c) == conn[c].channel /\ conn[c].hap = "shared"

\* SETUP of AP2, in one or two requests; what it rejects it leaves as it is,
\* but the connection has the playback lock from then on.
SetupRealtime(c) ==
  /\ Asked(c) /\ MayStream(c) /\ conn[c].recv # "raop" /\ MayOwn(c)
  /\ session' = c
  /\ \E good \in BOOLEAN, stream96 \in BOOLEAN :
       LET mine == [conn[c] EXCEPT !.owns = TRUE]
           set  == [mine EXCEPT !.recv = "ap2", !.decoder = @ \/ good,
                      !.configured = @ \/ (good /\ stream96)] IN
       \/ mine.recv = "none" /\ Binds(c, set)
       \/ /\ conn' = [conn EXCEPT ![c] = IF mine.recv = "none" THEN mine ELSE set]
          /\ UNCHANGED <<sockets, receiver>>
  /\ UNCHANGED <<stream, playFlag, server, gone>>

\* RECORD: 455 before the session is set up, nothing new when it plays.
Record(c) ==
  /\ Asked(c) /\ conn[c].recv # "none" /\ ~conn[c].playing
  /\ conn[c].recv = "ap2" => conn[c].configured
  /\ Activate
  /\ conn' = [conn EXCEPT ![c].at = "sid"]
  /\ UNCHANGED <<session, receiver, sockets, playFlag, server, gone>>

Then(c, from, to) ==
  /\ conn[c].at = from
  /\ conn' = [conn EXCEPT ![c].at = to]

RecordSid(c) ==
  /\ Then(c, "sid", "queue") /\ NewSid
  /\ UNCHANGED <<session, receiver, sockets, playFlag, server, gone>>

RecordQueue(c) ==
  /\ Then(c, "queue", "lock") /\ NewQueue
  /\ UNCHANGED <<session, receiver, sockets, playFlag, server, gone>>

\* The last assignment, and Receiver.start.
RecordStarts(c) ==
  /\ conn[c].at = "lock" /\ NewLock
  /\ conn' = [conn EXCEPT ![c].at = "open", ![c].playing = TRUE]
  /\ playFlag' = TRUE
  /\ UNCHANGED <<session, receiver, sockets, server, gone>>

\* The receiver thread has written its first PCM: _audio_ready.
AudioReady(c) ==
  /\ c \in sockets /\ conn[c].playing /\ ~conn[c].notified
  /\ Publish
  /\ conn' = [conn EXCEPT ![c].notified = TRUE]
  /\ UNCHANGED <<session, receiver, sockets, playFlag, server, gone>>

----------------------------------------------------------------------------
(* The end of a connection. *)

Closes(c) ==
  /\ conn[c].at = "open"
  /\ conn' = [conn EXCEPT ![c].at = "close"]
  /\ UNCHANGED <<stream, session, receiver, sockets, playFlag, server, gone>>

\* TEARDOWN, the sender closes, a bad request or a bad frame.
Hangup(c) == c \notin gone /\ Closes(c)

\* The sender vanishes: neither requests nor audio come any more.
Vanish(c) ==
  /\ conn[c].at = "open" /\ c \notin gone
  /\ gone' = gone \cup {c}
  /\ UNCHANGED <<stream, conn, session, receiver, sockets, playFlag, server>>

\* Mutant of TimesOut: a session that plays is kept, audio or no audio.
TimesOutIdle(c) == ~conn[c].playing

\* recv() has timed out, and no audio has come for 30 s if c plays.
TimesOut(c) == conn[c].playing => c \in gone

Timeout(c) == TimesOut(c) /\ Closes(c)

\* The loop sees that _running is False, or its socket has been closed.
EndsWithServer(c) == server # "running" /\ Closes(c)

\* Mutant of CloseReceiver: a connection that owns nothing goes the same way.
CloseReceiverOfAll(c) ==
  /\ conn[c].at = "close"
  /\ conn' = [conn EXCEPT ![c].at = "closed"]
  /\ sockets' = sockets \ {c}
  /\ receiver' = IF receiver = c THEN NoConn ELSE receiver
  /\ UNCHANGED <<stream, session, playFlag, server, gone>>

\* pairing, fairplay and hap are reset; what the connection owned follows.
CloseReceiver(c) ==
  /\ conn[c].at = "close"
  /\ IF conn[c].owns
     THEN conn' = [conn EXCEPT ![c].at = "closed"] /\ UNCHANGED gone
     ELSE conn' = [conn EXCEPT ![c] = NoClient] /\ gone' = gone \ {c}
  /\ sockets' = sockets \ {c}
  /\ receiver' = IF receiver = c THEN NoConn ELSE receiver
  /\ UNCHANGED <<stream, session, playFlag, server>>

\* Mutant of EndStream: a stopping server leaves the stream to its own stop.
EndStreamLazy(c) ==
  /\ Then(c, "closed", "ended")
  /\ IF server = "running" THEN StopStreaming ELSE UNCHANGED stream
  /\ playFlag' = FALSE
  /\ UNCHANGED <<session, receiver, sockets, server, gone>>

\* Mutant of EndStream: the lock is given up before the callback.
EndStreamEarly(c) ==
  /\ Then(c, "closed", "ended")
  /\ StopStreaming /\ playFlag' = FALSE /\ session' = NoConn
  /\ UNCHANGED <<receiver, sockets, server, gone>>

EndStream(c) ==
  /\ Then(c, "closed", "ended")
  /\ StopStreaming /\ playFlag' = FALSE
  /\ UNCHANGED <<session, receiver, sockets, server, gone>>

\* on_play_stop, which AirplaySpeaker takes up.
StopCallback(c) ==
  /\ Then(c, "ended", "told")
  /\ UNCHANGED <<stream, session, receiver, sockets, playFlag, server, gone>>

\* The lock is given up, and the connection is gone.
ReleaseSession(c) ==
  /\ conn[c].at = "told"
  /\ session' = NoConn
  /\ conn' = [conn EXCEPT ![c] = NoClient] /\ gone' = gone \ {c}
  /\ UNCHANGED <<stream, receiver, sockets, playFlag, server>>

----------------------------------------------------------------------------
(* The stop of the server. *)

StopServer ==
  /\ server = "running"
  /\ server' = "stopping"
  /\ UNCHANGED <<stream, conn, session, receiver, sockets, playFlag, gone>>

\* Each thread is waited for one second: some may still be there.
StopRest ==
  /\ server = "stopping"
  /\ server' = "stopped"
  /\ sockets' = sockets \ {receiver}
  /\ StopStreaming
  /\ UNCHANGED <<conn, session, receiver, playFlag, gone>>

----------------------------------------------------------------------------
Handshake(c) == PairStart(c) \/ PairProof(c)

Play(c) ==
  \/ Announce(c) \/ Setup(c) \/ SetupRealtime(c) \/ Record(c)
  \/ RecordSid(c) \/ RecordQueue(c) \/ RecordStarts(c)

End(c) ==
  \/ Hangup(c) \/ Timeout(c) \/ EndsWithServer(c)
  \/ CloseReceiver(c) \/ EndStream(c) \/ ReleaseSession(c)

Init == StreamInit /\ SessionInit

Next ==
  \/ \E c \in Conns : \/ Accept(c) \/ Handshake(c) \/ Play(c) \/ AudioReady(c)
                      \/ Vanish(c) \/ End(c) \/ StopCallback(c)
  \/ StopServer \/ StopRest
  \/ \E r \in Readers : HandleStream(r) /\ UNCHANGED rtsp

Spec == Init /\ [][Next]_vars

(***************************************************************************)
(* Threads run on.  A sender that has vanished is noticed when recv times  *)
(* out; nothing else of what senders do is fair.                           *)
(***************************************************************************)
ThreadStep(c) ==
  \/ RecordSid(c) \/ RecordQueue(c) \/ RecordStarts(c)
  \/ c \in gone /\ Timeout(c)
  \/ EndsWithServer(c) \/ CloseReceiver(c) \/ EndStream(c) \/ StopCallback(c)
  \/ ReleaseSession(c)

FairSpec ==
  /\ Spec
  /\ \A c \in Conns : WF_vars(ThreadStep(c))
  /\ WF_vars(StopRest)

----------------------------------------------------------------------------
SessionTypeOK ==
  /\ conn \in [Conns -> ConnType]
  /\ session \in Conns \cup {NoConn} /\ receiver \in Conns \cup {NoConn}
  /\ sockets \subseteq Conns /\ gone \subseteq Conns
  /\ playFlag \in BOOLEAN /\ server \in {"running", "stopping", "stopped"}

\* The types of the stream and of the sessions.
TypeOK == StreamTypeOK /\ SessionTypeOK

\* One connection at most plays: the one that holds the playback lock, from
\* the request that took it to the end of its cleanup ("播放独占锁",
\* docs/AIRPLAY.md:71; 453 for the others).  It finds the UDP ports free:
\* whoever played before has closed them before it gave the lock up, however
\* that connection ended.
OneOwner ==
  \A c \in Conns :
    conn[c].owns =>
      /\ session = c
      /\ conn[c].at = "open" /\ conn[c].recv = "none" => sockets = {}

\* While a connection plays its stream is on, under one session id with the
\* queue and the lock made for it: no other connection that comes, is refused
\* or ends switches it off.
PlayingStreams ==
  \A c \in Conns :
    conn[c].playing /\ conn[c].at = "open" /\ server # "stopped" =>
      active /\ playFlag /\ queue = sid /\ lock = sid /\ sid > 0

\* AP2 audio is set up only on a connection that is encrypted under the key
\* its proof was accepted for, and pairing never takes that key away again.
RealtimeIsEncrypted ==
  \A c \in Conns : /\ conn[c].recv = "ap2" => conn[c].channel
                   /\ conn[c].channel => conn[c].hap = "shared"

\* A stopped server is left with nothing on once its connections are gone:
\* also the ones that outlive the second their threads are waited for.
StoppedIsSilent ==
  /\ server = "stopped"
  /\ \A c \in Conns : conn[c].at = "free"
  => sockets = {} /\ receiver = NoConn /\ session = NoConn /\ ~active /\ ~playFlag

\* The sessions that the bridge sees (PlaySessions): the consumer lock is the
\* last thing that a session gets when it begins.
OnAir(c) == conn[c].playing /\ conn[c].at # "told"
Phase ==
  IF \E c \in Conns : OnAir(c) /\ conn[c].notified THEN "heard"
  ELSE IF \E c \in Conns : OnAir(c) THEN "begun" ELSE "none"

Sessions == INSTANCE PlaySessions WITH cur <- lock, phase <- Phase

\* The bridge gets what PlaySessions promises: the callbacks of one session
\* at a time, the start once at most and before the stop, which always comes
\* before the next session begins.
SessionsKept == Sessions!SessionsSpec

\* A sender that vanishes without a word does not keep the lock for ever, and
\* every connection ends when the server stops.
ConnectionsEnd ==
  /\ \A c \in Conns : c \in gone ~> session # c
  /\ server = "stopping" ~> \A c \in Conns : conn[c].at = "free"
=============================================================================
