---------------------------- MODULE DlnaRenderer ----------------------------
(***************************************************************************)
(* DlnaRenderer (src/src/miairx/protocols/dlna/renderer.py): the shadow    *)
(* AVTransport state machine kept for one speaker, and every asyncio task  *)
(* that runs its methods: the SOAP handlers, the play monitor              *)
(* (_check_play_status) and the automatic next track (next_track with an   *)
(* expected generation).                                                   *)
(*                                                                         *)
(* One event loop runs them all.  A task runs from one await to the next   *)
(* without interruption, so a step of this module is the code between two  *)
(* awaits; acquiring the free lock does not suspend, and "loop" names the  *)
(* task that goes on running in that case.                                 *)
(*                                                                         *)
(* Times are kept as what the code compares them with: zero or not.        *)
(***************************************************************************)
EXTENDS Naturals, FiniteSets, AsyncLock

CONSTANTS
  Soap,            \* tasks that run SOAP commands, one command at a time each
  Background,      \* tasks of the application that call the same methods
  Checks,          \* tasks for _check_play_status
  Autos,           \* tasks for next_track(expected_generation = ...)
  NoTask,          \* None
  Uris, TimedUris, \* media URIs, and those whose metadata has a duration
  NoUri,           \* the empty string
  Generations,     \* values of _media_generation
  NoGen,           \* None, the expected_generation of a SOAP Next
  NeedsTranscode,  \* _needs_transcode() of this speaker
  SpeakerRaises,   \* may a SpeakerController call raise?
  Commands         \* the SOAP actions the control points send

Tasks == Soap \cup Background \cup Checks \cup Autos

ASSUME TasksAssumption ==
  /\ Checks \cap (Soap \cup Background \cup Autos) = {}
  /\ Autos \cap (Soap \cup Background) = {}
  /\ Soap \cap Background = {}
  /\ NoTask \notin Tasks
ASSUME MediaAssumption == NoUri \notin Uris /\ TimedUris \subseteq Uris
ASSUME GenerationAssumption == NoGen \notin Generations /\ Generations # {}
ASSUME FlagsAssumption == NeedsTranscode \in BOOLEAN /\ SpeakerRaises \in BOOLEAN

VARIABLES
  r,      \* the fields of the DlnaRenderer
  task,   \* where each asyncio task is suspended, with its local variables
  lock,   \* DlnaRenderer._lock
  loop,   \* the task the event loop is running between two steps, or NoTask
  spk     \* the speaker: the media it was last told to play, and its mode

vars == <<r, task, lock, loop, spk>>

States == {"NO_MEDIA_PRESENT", "STOPPED", "TRANSITIONING", "PLAYING",
           "PAUSED_PLAYBACK"}
Media  == Uris \cup {NoUri}

PlayPcs   == {"play", "play_seek", "play_notify", "play_lock", "play_call"}
SeekPcs   == {"seek_read", "seek_prepare", "seek_lock", "seek_stop",
              "seek_call", "seek_pause"}
SwitchPcs == {"next_stop", "next_sleep", "next_trans", "next_call", "next_ok",
              "next_fail"}
NoNextPcs == {"next_mark", "next_wait", "end_stop", "end_sleep", "end_lock"}
Pcs == {"idle", "set_uri", "pause", "pause_call", "stop", "stop_call",
        "prev", "prev_call", "reset", "chk_sleep", "chk_lock", "auto_start"}
       \cup PlayPcs \cup SeekPcs \cup SwitchPcs \cup NoNextPcs

Locals == [pc : Pcs, media : Media, gen : Generations \cup {NoGen},
           was : States, near : BOOLEAN]
Idle   == [pc |-> "idle", media |-> NoUri, gen |-> NoGen,
           was |-> "STOPPED", near |-> FALSE]
At(pc) == [Idle EXCEPT !.pc = pc]

RendererType ==
  [transport : States, uri : Media, next : Media, gen : Generations,
   acc : BOOLEAN,           \* _accumulated_time > 0
   start : BOOLEAN,         \* _play_start_time > 0
   dur : BOOLEAN,           \* _track_duration > 0
   grace : BOOLEAN,         \* now < _play_grace_until
   userStopped : BOOLEAN, stuck : BOOLEAN,  \* _stuck_paused_since > 0
   check : Checks \cup {NoTask}, auto : Autos \cup {NoTask}]

SpeakerType ==
  [media : Media, mode : {"stopped", "playing", "paused"},
   raised : BOOLEAN]        \* history: a call that drives it has raised, and
                            \* no success has settled on PLAYING since

TypeOK ==
  /\ r \in RendererType
  /\ task \in [Tasks -> Locals]
  /\ lock \in LockType(Tasks)
  /\ loop \in Tasks \cup {NoTask}
  /\ spk \in SpeakerType

\* DlnaRenderer.__init__
Init ==
  /\ r = [transport |-> "NO_MEDIA_PRESENT", uri |-> NoUri, next |-> NoUri,
           gen |-> CHOOSE g \in Generations : TRUE,
           acc |-> FALSE, start |-> FALSE, dur |-> FALSE, grace |-> FALSE,
           userStopped |-> FALSE, stuck |-> FALSE,
           check |-> NoTask, auto |-> NoTask]
  /\ task = [t \in Tasks |-> Idle]
  /\ lock = FreeLock(Tasks)
  /\ loop = NoTask
  /\ spk = [media |-> NoUri, mode |-> "stopped", raised |-> FALSE]

-----------------------------------------------------------------------------
(* The event loop, the lock and task cancellation.                         *)

\* The event loop may run task t: it already does, or it is between tasks.
MayRun(t) == loop \in {NoTask, t}

InSection(t, pc) == task[t].pc = pc /\ MayRun(t) /\ Owns(lock, t)
Resumes(t, pc)   == task[t].pc = pc /\ MayRun(t)

\* t suspends with locals l; the lock is as lk leaves it.
Suspend(t, l, tasks, lk) ==
  /\ task' = [tasks EXCEPT ![t] = l]
  /\ lock' = lk
  /\ loop' = NoTask

\* t awaits the lock: it goes on running if nobody is queued.
Acquire(t, l, tasks, lk) ==
  /\ task' = [tasks EXCEPT ![t] = l]
  /\ lock' = Enqueue(lk, t)
  /\ loop' = IF lk.queued = {} THEN t ELSE NoTask

\* t leaves "async with self._lock" and returns.
Finish(t, tasks) == Suspend(t, Idle, tasks, Leave(lock, t))

\* The tasks once x is cancelled (x may be NoTask or already done).
Cancelled(x) == [t \in Tasks |-> IF t = x THEN Idle ELSE task[t]]

Spawned(tasks, x, l) == [tasks EXCEPT ![x] = l]
Done(S) == {t \in S : task[t].pc = "idle"}

\* Checks bounds the monitors that live at once: a command that creates one
\* is only sent while there is a free task for each creation under way.
Creators == {t \in Tasks : task[t].pc \in PlayPcs \cup SwitchPcs \cup NoNextPcs
                                          \cup {"auto_start"}}
Room == Cardinality(Creators) < Cardinality(Done(Checks))

\* The generation counter only grows, and it is only compared with the
\* generations that live auto-next tasks remember: "+= 1" is a move to a
\* value that none of them holds.  (Generations needs two values more than
\* there are Autos: the bound on the counter.)
Fresh  == {g \in Generations \ {r.gen} : \A a \in Autos : task[a].gen # g}
Bumped == CHOOSE g \in Fresh : TRUE

\* What a call of SpeakerController may have done to the speaker.
Speaking(m) == [spk EXCEPT !.media = m, !.mode = "playing"]
Stopped == [spk EXCEPT !.mode = "stopped"]
Paused  == [spk EXCEPT !.mode = IF @ = "playing" THEN "paused" ELSE @]

\* The success of a call makes good what raised before; an exception does not
\* say what the speaker has done.
Settled(s) == [s EXCEPT !.raised = FALSE]
Raised(s)  == [s EXCEPT !.raised = TRUE]

\* A request in flight when its task is cancelled may still be carried out.
Landed(x) ==
  IF x \notin Tasks THEN spk
  ELSE CASE task[x].pc \in {"next_stop", "end_stop"} -> Stopped
         [] task[x].pc \in {"play_call", "next_call"} -> Speaking(task[x].media)
         [] OTHER -> spk

\* Mutant of CancelAutoNextAndAcquire: the automatic next track goes on.
AcquireOnly(t, l) ==
  /\ Resumes(t, "idle")
  /\ Acquire(t, l, task, lock)
  /\ UNCHANGED <<r, spk>>

\* A command that first runs _cancel_auto_next_task and then awaits the lock.
CancelAutoNextAndAcquire(t, l) ==
  /\ Resumes(t, "idle")
  /\ Acquire(t, l, Cancelled(r.auto), Leave(lock, r.auto))
  /\ spk' \in {spk, Landed(r.auto)}
  /\ r' = [r EXCEPT !.auto = NoTask]

-----------------------------------------------------------------------------
(* SetAVTransportURI, and the bookkeeping of SetNextAVTransportURI.  A     *)
(* video URI is refused before anything changes.                           *)

SetUri(t, u) ==
  CancelAutoNextAndAcquire(t, [At("set_uri") EXCEPT !.media = u])

SetUriBody(t) ==
  /\ InSection(t, "set_uri")
  /\ Fresh # {}
  /\ LET u == task[t].media
     IN  r' = [r EXCEPT !.gen = Bumped, !.uri = u, !.transport = "STOPPED",
                        !.start = FALSE, !.acc = FALSE, !.dur = u \in TimedUris]
  /\ Finish(t, task)
  /\ UNCHANGED spk

SetNext(u) ==
  /\ loop = NoTask
  /\ r' = [r EXCEPT !.next = u]
  /\ UNCHANGED <<task, lock, loop, spk>>

-----------------------------------------------------------------------------
(* play(): a first critical section that fixes what is to be played, and a *)
(* second one that sends it to the speaker.                                *)

Play(t) == CancelAutoNextAndAcquire(t, At("play"))

PlayNoUri(t) ==
  /\ InSection(t, "play")
  /\ r.uri = NoUri
  /\ Finish(t, task)
  /\ UNCHANGED <<r, spk>>

\* The end of the first section: the lock is released and asked for again,
\* after a notification when the state was already announced as PLAYING.
ReleaseFirst(t, l, tasks, lk) ==
  IF NeedsTranscode
  THEN Suspend(t, [l EXCEPT !.pc = "play_notify"], tasks, Leave(lk, t))
  ELSE Acquire(t, [l EXCEPT !.pc = "play_lock"], tasks, Leave(lk, t))

Announced(rr) ==
  IF NeedsTranscode THEN [rr EXCEPT !.transport = "PLAYING", !.grace = TRUE]
                    ELSE rr

\* Mutant of PlayBegin: the monitor of the last play() goes on.
PlayBeginKeepsMonitor(t) ==
  /\ InSection(t, "play")
  /\ r.uri # NoUri
  /\ r' = [r EXCEPT !.check = NoTask, !.transport = "TRANSITIONING",
                    !.userStopped = FALSE, !.stuck = FALSE]
  /\ Suspend(t, [At("play_seek") EXCEPT !.media = r.uri], task, lock)
  /\ UNCHANGED spk

PlayBegin(t) ==
  /\ InSection(t, "play")
  /\ r.uri # NoUri
  /\ LET l  == [At("play_seek") EXCEPT !.media = r.uri]
         ts == Cancelled(r.check)
         lk == Leave(lock, r.check)
         rr == [r EXCEPT !.check = NoTask, !.transport = "TRANSITIONING",
                         !.userStopped = FALSE, !.stuck = FALSE]
     IN  \/ /\ r.acc \/ r.start   \* resume_position > 0: await seek_url_func
            /\ Suspend(t, l, ts, lk)
            /\ r' = rr
         \/ /\ ~(r.acc \/ r.start)
            /\ ReleaseFirst(t, l, ts, lk)
            /\ r' = Announced(rr)
  /\ UNCHANGED spk

\* seek_url_func returned: with a URL or None, it is the media of r.uri then.
PlaySeekReady(t) ==
  /\ InSection(t, "play_seek")
  /\ ReleaseFirst(t, task[t], task, lock)
  /\ r' = Announced(r)
  /\ UNCHANGED spk

PlayNotified(t) ==
  /\ Resumes(t, "play_notify")
  /\ Acquire(t, [task[t] EXCEPT !.pc = "play_lock"], task, lock)
  /\ UNCHANGED <<r, spk>>

PlayCall(t) ==
  /\ InSection(t, "play_lock")
  /\ Suspend(t, [task[t] EXCEPT !.pc = "play_call"], task, lock)
  /\ UNCHANGED <<r, spk>>

\* Mutant of PlaySucceeds: no monitor is created.
PlaySucceedsUnwatched(t) ==
  /\ InSection(t, "play_call")
  /\ spk' = Settled(Speaking(task[t].media))
  /\ Finish(t, task)
  /\ r' = [r EXCEPT !.transport = "PLAYING", !.start = TRUE]

PlaySucceeds(t) ==
  /\ InSection(t, "play_call")
  /\ spk' = Settled(Speaking(task[t].media))
  /\ \E c \in Done(Checks) :
       /\ Finish(t, Spawned(task, c, At("chk_sleep")))
       /\ r' = [r EXCEPT !.transport = "PLAYING", !.start = TRUE,
                         !.grace = @ \/ ~NeedsTranscode, !.check = c]

\* play_url() returned False.
PlayFails(t) ==
  /\ InSection(t, "play_call")
  /\ Finish(t, task)
  /\ r' = [r EXCEPT !.transport = "STOPPED", !.grace = FALSE]
  /\ UNCHANGED spk

\* play_url() raised: "async with" releases the lock and nothing else is done.
PlayRaises(t) ==
  /\ InSection(t, "play_call")
  /\ SpeakerRaises
  /\ Finish(t, task)
  /\ spk' \in {Raised(spk), Raised(Speaking(task[t].media))}
  /\ UNCHANGED r

-----------------------------------------------------------------------------
(* pause(), stop() and reset_to_idle().  An exception of the speaker is    *)
(* swallowed, so whatever the call did the local state changes.            *)

\* Mutant of Pause: the state is set before the lock is awaited.
PauseUnlocked(t) ==
  /\ Resumes(t, "idle")
  /\ Acquire(t, At("pause"), Cancelled(r.auto), Leave(lock, r.auto))
  /\ spk' \in {spk, Landed(r.auto)}
  /\ r' = [r EXCEPT !.auto = NoTask, !.transport = "PAUSED_PLAYBACK"]

Pause(t) == CancelAutoNextAndAcquire(t, At("pause"))
Stop(t)  == CancelAutoNextAndAcquire(t, At("stop"))
Reset(t) == CancelAutoNextAndAcquire(t, At("reset"))

CallSpeaker(t, from, to) ==
  /\ InSection(t, from)
  /\ Suspend(t, [task[t] EXCEPT !.pc = to], task, lock)
  /\ UNCHANGED <<r, spk>>

PauseCall(t) == CallSpeaker(t, "pause", "pause_call")
StopCall(t)  == CallSpeaker(t, "stop", "stop_call")

\* The tail of every section that also cancels the play monitor.
FinishAndCancelCheck(t) ==
  Suspend(t, Idle, Cancelled(r.check), Leave(Leave(lock, r.check), t))

\* Mutant of PauseDone: the clock goes on.
PauseDoneRunning(t) ==
  /\ InSection(t, "pause_call")
  /\ FinishAndCancelCheck(t)
  /\ spk' = Paused
  /\ r' = [r EXCEPT !.acc = @ \/ r.start, !.transport = "PAUSED_PLAYBACK",
                    !.userStopped = TRUE, !.stuck = TRUE, !.check = NoTask]

PauseDone(t) ==
  /\ InSection(t, "pause_call")
  /\ FinishAndCancelCheck(t)
  /\ spk' \in {Paused} \cup (IF SpeakerRaises THEN {spk} ELSE {})
  /\ r' = [r EXCEPT !.acc = @ \/ r.start, !.start = FALSE,
                    !.transport = "PAUSED_PLAYBACK", !.userStopped = TRUE,
                    !.stuck = TRUE, !.check = NoTask]

StopDone(t) ==
  /\ InSection(t, "stop_call")
  /\ FinishAndCancelCheck(t)
  /\ spk' \in {Stopped} \cup (IF SpeakerRaises THEN {spk} ELSE {})
  /\ r' = [r EXCEPT !.transport = "STOPPED", !.acc = FALSE, !.start = FALSE,
                    !.userStopped = TRUE, !.check = NoTask]

ResetBody(t) ==
  /\ InSection(t, "reset")
  /\ \/ /\ r.transport = "NO_MEDIA_PRESENT"
        /\ Finish(t, task)
        /\ UNCHANGED r
     \/ /\ r.transport # "NO_MEDIA_PRESENT"
        /\ FinishAndCancelCheck(t)
        /\ r' = [r EXCEPT !.transport = "NO_MEDIA_PRESENT", !.uri = NoUri,
                          !.next = NoUri, !.acc = FALSE, !.start = FALSE,
                          !.dur = FALSE, !.userStopped = FALSE,
                          !.stuck = FALSE, !.check = NoTask]
  /\ UNCHANGED spk

-----------------------------------------------------------------------------
(* seek(REL_TIME): the media and duration are read under the lock, the     *)
(* seek URL is prepared without it, the speaker is driven under it again.  *)

Seek(t) ==
  /\ Resumes(t, "idle")
  /\ Acquire(t, At(IF r.uri = NoUri THEN "seek_lock" ELSE "seek_read"),
             task, lock)
  /\ UNCHANGED <<r, spk>>

SeekRead(t) ==
  /\ InSection(t, "seek_read")
  /\ IF r.dur /\ r.uri # NoUri
     THEN Suspend(t, [At("seek_prepare") EXCEPT !.media = r.uri], task,
                  Leave(lock, t))
     ELSE Acquire(t, At("seek_lock"), task, Leave(lock, t))
  /\ UNCHANGED <<r, spk>>

\* seek_url_func returns the URL of a re-cut buffer, or None.
SeekPrepared(t) ==
  /\ Resumes(t, "seek_prepare")
  /\ \E m \in {task[t].media, NoUri} :
       Acquire(t, [At("seek_lock") EXCEPT !.media = m], task, lock)
  /\ UNCHANGED <<r, spk>>

\* No seek URL: only the local position moves.
SeekSoft(t) ==
  /\ InSection(t, "seek_lock")
  /\ task[t].media = NoUri
  /\ Finish(t, task)
  /\ \E later \in BOOLEAN :
       r' = [r EXCEPT !.acc = later,
                      !.start = @ \/ r.transport = "PLAYING"]
  /\ UNCHANGED spk

SeekBegin(t) ==
  /\ InSection(t, "seek_lock")
  /\ task[t].media # NoUri
  /\ LET pc == IF r.transport = "PLAYING" THEN "seek_stop" ELSE "seek_call"
     IN  Suspend(t, [task[t] EXCEPT !.pc = pc, !.was = r.transport], task, lock)
  /\ r' = [r EXCEPT !.transport = "TRANSITIONING"]
  /\ UNCHANGED spk

SeekStopped(t) ==
  /\ InSection(t, "seek_stop")
  /\ Suspend(t, [task[t] EXCEPT !.pc = "seek_call"], task, lock)
  /\ spk' = Stopped
  /\ UNCHANGED r

\* Mutant of SeekSucceeds: the clock is not restarted.
SeekSucceedsNoClock(t) ==
  /\ InSection(t, "seek_call")
  /\ spk' = Settled(Speaking(task[t].media))
  /\ Finish(t, task)
  /\ \E later \in BOOLEAN :
       r' = [r EXCEPT !.acc = later, !.transport = "PLAYING"]

SeekSucceeds(t) ==
  /\ InSection(t, "seek_call")
  /\ spk' = Settled(Speaking(task[t].media))
  /\ \E later \in BOOLEAN :
       IF task[t].was = "PAUSED_PLAYBACK"
       THEN /\ Suspend(t, [task[t] EXCEPT !.pc = "seek_pause"], task, lock)
            /\ r' = [r EXCEPT !.acc = later]
       ELSE /\ Finish(t, task)
            /\ r' = [r EXCEPT !.acc = later, !.start = TRUE,
                              !.transport = "PLAYING"]

SeekPaused(t) ==
  /\ InSection(t, "seek_pause")
  /\ Finish(t, task)
  /\ spk' = Paused
  /\ r' = [r EXCEPT !.start = FALSE, !.transport = "PAUSED_PLAYBACK"]

SeekFails(t) ==
  /\ InSection(t, "seek_call")
  /\ Finish(t, task)
  /\ r' = [r EXCEPT !.transport = "STOPPED"]
  /\ UNCHANGED spk

SeekRaises(t) ==
  /\ \E pc \in {"seek_stop", "seek_call", "seek_pause"} : InSection(t, pc)
  /\ SpeakerRaises
  /\ Finish(t, task)
  /\ spk' = Raised(spk)
  /\ UNCHANGED r

-----------------------------------------------------------------------------
(* next_track(): from SOAP Next (no expected generation) or as the task    *)
(* that _check_play_status creates near the end of a track.                *)

Stale(g) == g # NoGen /\ g # r.gen

NextTrack(t, g) ==
  \/ /\ Stale(g)
     /\ Suspend(t, Idle, task, lock)
  \/ /\ ~Stale(g)
     /\ r.next # NoUri                        \* await speaker.stop()
     /\ Suspend(t, [At("next_stop") EXCEPT !.gen = g], task, lock)
  \/ /\ ~Stale(g)
     /\ r.next = NoUri
     /\ Acquire(t, [At("next_mark") EXCEPT !.gen = g], task, lock)

Next_(t)     == Resumes(t, "idle") /\ NextTrack(t, NoGen) /\ UNCHANGED <<r, spk>>
AutoStart(t) == /\ Resumes(t, "auto_start")
                /\ NextTrack(t, task[t].gen)
                /\ UNCHANGED <<r, spk>>

\* The old track is stopped; asyncio.sleep(1.0) follows.
NextStopped(t) ==
  /\ Resumes(t, "next_stop")
  /\ Suspend(t, [task[t] EXCEPT !.pc = "next_sleep"], task, lock)
  /\ spk' = Stopped
  /\ UNCHANGED r

\* The queued URI becomes the current one, outside the lock.
NextSwitch(t) ==
  /\ Resumes(t, "next_sleep")
  /\ Fresh # {}
  /\ r' = [r EXCEPT !.uri = r.next, !.gen = Bumped, !.next = NoUri,
                    !.acc = FALSE, !.dur = r.next \in TimedUris]
  /\ Acquire(t, [task[t] EXCEPT !.pc = "next_trans", !.media = r.next],
             task, lock)
  /\ UNCHANGED spk

NextTransitioning(t) ==
  /\ InSection(t, "next_trans")
  /\ Suspend(t, [task[t] EXCEPT !.pc = "next_call"], task, Leave(lock, t))
  /\ r' = [r EXCEPT !.transport = "TRANSITIONING"]
  /\ UNCHANGED spk

NextCalled(t) ==
  /\ Resumes(t, "next_call")
  /\ \/ /\ spk' = Speaking(task[t].media)
        /\ Acquire(t, [task[t] EXCEPT !.pc = "next_ok"], task, lock)
     \/ /\ UNCHANGED spk
        /\ Acquire(t, [task[t] EXCEPT !.pc = "next_fail"], task, lock)
  /\ UNCHANGED r

NextSucceeds(t) ==
  /\ InSection(t, "next_ok")
  /\ \E c \in Done(Checks) \cup ({r.check} \cap Checks) :
       /\ Suspend(t, Idle, Spawned(Cancelled(r.check), c, At("chk_sleep")),
                  Leave(Leave(lock, r.check), t))
       /\ r' = [r EXCEPT !.transport = "PLAYING", !.start = TRUE, !.check = c]
  /\ spk' = Settled(spk)

\* Mutant of NextFails: the state is not settled.
NextFailsSilently(t) ==
  /\ InSection(t, "next_fail")
  /\ Finish(t, task)
  /\ UNCHANGED <<r, spk>>

NextFails(t) ==
  /\ InSection(t, "next_fail")
  /\ Finish(t, task)
  /\ r' = [r EXCEPT !.transport = "STOPPED"]
  /\ UNCHANGED spk

\* A speaker call of next_track raises: the method ends where it is.
NextRaises(t) ==
  /\ \E pc \in {"next_stop", "next_call", "end_stop"} : Resumes(t, pc)
  /\ SpeakerRaises
  /\ Suspend(t, Idle, task, lock)
  /\ spk' \in {Raised(spk), Raised(Landed(t))}
  /\ UNCHANGED r

\* No next URI: announce TRANSITIONING and poll for one for ten seconds.
NextMark(t) ==
  /\ InSection(t, "next_mark")
  /\ Suspend(t, [task[t] EXCEPT !.pc = "next_wait"], task, Leave(lock, t))
  /\ r' = [r EXCEPT !.transport = "TRANSITIONING"]
  /\ UNCHANGED spk

\* A wake-up that finds a newer media, or the next URI: next_track again.
NextWakes(t) ==
  /\ Resumes(t, "next_wait")
  /\ Stale(task[t].gen) \/ r.next # NoUri
  /\ NextTrack(t, task[t].gen)
  /\ UNCHANGED <<r, spk>>

NextGivesUp(t) ==
  /\ Resumes(t, "next_wait")
  /\ ~Stale(task[t].gen) /\ r.next = NoUri
  /\ Suspend(t, [task[t] EXCEPT !.pc = "end_stop"], task, lock)
  /\ UNCHANGED <<r, spk>>

EndStopped(t) ==
  /\ Resumes(t, "end_stop")
  /\ Suspend(t, [task[t] EXCEPT !.pc = "end_sleep"], task, lock)
  /\ spk' = Stopped
  /\ UNCHANGED r

EndSlept(t) ==
  /\ Resumes(t, "end_sleep")
  /\ Acquire(t, [task[t] EXCEPT !.pc = "end_lock"], task, lock)
  /\ UNCHANGED <<r, spk>>

EndOfTrack(t) ==
  /\ InSection(t, "end_lock")
  /\ FinishAndCancelCheck(t)
  /\ r' = [r EXCEPT !.acc = @ \/ r.dur, !.start = FALSE,
                    !.transport = "STOPPED", !.check = NoTask]
  /\ UNCHANGED spk

-----------------------------------------------------------------------------
(* previous_track(): the position is reset under the lock, the speaker is  *)
(* driven without it and the transport state is left alone.                *)

Previous(t) ==
  /\ Resumes(t, "idle")
  /\ Acquire(t, At("prev"), task, lock)
  /\ UNCHANGED <<r, spk>>

PreviousBody(t) ==
  /\ InSection(t, "prev")
  /\ r' = [r EXCEPT !.acc = FALSE, !.start = TRUE]
  /\ LET l == IF r.uri = NoUri THEN Idle
              ELSE [At("prev_call") EXCEPT !.media = r.uri]
     IN  Suspend(t, l, task, Leave(lock, t))
  /\ UNCHANGED spk

PreviousDone(t) ==
  /\ Resumes(t, "prev_call")
  /\ Suspend(t, Idle, task, lock)
  /\ spk' \in {spk, Speaking(task[t].media)}
  /\ UNCHANGED r

-----------------------------------------------------------------------------
(* _check_play_status(): once a second, under the lock.                    *)

CheckWakes(c) ==
  /\ Resumes(c, "chk_sleep")
  /\ Acquire(c, [task[c] EXCEPT !.pc = "chk_lock"], task, lock)
  /\ UNCHANGED <<r, spk>>

CheckEnds(c) ==
  /\ InSection(c, "chk_lock")
  /\ r.transport # "PLAYING"
  /\ Finish(c, task)
  /\ UNCHANGED <<r, spk>>

\* Mutant of CheckAgain: the monitor sleeps inside its section.
CheckAgainLocked(c) ==
  /\ InSection(c, "chk_lock")
  /\ r.transport = "PLAYING"
  /\ Suspend(c, task[c], task, lock)
  /\ UNCHANGED <<r, spk>>

\* Not within a second of the end, or for the first time.
CheckAgain(c) ==
  /\ InSection(c, "chk_lock")
  /\ r.transport = "PLAYING"
  /\ \E nearEnd \in BOOLEAN :
       /\ nearEnd => r.dur /\ ~task[c].near
       /\ Suspend(c, [At("chk_sleep") EXCEPT !.near = nearEnd], task,
                  Leave(lock, c))
  /\ UNCHANGED <<r, spk>>

\* Mutant of CheckSpawnsNext: the task is not remembered.
CheckSpawnsUnknown(c) ==
  /\ InSection(c, "chk_lock")
  /\ r.transport = "PLAYING"
  /\ r.dur /\ task[c].near
  /\ \E a \in Done(Autos) :
       /\ Room
       /\ Finish(c, Spawned(task, a, [At("auto_start") EXCEPT !.gen = r.gen]))
  /\ UNCHANGED <<r, spk>>

\* The second near-end reading in a row creates the automatic next track.
CheckSpawnsNext(c) ==
  /\ InSection(c, "chk_lock")
  /\ r.transport = "PLAYING"
  /\ r.dur /\ task[c].near
  /\ \E a \in Done(Autos) :
       /\ Room
       /\ Finish(c, Spawned(task, a, [At("auto_start") EXCEPT !.gen = r.gen]))
       /\ r' = [r EXCEPT !.auto = a]
  /\ UNCHANGED spk

-----------------------------------------------------------------------------
Command(t) ==
  \/ "SetAVTransportURI" \in Commands /\ \E u \in Media : SetUri(t, u)
  \/ "Play" \in Commands /\ Room /\ Play(t)
  \/ "Pause" \in Commands /\ Pause(t)
  \/ "Stop" \in Commands /\ Stop(t)
  \/ "Seek" \in Commands /\ Seek(t)
  \/ "Next" \in Commands /\ Room /\ Next_(t)
  \/ "Previous" \in Commands /\ Previous(t)

\* What a task does after its first await.
Step(t) ==
  \/ SetUriBody(t)
  \/ PlayNoUri(t) \/ PlayBegin(t) \/ PlaySeekReady(t) \/ PlayNotified(t)
  \/ PlayCall(t) \/ PlaySucceeds(t) \/ PlayFails(t) \/ PlayRaises(t)
  \/ PauseCall(t) \/ PauseDone(t) \/ StopCall(t) \/ StopDone(t) \/ ResetBody(t)
  \/ SeekRead(t) \/ SeekPrepared(t) \/ SeekSoft(t) \/ SeekBegin(t)
  \/ SeekStopped(t) \/ SeekSucceeds(t) \/ SeekPaused(t) \/ SeekFails(t)
  \/ SeekRaises(t)
  \/ NextStopped(t) \/ NextSwitch(t) \/ NextTransitioning(t) \/ NextCalled(t)
  \/ NextSucceeds(t) \/ NextFails(t) \/ NextRaises(t) \/ NextMark(t)
  \/ NextWakes(t) \/ NextGivesUp(t) \/ EndStopped(t) \/ EndSlept(t)
  \/ EndOfTrack(t) \/ AutoStart(t)
  \/ PreviousBody(t) \/ PreviousDone(t)
  \/ CheckWakes(t) \/ CheckEnds(t) \/ CheckAgain(t) \/ CheckSpawnsNext(t)

SoapStep ==
  \/ \E t \in Soap : Command(t)
  \/ "SetNextAVTransportURI" \in Commands /\ \E u \in Uris : SetNext(u)
  \/ "ClearNextAVTransportURI" \in Commands /\ SetNext(NoUri)

\* A pause that was not left for 30 seconds: the user's own is reset as well
\* once has_subscribers() is false, which may be at any time.  (The code's
\* second case, STOPPED for 60 seconds, needs _last_control_time > 0, which
\* nothing ever sets.)
Abandoned == r.uri # NoUri /\ r.transport = "PAUSED_PLAYBACK" /\ r.stuck

\* The application's own calls: the idle reset and the automatic resume.
IdleReset(t)     == Abandoned /\ Reset(t)
AutomaticPlay(t) == r.transport = "PAUSED_PLAYBACK" /\ Room /\ Play(t)
AppStep == \E t \in Background : IdleReset(t) \/ AutomaticPlay(t)

RunTask == \E t \in Tasks : Step(t)

Next == SoapStep \/ AppStep \/ RunTask

Spec == Init /\ [][Next]_vars

\* asyncio runs every task that is ready, and every awaited call, sleep and
\* lock queue comes to an end.
Fairness ==
  /\ \A t \in Tasks : WF_vars(Step(t))
  /\ \A t \in Soap : SF_vars(Step(t))
FairSpec == Spec /\ Fairness

-----------------------------------------------------------------------------
(* Properties.                                                             *)

\* Where a task has asked for the lock and not given it back, and where it
\* is suspended inside its critical section.
QueuePcs ==
  {"set_uri", "play", "play_seek", "play_lock", "play_call", "pause",
   "pause_call", "stop", "stop_call", "reset", "seek_read", "seek_lock",
   "seek_stop", "seek_call", "seek_pause", "next_trans", "next_ok",
   "next_fail", "next_mark", "end_lock", "prev", "chk_lock"}
HeldPcs ==
  {"play_seek", "play_call", "pause_call", "stop_call", "seek_stop",
   "seek_call", "seek_pause"}

Consistent(ts, lk) ==
  /\ Queue(lk, Tasks)
  /\ \A t \in Tasks : t \in lk.queued <=> ts[t].pc \in QueuePcs
  /\ \A t \in Tasks : ts[t].pc \in HeldPcs => Owns(lk, t)

\* A task that awaits the speaker or a seek URL inside "async with
\* self._lock" owns the lock, whoever was cancelled meanwhile, and no
\* finished or cancelled task is left in its queue (renderer.py:144-365).
LockInv == Consistent(task, lock)

\* A play monitor is asleep or waits for the lock.
MonitorPcs == \A c \in Checks : task[c].pc \in {"idle", "chk_sleep", "chk_lock"}

\* While a handler holds the lock across an await of play() or seek() that
\* it entered by announcing TRANSITIONING, nobody moves the state: the state
\* it comes back to is the one it left (renderer.py:181, 335-345).
TransitioningHeld ==
  \A t \in Tasks :
    task[t].pc \in {"play_seek", "seek_stop", "seek_call", "seek_pause"}
      => r.transport = "TRANSITIONING"

\* An automatic next track that has expired does not stop the speaker while it
\* plays the media selected since (docs/PROJECT_HANDOVER.md:68).  The code looks
\* at the generation before it asks the speaker to stop, and a SOAP Next does
\* not cancel the task as the other commands do (renderer.py:381-394).
GenerationGuardsAutoNext ==
  [][\A a \in Autos :
       /\ Stale(task[a].gen) /\ task'[a] \notin {task[a], Idle}
       /\ spk.media = r.uri /\ spk.mode = "playing"
       => spk'.mode = "playing"]_vars

\* When SetAVTransportURI, Pause or Stop has taken effect, no automatic next
\* track of the playback it ended is left to run (renderer.py:103-106, 233,
\* 260).
CommandsRetireAutoNext ==
  [][\A t \in Soap :
       task[t].pc \in {"set_uri", "pause_call", "stop_call"} /\ task'[t] = Idle
         => \A a \in Autos : task'[a] = Idle]_vars

\* An automatic next track that is alive is the one _auto_next_task names, so
\* that the next command can cancel it (renderer.py:135, 369-373).
AutoNextIsKnown ==
  \A a \in Autos : task[a].pc # "idle" => r.auto = a

\* There is one play monitor at most, the one _play_check_task names: no
\* track end is acted upon twice (renderer.py:160-162, 204, 417-420).
OneMonitor ==
  \A c \in Checks : task[c].pc # "idle" => r.check = c

\* The media play() sends to the speaker in its second section is the one the
\* renderer reports, and it is still waiting for it (renderer.py:173-197).
PlaySendsCurrentMedia ==
  \A t \in Tasks : task[t].pc = "play_call"
    => /\ r.uri = task[t].media
       /\ ~NeedsTranscode => r.transport = "TRANSITIONING"

\* No command is running and no automatic next track.
Quiet == \A t \in Soap \cup Background \cup Autos : task[t].pc = "idle"

\* At rest, a media of known duration that is reported as PLAYING has a play
\* monitor, without which its end would go unnoticed - unless a call of the
\* speaker has raised, after which the state is left as it was (renderer.py:204,
\* 388, 420).
TrackEndIsWatched ==
  Quiet /\ r.transport = "PLAYING" /\ r.dur /\ ~spk.raised => Done(Checks) # Checks

\* At rest, what is reported as PLAYING is what the speaker was told to play,
\* unless a call of the speaker has raised.
PlayingIsOnSpeaker ==
  Quiet /\ r.transport = "PLAYING" /\ ~spk.raised =>
    spk.media = r.uri /\ spk.mode = "playing"

\* Outside PLAYING and the commands that lead to it the clock stands still:
\* a paused position is frozen (renderer.py:246-248, 346).
PausedPositionFrozen == r.transport = "PAUSED_PLAYBACK" => ~r.start

\* At rest, the clock runs in PLAYING: the position that is reported advances
\* (renderer.py:201, 355, 415, 483-490).
PlayingClockRuns == Quiet /\ r.transport = "PLAYING" => r.start

\* Every command comes to an end: nobody waits for the lock for ever.
CommandsEnd ==
  \A t \in Soap : task[t].pc # "idle" ~> task[t].pc = "idle"

\* TRANSITIONING is left: whoever announced it, or whoever cancelled that
\* task, settles the state.  An exception of the speaker leaves it there, and a
\* next URI that is cleared in the second before next_track() takes it: then
\* there is nothing left to play (renderer.py:181-220, 388-428).
TransitionEnds ==
  r.transport = "TRANSITIONING" ~>
    r.transport # "TRANSITIONING" \/ spk.raised \/ r.uri = NoUri

=============================================================================
