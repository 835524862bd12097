---------------------------- MODULE RendererSync ----------------------------
(***************************************************************************)
(* Application's side of a renderer (src/src/miairx/app.py): the periodic  *)
(* poll that reconciles the shadow state with the speaker status read from *)
(* the cloud, the idle reset of an abandoned renderer, and the automatic   *)
(* resume task.  The poll writes the renderer's fields without its lock.   *)
(*                                                                         *)
(* Extends DlnaRenderer: the poll and the resume tasks are Background      *)
(* tasks that call reset_to_idle() and play().                             *)
(***************************************************************************)
EXTENDS DlnaRenderer

CONSTANTS
  Poller,      \* the task that runs _poll_one_renderer
  Resumers,    \* tasks for _auto_resume_after_delay
  AutoResume   \* config.auto_resume_on_interrupt

ASSUME SyncAssumption == Poller \notin Resumers /\ AutoResume \in BOOLEAN

\* The application's tasks are the poll and the resume tasks.
Deployed == Background = {Poller} \cup Resumers

VARIABLES
  poll,      \* where the poll is, and the status it has read
  resume,    \* where each resume task is
  resumer    \* _resume_tasks.get(udn)

syncVars == <<poll, resume, resumer>>
allVars  == <<vars, syncVars>>

Readings == {"STOPPED", "PLAYING", "PAUSED_PLAYBACK"}
NotPolling == [pc |-> "idle", reading |-> "STOPPED"]

SyncTypeOK ==
  /\ TypeOK
  /\ poll \in [pc : {"idle", "status", "resetting"}, reading : Readings]
  /\ resume \in [Resumers -> {"idle", "delay", "play"}]
  /\ resumer \in Resumers \cup {NoTask}

SyncInit ==
  /\ Init
  /\ poll = NotPolling
  /\ resume = [x \in Resumers |-> "idle"]
  /\ resumer = NoTask

-----------------------------------------------------------------------------
(* The poll.                                                               *)

PollResetsIdle ==
  /\ poll.pc = "idle"
  /\ IdleReset(Poller)
  /\ poll' = [poll EXCEPT !.pc = "resetting"]
  /\ UNCHANGED <<resume, resumer>>

\* reset_to_idle() returned.
PollAfterReset ==
  /\ poll.pc = "resetting"
  /\ Resumes(Poller, "idle")
  /\ r' = [r EXCEPT !.stuck = FALSE]
  /\ poll' = NotPolling
  /\ UNCHANGED <<task, lock, loop, spk, resume, resumer>>

\* What get_status() can answer: the mode the speaker is in when asked, or
\* status 0, which it also reports for a proxied stream that is playing.
Readable ==
  {"STOPPED"} \cup
  (CASE spk.mode = "playing" -> {"PLAYING"}
     [] spk.mode = "paused"  -> {"PAUSED_PLAYBACK"}
     [] OTHER -> {})

\* The request leaves; the answer is used when it arrives.
PollAsks ==
  /\ poll.pc = "idle"
  /\ loop = NoTask
  /\ r.uri # NoUri
  /\ \E x \in Readable : poll' = [pc |-> "status", reading |-> x]
  /\ UNCHANGED <<vars, resume, resumer>>

PollFails ==
  /\ poll.pc = "status"
  /\ loop = NoTask
  /\ poll' = NotPolling
  /\ UNCHANGED <<vars, resume, resumer>>

\* The early returns of the poll once it has an answer.
Ignored(new) ==
  LET old == r.transport IN
  \/ old = new
  \/ old = "TRANSITIONING"
  \/ r.grace /\ old = "PLAYING" /\ new # "PLAYING"
  \/ new = "STOPPED" /\ old = "PLAYING" /\ r.uri # NoUri /\ ~r.userStopped
  \/ old = "PAUSED_PLAYBACK" /\ new = "PLAYING" /\ r.userStopped

PollIgnores ==
  /\ poll.pc = "status"
  /\ loop = NoTask
  /\ Ignored(poll.reading)
  /\ poll' = NotPolling
  /\ UNCHANGED <<vars, resume, resumer>>

\* Mutant of StartResume: the recorded task is replaced and not cancelled.
StartResumeUncancelled ==
  \E x \in Resumers :
    /\ resume[x] = "idle"
    /\ resume' = [resume EXCEPT ![x] = "delay"]
    /\ resumer' = x
    /\ UNCHANGED <<task, lock, spk>>

\* A resume task replaces the one that is recorded, which is cancelled
\* wherever it is, in play() included.
StartResume ==
  \E x \in Resumers :
    /\ resume[x] = "idle"
    /\ task' = Cancelled(resumer)
    /\ lock' = Leave(lock, resumer)
    /\ spk' \in {spk, Landed(resumer)}
    /\ resume' = [y \in Resumers |-> IF y = x THEN "delay"
                                     ELSE IF y = resumer THEN "idle"
                                     ELSE resume[y]]
    /\ resumer' = x

NoResume == UNCHANGED <<task, lock, spk, resume, resumer>>

\* STOPPED read while playing or paused: the position is kept as a pause.
HoldPosition ==
  /\ r' = [r EXCEPT !.acc = @ \/ r.start, !.start = FALSE,
                    !.transport = "PAUSED_PLAYBACK", !.stuck = TRUE]
  /\ \/ /\ AutoResume /\ ~r.userStopped
        /\ StartResume
     \/ /\ ~AutoResume \/ r.userStopped \/ r.stuck   \* stuck 15 s ago or more
        /\ NoResume

\* The reading becomes the state, with the position as the change requires.
Adopt(new) ==
  LET old == r.transport
      rr  == [r EXCEPT !.transport = new]
  IN r' = CASE old = "PLAYING" /\ new = "PAUSED_PLAYBACK" ->
                 [rr EXCEPT !.acc = @ \/ r.start, !.start = FALSE]
            [] old = "PAUSED_PLAYBACK" /\ new = "PLAYING" ->
                 [rr EXCEPT !.acc = @ \/ r.stuck, !.stuck = FALSE, !.start = TRUE]
            [] new = "STOPPED" -> [rr EXCEPT !.acc = FALSE, !.start = FALSE]
            [] OTHER -> rr

Synchronise(new) ==
  IF new = "STOPPED" /\ r.transport \in {"PLAYING", "PAUSED_PLAYBACK"}
  THEN HoldPosition
  ELSE Adopt(new) /\ NoResume

PollApplies ==
  /\ poll.pc = "status"
  /\ loop = NoTask
  /\ ~Ignored(poll.reading)
  /\ Synchronise(poll.reading)
  /\ poll' = NotPolling
  /\ UNCHANGED loop

-----------------------------------------------------------------------------
(* The resume task.                                                        *)

\* The delay is over and the renderer is still paused: play().
ResumePlays(x) ==
  /\ resume[x] = "delay"
  /\ AutomaticPlay(x)
  /\ resume' = [resume EXCEPT ![x] = "play"]
  /\ UNCHANGED <<poll, resumer>>

\* play() returned, or there was nothing to resume: the entry is deleted,
\* whichever it is.  It stays when play() raised.
ResumeEnds(x) ==
  /\ \/ /\ resume[x] = "play" /\ Resumes(x, "idle")
        /\ resumer' \in {NoTask} \cup (IF SpeakerRaises THEN {resumer} ELSE {})
     \/ /\ resume[x] = "delay" /\ loop = NoTask
        /\ r.transport # "PAUSED_PLAYBACK"
        /\ resumer' = NoTask
  /\ resume' = [resume EXCEPT ![x] = "idle"]
  /\ UNCHANGED <<vars, poll>>

-----------------------------------------------------------------------------
(* Time, and the speaker.                               *)

GraceExpires ==
  /\ r.grace
  /\ r' = [r EXCEPT !.grace = FALSE]
  /\ UNCHANGED <<task, lock, loop, spk, syncVars>>

\* The stream ends or breaks off; someone uses the buttons of the speaker.
SpeakerChanges ==
  /\ \E m \in {"stopped", "playing", "paused"} :
       /\ m # spk.mode
       /\ m = "playing" => spk.mode = "paused"
       /\ m = "paused" => spk.mode = "playing"
       /\ spk' = [spk EXCEPT !.mode = m]
  /\ UNCHANGED <<r, task, lock, loop, syncVars>>

Poll == \/ PollResetsIdle \/ PollAfterReset \/ PollAsks \/ PollFails
        \/ PollIgnores \/ PollApplies

SyncNext ==
  \/ (SoapStep \/ RunTask) /\ UNCHANGED syncVars
  \/ Poll
  \/ \E x \in Resumers : ResumePlays(x) \/ ResumeEnds(x)
  \/ GraceExpires \/ SpeakerChanges

SyncSpec == SyncInit /\ [][SyncNext]_allVars

-----------------------------------------------------------------------------
(* Properties.                                                             *)

\* A resume task that is waiting or playing is the one _resume_tasks names,
\* so that there is one at most and the next interruption replaces it
\* (app.py:537-542, 564-565).
ResumeIsKnown == \A x \in Resumers : resume[x] # "idle" => resumer = x

=============================================================================
