--------------------------- MODULE AirplaySpeaker ---------------------------
(***************************************************************************)
(* The bridge between an AirPlay session and the speaker                   *)
(* (src/src/miairx/protocols/airplay/speaker_airplay.py): the callbacks of *)
(* the RTSP and receiver threads, which come as PlaySessions promises,     *)
(* schedule coroutines in the event loop, which start in the order of the  *)
(* callbacks and interleave wherever they await the speaker, a timer or a  *)
(* task.  A session stands for the URL of its stream.                      *)
(*                                                                         *)
(* Left out: volume, which no property is about.                           *)
(***************************************************************************)
EXTENDS PlaySessions, Sequences

VARIABLES
  due,       \* coroutines scheduled by a callback that have not started
  play,      \* _play_on_speaker of each session: "no", "call", "done"
  stop,      \* _stop_on_speaker: "no", "wait", "call", "stopped", "failed"
  awaited,   \* the poll that each _stop_on_speaker waits for; 0 is the stop of
             \* the service, and a poll 0 is none
  poll,      \* _poll_speaker_state, made for each session
  url,       \* _stream_url, as its session; 0 is the empty string
  shown,     \* _airplay_active
  grace,     \* before _play_grace_until
  pollTask,  \* _poll_task, as its session; 0 is None
  speaker,   \* the session whose stream the speaker was told to play, or 0
  service,   \* SpeakerAirplay.stop: "on", "wait" for the poll, "off"
  calm,      \* history: every callback so far, and the stop of the service,
             \* came when no coroutine of the bridge was pending
  over       \* history: the last callback was the end of a session

bridge == <<due, play, stop, awaited, poll, url, shown, grace, pollTask, speaker,
            service>>
vars == <<sessions, bridge, calm, over>>

Session == 1..MaxSid
Ended == [at |-> "ended", arg |-> 0, cancelled |-> FALSE]
PollType == [at : {"start", "sleep", "ask", "pause", "call", "ended"},
             arg : 0..MaxSid, cancelled : BOOLEAN]

SpeakerInit ==
  /\ SessionsInit
  /\ due = <<>>
  /\ play = [s \in Session |-> "no"] /\ stop = [s \in Session |-> "no"]
  /\ awaited = [s \in 0..MaxSid |-> 0]
  /\ poll = [s \in Session |-> Ended]
  /\ url = 0 /\ shown = FALSE /\ grace = FALSE /\ pollTask = 0
  /\ speaker = 0 /\ service = "on" /\ calm = TRUE /\ over = TRUE

Live(p) == poll[p].at # "ended"

\* No coroutine of the bridge but the poll is pending.
Settled ==
  /\ due = <<>>
  /\ \A s \in Session : play[s] # "call" /\ stop[s] \notin {"wait", "call"}

----------------------------------------------------------------------------
(* The callbacks, in the receiver thread and in the RTSP thread. *)

OnPlayStart ==
  /\ Hear
  /\ due' = Append(due, <<"play", cur>>)
  /\ calm' = (calm /\ Settled /\ service # "wait") /\ over' = FALSE
  /\ UNCHANGED <<play, stop, awaited, poll, url, shown, grace, pollTask, speaker, service>>

OnPlayStop ==
  /\ Finish
  /\ shown' = FALSE
  /\ due' = Append(due, <<"stop", cur>>)
  /\ calm' = (calm /\ Settled /\ service # "wait") /\ over' = TRUE
  /\ UNCHANGED <<play, stop, awaited, poll, url, grace, pollTask, speaker, service>>

----------------------------------------------------------------------------
(* _play_on_speaker *)

\* Cancelling a task that has ended does nothing.
CancelPoll(polls, p) ==
  IF p = 0 \/ polls[p].at = "ended" THEN polls
  ELSE [polls EXCEPT ![p].cancelled = TRUE]

PlayStarts ==
  /\ due # <<>> /\ Head(due)[1] = "play"
  /\ LET s == Head(due)[2] IN url' = s /\ play' = [play EXCEPT ![s] = "call"]
  /\ due' = Tail(due) /\ shown' = TRUE /\ grace' = TRUE
  /\ UNCHANGED <<sessions, stop, awaited, poll, pollTask, speaker, service, calm, over>>

\* play_url has reached the speaker; _start_poll replaces the poll.
PlayReturns(s) ==
  /\ play[s] = "call"
  /\ play' = [play EXCEPT ![s] = "done"]
  /\ \/ /\ speaker' = s /\ pollTask' = s
        /\ poll' = [CancelPoll(poll, pollTask) EXCEPT
                      ![s] = [at |-> "start", arg |-> 0, cancelled |-> FALSE]]
     \/ UNCHANGED <<speaker, pollTask, poll>>
  /\ UNCHANGED <<sessions, due, stop, awaited, url, shown, grace, service, calm, over>>

----------------------------------------------------------------------------
(* _stop_on_speaker *)

\* Mutant of StopStarts: the poll is not cancelled and not waited for.
StopStartsAlone ==
  /\ due # <<>> /\ Head(due)[1] = "stop"
  /\ stop' = [stop EXCEPT ![Head(due)[2]] = "call"]
  /\ due' = Tail(due)
  /\ UNCHANGED <<sessions, play, awaited, poll, pollTask, url, shown, grace, speaker, service, calm, over>>

StopStarts ==
  /\ due # <<>> /\ Head(due)[1] = "stop"
  /\ LET waits == pollTask # 0 /\ Live(pollTask) IN
     /\ stop' = [stop EXCEPT ![Head(due)[2]] = IF waits THEN "wait" ELSE "call"]
     /\ awaited' = [awaited EXCEPT ![Head(due)[2]] = IF waits THEN pollTask ELSE 0]
     /\ poll' = CancelPoll(poll, pollTask)
     /\ pollTask' = IF waits THEN pollTask ELSE 0
  /\ due' = Tail(due)
  /\ UNCHANGED <<sessions, play, url, shown, grace, speaker, service, calm, over>>

\* The poll that it waits for has ended.
PollIsOver(s) == awaited[s] # 0 => ~Live(awaited[s])

\* Whatever _poll_task is by now, it becomes None.
StopResumes(s) ==
  /\ stop[s] = "wait"
  /\ PollIsOver(s) /\ awaited' = [awaited EXCEPT ![s] = 0]
  /\ pollTask' = 0 /\ stop' = [stop EXCEPT ![s] = "call"]
  /\ UNCHANGED <<sessions, due, play, poll, url, shown, grace, speaker, service, calm, over>>

StopReturns(s) ==
  /\ stop[s] = "call"
  /\ \/ speaker' = 0 /\ stop' = [stop EXCEPT ![s] = "stopped"]
     \/ UNCHANGED speaker /\ stop' = [stop EXCEPT ![s] = "failed"]
  /\ UNCHANGED <<sessions, due, play, awaited, poll, url, shown, grace, pollTask, service, calm, over>>

----------------------------------------------------------------------------
(* _poll_speaker_state *)

PollGoes(p, at, arg) ==
  /\ ~poll[p].cancelled
  /\ poll' = [poll EXCEPT ![p].at = at, ![p].arg = arg]
  /\ UNCHANGED <<sessions, due, play, stop, awaited, url, shown, pollTask, service, calm, over>>

\* The loop goes on while AirPlay is active.
Again == IF shown THEN "sleep" ELSE "ended"

PollStarts(p) ==
  /\ poll[p].at = "start"
  /\ PollGoes(p, Again, 0) /\ UNCHANGED <<grace, speaker>>

\* Mutant of PollWakes: the grace period ends the poll.
PollWakesOnce(p) ==
  /\ poll[p].at = "sleep"
  /\ PollGoes(p, IF grace THEN "ended" ELSE "ask", 0)
  /\ UNCHANGED <<grace, speaker>>

PollWakes(p) ==
  /\ poll[p].at = "sleep"
  /\ PollGoes(p, IF grace THEN Again ELSE "ask", 0)
  /\ UNCHANGED <<grace, speaker>>

\* get_status has answered: the speaker has stopped, and a session is on.
PollSees(p) ==
  /\ poll[p].at = "ask" /\ speaker = 0 /\ shown
  /\ PollGoes(p, "pause", 0) /\ UNCHANGED <<grace, speaker>>

\* It plays, or the answer is of no use, or AirPlay has ended.
PollPasses(p) ==
  /\ poll[p].at = "ask"
  /\ PollGoes(p, Again, 0) /\ UNCHANGED <<grace, speaker>>

PollPlays(p) ==
  /\ poll[p].at = "pause"
  /\ PollGoes(p, "call", url) /\ UNCHANGED <<grace, speaker>>

PollReturns(p) ==
  /\ poll[p].at = "call"
  /\ PollGoes(p, Again, 0)
  /\ \/ speaker' = poll[p].arg /\ grace' = TRUE
     \/ UNCHANGED <<speaker, grace>>

\* CancelledError ends it where it awaits; a request under way may have
\* reached the speaker by then.
PollCancelled(p) ==
  /\ Live(p) /\ poll[p].cancelled
  /\ poll' = [poll EXCEPT ![p].at = "ended"]
  /\ speaker' \in {speaker} \cup (IF poll[p].at = "call" THEN {poll[p].arg} ELSE {})
  /\ UNCHANGED <<sessions, due, play, stop, awaited, url, shown, grace, pollTask, service, calm, over>>

----------------------------------------------------------------------------
(* SpeakerAirplay.stop, and the world. *)

ServiceStops ==
  /\ service = "on"
  /\ LET waits == pollTask # 0 /\ Live(pollTask) IN
     /\ service' = IF waits THEN "wait" ELSE "off"
     /\ awaited' = [awaited EXCEPT ![0] = IF waits THEN pollTask ELSE 0]
     /\ poll' = CancelPoll(poll, pollTask)
     /\ pollTask' = IF waits THEN pollTask ELSE 0
  /\ shown' = FALSE
  /\ calm' = (calm /\ Settled)
  /\ UNCHANGED <<sessions, due, play, stop, url, grace, speaker, over>>

ServiceEnds ==
  /\ service = "wait" /\ service' = "off"
  /\ PollIsOver(0) /\ awaited' = [awaited EXCEPT ![0] = 0]
  /\ pollTask' = 0
  /\ UNCHANGED <<sessions, due, play, stop, poll, url, shown, grace, speaker, calm, over>>

GraceEnds ==
  /\ grace /\ grace' = FALSE
  /\ UNCHANGED <<sessions, due, play, stop, awaited, poll, url, shown, pollTask, speaker, service, calm, over>>

\* The user stops it, a voice command interrupts it, or the stream is gone.
SpeakerStops ==
  /\ speaker # 0 /\ speaker' = 0
  /\ UNCHANGED <<sessions, due, play, stop, awaited, poll, url, shown, grace, pollTask, service, calm, over>>

----------------------------------------------------------------------------
PollStep(p) ==
  \/ PollStarts(p) \/ PollWakes(p) \/ PollSees(p) \/ PollPasses(p) \/ PollPlays(p)
  \/ PollReturns(p) \/ PollCancelled(p)

Coroutine ==
  \/ PlayStarts \/ StopStarts
  \/ \E s \in Session : PlayReturns(s) \/ StopResumes(s) \/ StopReturns(s) \/ PollStep(s)

SpeakerNext ==
  \/ Begin /\ UNCHANGED <<bridge, calm, over>>
  \/ OnPlayStart \/ OnPlayStop \/ Coroutine
  \/ ServiceStops \/ ServiceEnds \/ GraceEnds \/ SpeakerStops

SpeakerSpec == SpeakerInit /\ [][SpeakerNext]_vars

\* The event loop runs and timers fire; the speaker's state can be read again
\* and again (a reading that keeps failing would keep the poll from seeing it).
FairSpeakerSpec ==
  /\ SpeakerSpec
  /\ WF_vars(GraceEnds)
  /\ \A p \in Session : WF_vars(PollStep(p)) /\ SF_vars(PollSees(p))

----------------------------------------------------------------------------
SpeakerTypeOK ==
  /\ cur \in 0..MaxSid /\ phase \in {"none", "begun", "heard"}
  /\ due \in Seq({"play", "stop"} \X Session)
  /\ play \in [Session -> {"no", "call", "done"}]
  /\ stop \in [Session -> {"no", "wait", "call", "stopped", "failed"}]
  /\ awaited \in [0..MaxSid -> 0..MaxSid] /\ poll \in [Session -> PollType]
  /\ url \in 0..MaxSid /\ pollTask \in 0..MaxSid /\ speaker \in 0..MaxSid
  /\ shown \in BOOLEAN /\ grace \in BOOLEAN /\ service \in {"on", "wait", "off"}
  /\ calm \in BOOLEAN /\ over \in BOOLEAN

\* Where the event loop keeps up with the sessions, the poll that runs is the
\* one _poll_task knows, so that the next stop or session can cancel it, and
\* the end of a session leaves nothing behind: AirPlay is off, no poll is there
\* that could start the dead stream again, and a speaker that took the stop
\* stays stopped.
CalmPolls ==
  calm =>
    /\ \A p \in Session : Live(p) /\ ~poll[p].cancelled => pollTask = p
    /\ over /\ Settled =>
         /\ ~shown /\ \A p \in Session : ~Live(p)
         /\ cur \in Session /\ stop[cur] = "stopped" => speaker = 0

\* A speaker that is interrupted while its session goes on is told to play
\* again: the poll sees it in the end, whatever the grace period skips.
InterruptedResumes ==
  \A p \in Session :
    Live(p) /\ shown /\ speaker = 0 ~>
      poll[p].at = "call" \/ poll[p].cancelled \/ ~shown \/ speaker # 0
=============================================================================
