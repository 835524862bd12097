------------------------ MODULE AirplaySpeakerProofs ------------------------
(***************************************************************************)
(* What AirplaySpeaker keeps for any number of sessions: its types, and    *)
(* CalmPolls, that a bridge whose coroutines keep up with the callbacks    *)
(* has one poll at most, which it can cancel.                              *)
(***************************************************************************)
EXTENDS AirplaySpeaker, SequenceTheorems, TLAPS

\* The coroutines of a session that have been scheduled and are not over.
PlayPending(s) == due = << <<"play", s>> >> \/ play[s] = "call"
StopPending(s) == due = << <<"stop", s>> >> \/ stop[s] \in {"wait", "call"}

\* The history of the callbacks, against the sessions they are about.
SessionsInv ==
  /\ over <=> phase # "heard"
  /\ phase # "none" => cur \in Session

\* One coroutine beside the poll at most, of the kind of the last callback; a
\* session whose end has not been heard has not been stopped.
OneCoroutine ==
  /\ due = <<>> \/ \E s \in Session : due \in {<< <<"play", s>> >>, << <<"stop", s>> >>}
  /\ due # <<>> => \A s \in Session : play[s] # "call" /\ stop[s] \notin {"wait", "call"}
  /\ \A s \in Session : PlayPending(s) => ~over
  /\ \A s \in Session : StopPending(s) => over
  /\ \A s, t \in Session :
       /\ PlayPending(s) /\ PlayPending(t) => s = t
       /\ StopPending(s) /\ StopPending(t) => s = t
  /\ service = "wait" => Settled
  /\ \A s \in Session : StopPending(s) \/ stop[s] # "no" =>
       s < cur \/ (s = cur /\ phase = "none")

\* No poll runs.
NoPoll == \A p \in Session : ~Live(p)

\* A poll that runs is the recorded one, which whoever waits for a poll waits
\* for; it runs neither while a session is being started, nor once the speaker
\* is being stopped, nor after that.
OnePoll ==
  \A p \in Session : Live(p) =>
    /\ pollTask = p
    /\ \A s \in Session : stop[s] = "wait" => awaited[s] = p
    /\ service = "wait" => awaited[0] = p
    /\ \A s \in Session : ~PlayPending(s) /\ stop[s] # "call"
    /\ ~(over /\ Settled)

\* What the end of a session leaves behind.
Quiet ==
  /\ over => ~shown
  /\ \A s \in Session : StopPending(s) /\ phase = "none" => s = cur
  /\ over /\ Settled /\ cur \in Session /\ stop[cur] = "stopped" => speaker = 0

CalmInv == OneCoroutine /\ OnePoll /\ Quiet

SpeakerInv == SpeakerTypeOK /\ SessionsInv /\ (calm => CalmInv)

----------------------------------------------------------------------------
\* A coroutine that is scheduled when none is becomes the only one, and its
\* start leaves none.
LEMMA OneDue ==
  ASSUME NEW x
  PROVE  /\ Append(<<>>, x) = <<x>> /\ <<x>> # <<>>
         /\ Head(<<x>>) = x /\ Tail(<<x>>) = <<>>
  OBVIOUS

\* Cancelling a poll does not end it.
LEMMA CancelKeeps ==
  ASSUME SpeakerTypeOK, NEW p \in 0..MaxSid
  PROVE  /\ CancelPoll(poll, p) \in [Session -> PollType]
         /\ \A q \in Session : CancelPoll(poll, p)[q].at = poll[q].at
  BY DEF CancelPoll, SpeakerTypeOK, PollType, Session

\* What a step of a poll changes.
PollMoves(p) ==
  /\ Live(p)
  /\ poll' \in [Session -> PollType]
  /\ \A q \in Session : poll'[q].at # "ended" => Live(q)
  /\ speaker' \in 0..MaxSid /\ grace' \in BOOLEAN
  /\ UNCHANGED <<sessions, due, play, stop, awaited, url, shown, pollTask, service, calm, over>>

\* Every step of _poll_speaker_state moves a poll that runs, and starts none.
LEMMA PollStepMoves ==
  ASSUME SpeakerTypeOK, NEW p \in Session, PollStep(p)
  PROVE  PollMoves(p)
  <1>. DEFINE Goes(at, arg) == PollGoes(p, at, arg) /\ grace' \in BOOLEAN
                                /\ speaker' \in 0..MaxSid /\ Live(p)
  <1>1. ASSUME NEW at \in {"start", "sleep", "ask", "pause", "call", "ended"},
               NEW arg \in 0..MaxSid, Goes(at, arg)
        PROVE  PollMoves(p)
    <2>1. poll' = [poll EXCEPT ![p].at = at, ![p].arg = arg]
      BY <1>1 DEF PollGoes
    <2>a. [poll[p] EXCEPT !.at = at, !.arg = arg] \in PollType
      <3>1. poll[p] \in PollType
        BY DEF SpeakerTypeOK
      <3>. QED BY <3>1 DEF PollType
    <2>2. poll' \in [Session -> PollType]
      BY <2>1, <2>a DEF SpeakerTypeOK
    <2>3. \A q \in Session : poll'[q].at # "ended" => Live(q)
      BY <1>1, <2>1 DEF SpeakerTypeOK, PollType, Live
    <2>. QED BY <1>1, <2>2, <2>3 DEF PollMoves, PollGoes
  <1>2. Again \in {"start", "sleep", "ask", "pause", "call", "ended"}
    BY DEF Again
  <1>3. 0 \in 0..MaxSid /\ url \in 0..MaxSid /\ poll[p].arg \in 0..MaxSid
        /\ speaker \in 0..MaxSid /\ grace \in BOOLEAN
    BY MaxSidAssumption DEF SpeakerTypeOK, PollType
  <1>4. CASE PollStarts(p)
    BY <1>1, <1>2, <1>3, <1>4 DEF PollStarts, Live
  <1>5. CASE PollWakes(p)
    BY <1>1, <1>2, <1>3, <1>5 DEF PollWakes, Live
  <1>6. CASE PollSees(p) \/ PollPasses(p)
    BY <1>1, <1>2, <1>3, <1>6 DEF PollSees, PollPasses, Live
  <1>7. CASE PollPlays(p) \/ PollReturns(p)
    BY <1>1, <1>2, <1>3, <1>7 DEF PollPlays, PollReturns, Live
  <1>8. CASE PollCancelled(p)
    <2>1. poll' = [poll EXCEPT ![p].at = "ended"]
      BY <1>8 DEF PollCancelled
    <2>2. poll' \in [Session -> PollType]
      BY <2>1 DEF SpeakerTypeOK, PollType
    <2>3. \A q \in Session : poll'[q].at # "ended" => Live(q)
      BY <2>1 DEF SpeakerTypeOK, PollType, Live
    <2>. QED BY <1>3, <1>8, <2>2, <2>3 DEF PollMoves, PollCancelled
  <1>. QED BY <1>4, <1>5, <1>6, <1>7, <1>8 DEF PollStep

\* A step of a poll keeps everything: it ends a poll or none, and moves the
\* speaker only while a poll runs.
LEMMA PollKeeps ==
  ASSUME SpeakerInv, NEW p \in Session, PollMoves(p)
  PROVE  SpeakerInv'
  <1>1. SpeakerTypeOK' /\ SessionsInv'
    BY DEF SpeakerInv, SpeakerTypeOK, SessionsInv, PollMoves, sessions
  <1>2. ASSUME calm' PROVE CalmInv'
    <2>1. CalmInv
      BY <1>2 DEF SpeakerInv, PollMoves
    <2>2. OneCoroutine'
      BY <2>1 DEF CalmInv, OneCoroutine, PollMoves, PlayPending, StopPending, Settled, sessions
    <2>3. OnePoll'
      BY <2>1 DEF CalmInv, OnePoll, PollMoves, PlayPending, StopPending, Settled, Live, sessions
    <2>4. Quiet'
      BY <2>1 DEF CalmInv, OnePoll, Quiet, PollMoves, PlayPending, StopPending, Settled, sessions
    <2>. QED BY <2>2, <2>3, <2>4 DEF CalmInv
  <1>. QED BY <1>1, <1>2 DEF SpeakerInv

----------------------------------------------------------------------------
\* A bridge that has heard of no session has neither a poll nor a coroutine.
LEMMA SpeakerStart == SpeakerInit => SpeakerInv
  <1>. SUFFICES ASSUME SpeakerInit PROVE SpeakerInv
    OBVIOUS
  <1>. USE DEF SpeakerInit, SessionsInit
  <1>1. SpeakerTypeOK
    <2>1. 0 \in 0..MaxSid
      BY MaxSidAssumption
    <2>2. due \in Seq({"play", "stop"} \X Session)
      OBVIOUS
    <2>3. poll \in [Session -> PollType]
      BY <2>1 DEF PollType, Ended
    <2>. QED BY <2>1, <2>2, <2>3 DEF SpeakerTypeOK
  <1>2. SessionsInv /\ CalmInv
    BY DEF SessionsInv, CalmInv, OneCoroutine, OnePoll, Quiet,
           PlayPending, StopPending, Settled, Live, Session, Ended
  <1>. QED BY <1>1, <1>2 DEF SpeakerInv

\* Each callback, coroutine and poll leaves the variables in their types, and
\* over is set by the end of a session and reset by its start.
LEMMA SpeakerTypes ==
  ASSUME SpeakerInv, SpeakerNext
  PROVE  SpeakerTypeOK' /\ SessionsInv'
  <1>. USE DEF SpeakerInv, SessionsInv, sessions
  <1>. DEFINE Coroutines == {"play", "stop"} \X Session
  <1>0. 0 \in 0..MaxSid /\ \A s \in Session : s \in 0..MaxSid
    BY MaxSidAssumption DEF Session
  <1>1. CASE Begin /\ UNCHANGED <<bridge, calm, over>>
    <2>1. cur' \in 0..MaxSid /\ cur' \in Session
      BY <1>1, MaxSidAssumption DEF Begin, SpeakerTypeOK, Session
    <2>. QED BY <1>1, <2>1 DEF Begin, bridge, SpeakerTypeOK
  <1>2. CASE OnPlayStart
    <2>1. due' \in Seq(Coroutines)
      BY <1>2 DEF OnPlayStart, Hear, SpeakerTypeOK
    <2>2. cur \in Session /\ calm' \in BOOLEAN
      BY <1>2 DEF OnPlayStart, Hear
    <2>. QED BY <1>2, <2>1, <2>2 DEF OnPlayStart, Hear, SpeakerTypeOK
  <1>3. CASE OnPlayStop
    <2>1. due' \in Seq(Coroutines)
      BY <1>3 DEF OnPlayStop, Finish, SpeakerTypeOK
    <2>2. calm' \in BOOLEAN
      BY <1>3 DEF OnPlayStop
    <2>. QED BY <1>3, <2>1, <2>2 DEF OnPlayStop, Finish, SpeakerTypeOK
  <1>4. ASSUME due # <<>>
        PROVE  /\ Head(due) \in Coroutines /\ Tail(due) \in Seq(Coroutines)
               /\ Head(due)[2] \in Session /\ Head(due)[2] \in 0..MaxSid
    BY <1>0, <1>4 DEF SpeakerTypeOK
  <1>5. CASE PlayStarts
    BY <1>4, <1>5 DEF PlayStarts, SpeakerTypeOK
  <1>6. CASE StopStarts
    <2>1. poll' \in [Session -> PollType]
      BY <1>6, CancelKeeps DEF StopStarts, SpeakerTypeOK
    <2>2. stop' \in [Session -> {"no", "wait", "call", "stopped", "failed"}]
      BY <1>4, <1>6 DEF StopStarts, SpeakerTypeOK
    <2>3. awaited' \in [0..MaxSid -> 0..MaxSid] /\ pollTask' \in 0..MaxSid
      BY <1>0, <1>4, <1>6 DEF StopStarts, SpeakerTypeOK
    <2>. QED BY <1>4, <1>6, <2>1, <2>2, <2>3 DEF StopStarts, SpeakerTypeOK
  <1>7. ASSUME NEW s \in Session, PlayReturns(s) PROVE SpeakerTypeOK' /\ SessionsInv'
    <2>1. [at |-> "start", arg |-> 0, cancelled |-> FALSE] \in PollType
      BY <1>0 DEF PollType
    <2>2. CancelPoll(poll, pollTask) \in [Session -> PollType]
      BY CancelKeeps DEF SpeakerTypeOK
    <2>3. poll' \in [Session -> PollType]
      BY <1>7, <2>1, <2>2 DEF PlayReturns, SpeakerTypeOK
    <2>. QED BY <1>0, <1>7, <2>3 DEF PlayReturns, SpeakerTypeOK
  <1>8. ASSUME NEW s \in Session, StopResumes(s) \/ StopReturns(s)
        PROVE  SpeakerTypeOK' /\ SessionsInv'
    <2>1. CASE StopResumes(s)
      BY <1>0, <2>1 DEF StopResumes, SpeakerTypeOK
    <2>2. CASE StopReturns(s)
      BY <1>0, <2>2 DEF StopReturns, SpeakerTypeOK
    <2>. QED BY <1>8, <2>1, <2>2
  <1>9. ASSUME NEW p \in Session, PollStep(p) PROVE SpeakerTypeOK' /\ SessionsInv'
    BY <1>9, PollStepMoves, PollKeeps
  <1>10. CASE ServiceStops
    <2>1. poll' \in [Session -> PollType]
      BY <1>10, CancelKeeps DEF ServiceStops, SpeakerTypeOK
    <2>2. awaited' \in [0..MaxSid -> 0..MaxSid] /\ pollTask' \in 0..MaxSid
      BY <1>0, <1>10 DEF ServiceStops, SpeakerTypeOK
    <2>3. calm' \in BOOLEAN
      BY <1>10 DEF ServiceStops
    <2>. QED BY <1>10, <2>1, <2>2, <2>3 DEF ServiceStops, SpeakerTypeOK
  <1>11. CASE ServiceEnds
    BY <1>0, <1>11 DEF ServiceEnds, SpeakerTypeOK
  <1>12. CASE GraceEnds
    BY <1>12 DEF GraceEnds, SpeakerTypeOK
  <1>13. CASE SpeakerStops
    BY <1>0, <1>13 DEF SpeakerStops, SpeakerTypeOK
  <1>. QED
    BY <1>1, <1>2, <1>3, <1>5, <1>6, <1>7, <1>8, <1>9, <1>10, <1>11, <1>12, <1>13
    DEF SpeakerNext, Coroutine

\* A callback comes when nothing is pending and the polls have ended.
LEMMA CallbackKeeps ==
  ASSUME SpeakerInv, OnPlayStart \/ OnPlayStop, calm'
  PROVE  CalmInv'
  <1>. USE DEF SpeakerInv, SessionsInv, sessions
  <1>1. CalmInv /\ Settled /\ service # "wait" /\ due = <<>>
    BY DEF OnPlayStart, OnPlayStop, Settled
  <1>2. CASE OnPlayStart
    <2>1. /\ cur \in Session /\ phase = "begun" /\ phase' = "heard" /\ over /\ ~over'
          /\ due' = << <<"play", cur>> >> /\ due' # <<>>
      BY <1>1, <1>2, OneDue DEF OnPlayStart, Hear
    <2>2. NoPoll
      BY <1>1, <2>1 DEF CalmInv, OnePoll, NoPoll
    <2>3. OneCoroutine'
      BY <1>1, <1>2, <2>1
      DEF OnPlayStart, Hear, CalmInv, OneCoroutine, PlayPending, StopPending, Settled
    <2>4. OnePoll'
      BY <1>2, <2>2 DEF OnPlayStart, OnePoll, NoPoll, Live
    <2>5. Quiet'
      BY <2>1 DEF Quiet
    <2>. QED BY <2>3, <2>4, <2>5 DEF CalmInv
  <1>3. CASE OnPlayStop
    <2>1. /\ cur \in Session /\ phase' = "none" /\ over' /\ ~shown'
          /\ due' = << <<"stop", cur>> >> /\ due' # <<>>
      BY <1>1, <1>3, OneDue DEF OnPlayStop, Finish
    <2>2. OneCoroutine'
      BY <1>1, <1>3, <2>1
      DEF OnPlayStop, Finish, CalmInv, OneCoroutine, PlayPending, StopPending, Settled, Session
    <2>3. OnePoll'
      BY <1>1, <1>3, <2>1
      DEF OnPlayStop, Finish, CalmInv, OnePoll, PlayPending, Settled, Live
    <2>4. Quiet'
      BY <1>1, <1>3, <2>1 DEF OnPlayStop, Finish, Quiet, StopPending, Settled
    <2>. QED BY <2>2, <2>3, <2>4 DEF CalmInv
  <1>. QED BY <1>2, <1>3

\* _play_on_speaker begins: the coroutine leaves the queue and is pending.
LEMMA PlayStartsKeeps ==
  ASSUME SpeakerInv, PlayStarts, calm
  PROVE  CalmInv'
  <1>. USE DEF SpeakerInv, SessionsInv, sessions
  <1>1. PICK s \in Session : due = << <<"play", s>> >>
    BY OneDue DEF PlayStarts, CalmInv, OneCoroutine
  <1>2. /\ Head(due) = <<"play", s>> /\ Tail(due) = <<>> /\ due # <<>>
        /\ \A x \in Session : <<>> # << <<"play", x>> >> /\ <<>> # << <<"stop", x>> >>
    BY <1>1, OneDue
  <1>3. /\ CalmInv /\ due' = <<>> /\ play' = [play EXCEPT ![s] = "call"] /\ ~over
    <2>1. Head(due)[1] = "play" /\ Head(due)[2] = s
      BY <1>2
    <2>2. CalmInv /\ PlayPending(s) /\ ~over
      BY <1>1 DEF PlayStarts, CalmInv, OneCoroutine, PlayPending
    <2>. QED BY <1>2, <2>1, <2>2 DEF PlayStarts
  <1>4. OneCoroutine'
    BY <1>1, <1>2, <1>3
    DEF PlayStarts, CalmInv, OneCoroutine, PlayPending, StopPending, Settled, SpeakerTypeOK
  <1>5. OnePoll'
    BY <1>1, <1>2, <1>3 DEF PlayStarts, CalmInv, OnePoll, PlayPending, Live
  <1>6. Quiet'
    BY <1>3, <1>4 DEF PlayStarts, Quiet, OneCoroutine
  <1>. QED BY <1>4, <1>5, <1>6 DEF CalmInv

\* _start_poll finds no poll that runs, and makes and records one.
LEMMA PlayReturnsKeeps ==
  ASSUME SpeakerInv, NEW s \in Session, PlayReturns(s), calm
  PROVE  CalmInv'
  <1>. USE DEF SpeakerInv, SessionsInv, sessions
  <1>1. CalmInv /\ play' = [play EXCEPT ![s] = "done"] /\ PlayPending(s) /\ ~over
    BY DEF PlayReturns, PlayPending, CalmInv, OneCoroutine
  <1>2. due = <<>> /\ NoPoll
    BY <1>1 DEF PlayReturns, CalmInv, OneCoroutine, OnePoll, NoPoll
  <1>3. \A x \in Session : play'[x] # "call" /\ ~StopPending(x)
    BY <1>1 DEF CalmInv, OneCoroutine, PlayPending, SpeakerTypeOK
  <1>4. /\ service # "wait"
        /\ UNCHANGED <<sessions, due, stop, awaited, url, shown, service, over>>
    BY DEF PlayReturns, CalmInv, OneCoroutine, Settled
  <1>5. OneCoroutine'
    BY <1>1, <1>2, <1>3, <1>4 DEF CalmInv, OneCoroutine, PlayPending, StopPending, Settled
  <1>6. \A p \in Session : Live(p)' => p = s /\ pollTask' = s
    BY <1>2, CancelKeeps DEF PlayReturns, NoPoll, Live, SpeakerTypeOK
  <1>7. OnePoll'
    BY <1>1, <1>2, <1>3, <1>4, <1>6 DEF OnePoll, PlayPending, StopPending
  <1>8. Quiet'
    BY <1>1, <1>3, <1>4 DEF Quiet, StopPending
  <1>. QED BY <1>5, <1>7, <1>8 DEF CalmInv

\* _stop_on_speaker begins: a poll that runs is the recorded one, so that it is
\* cancelled and waited for.
LEMMA StopStartsKeeps ==
  ASSUME SpeakerInv, StopStarts, calm
  PROVE  CalmInv'
  <1>. USE DEF SpeakerInv, SessionsInv, sessions
  <1>. DEFINE waits == pollTask # 0 /\ Live(pollTask)
              now == IF waits THEN "wait" ELSE "call"
  <1>1. PICK s \in Session : due = << <<"stop", s>> >>
    BY OneDue DEF StopStarts, CalmInv, OneCoroutine
  <1>2. /\ Head(due) = <<"stop", s>> /\ Tail(due) = <<>> /\ due # <<>>
        /\ \A x \in Session : <<>> # << <<"play", x>> >> /\ <<>> # << <<"stop", x>> >>
    BY <1>1, OneDue
  <1>3. /\ CalmInv /\ due' = <<>> /\ stop' = [stop EXCEPT ![s] = now] /\ over
        /\ awaited' = [awaited EXCEPT ![s] = IF waits THEN pollTask ELSE 0]
        /\ pollTask' = IF waits THEN pollTask ELSE 0
        /\ StopPending(s)
    <2>1. Head(due)[1] = "stop" /\ Head(due)[2] = s
      BY <1>2
    <2>2. CalmInv /\ StopPending(s) /\ over
      BY <1>1 DEF StopStarts, CalmInv, OneCoroutine, StopPending
    <2>. QED BY <1>2, <2>1, <2>2 DEF StopStarts
  <1>4. \A p \in Session : Live(p)' <=> Live(p)
    BY CancelKeeps DEF StopStarts, Live, SpeakerTypeOK
  <1>5. service # "wait"
    BY <1>2, <1>3 DEF CalmInv, OneCoroutine, Settled
  <1>6. UNCHANGED <<sessions, play, url, shown, speaker, service, over>>
    BY DEF StopStarts
  <1>7. /\ stop'[s] = now /\ now \in {"wait", "call"}
        /\ \A x \in Session : stop[x] \notin {"wait", "call"} /\ play[x] # "call"
        /\ \A x \in Session : x # s => stop'[x] = stop[x]
    BY <1>3, <1>2 DEF CalmInv, OneCoroutine, SpeakerTypeOK
  <1>8. OneCoroutine'
    BY <1>1, <1>2, <1>3, <1>5, <1>6, <1>7
    DEF CalmInv, OneCoroutine, PlayPending, StopPending, Settled
  <1>9. OnePoll'
    <2>. SUFFICES ASSUME NEW p \in Session, Live(p)'
         PROVE  /\ pollTask' = p /\ awaited'[s] = p /\ stop'[s] = "wait"
      BY <1>2, <1>3, <1>5, <1>6, <1>7 DEF OnePoll, PlayPending, Settled
    <2>1. pollTask = p /\ Live(p) /\ p # 0
      BY <1>3, <1>4 DEF CalmInv, OnePoll, Session
    <2>2. s \in 0..MaxSid
      BY DEF Session
    <2>. QED BY <1>3, <1>7, <2>1, <2>2 DEF SpeakerTypeOK
  <1>10. Quiet'
    BY <1>1, <1>2, <1>3, <1>6, <1>7 DEF CalmInv, Quiet, StopPending, Settled
  <1>. QED BY <1>8, <1>9, <1>10 DEF CalmInv

\* _stop_on_speaker goes on once no poll is left, so that nothing starts the
\* stream again after the speaker has been stopped.
LEMMA StopGoesOnKeeps ==
  ASSUME SpeakerInv, NEW s \in Session, StopResumes(s) \/ StopReturns(s), calm
  PROVE  CalmInv'
  <1>. USE DEF SpeakerInv, SessionsInv, sessions
  <1>1. /\ CalmInv /\ StopPending(s) /\ over /\ due = <<>>
        /\ \A x \in Session : play[x] # "call" /\ (x # s => ~StopPending(x))
    BY DEF StopResumes, StopReturns, StopPending, CalmInv, OneCoroutine, PlayPending
  <1>2. service # "wait"
    BY <1>1 DEF CalmInv, OneCoroutine, Settled, StopResumes, StopReturns
  <1>3. NoPoll
    <2>1. CASE StopResumes(s)
      BY <1>1, <2>1 DEF StopResumes, PollIsOver, CalmInv, OnePoll, NoPoll, Session
    <2>2. CASE StopReturns(s)
      BY <1>1, <2>2 DEF StopReturns, CalmInv, OnePoll, NoPoll
    <2>. QED BY <2>1, <2>2
  <1>4. OnePoll'
    BY <1>3 DEF StopResumes, StopReturns, OnePoll, NoPoll, Live
  <1>5. /\ stop'[s] # "no" /\ \A x \in Session : x # s => stop'[x] = stop[x]
        /\ stop[s] # "no"
        /\ UNCHANGED <<sessions, due, play, url, shown, service, over>>
    BY DEF StopResumes, StopReturns, SpeakerTypeOK
  <1>6. OneCoroutine'
    BY <1>1, <1>2, <1>5
    DEF CalmInv, OneCoroutine, PlayPending, StopPending, Settled
  <1>7. Quiet'
    <2>1. CASE StopResumes(s)
      <3>1. stop'[s] = "call" /\ ~Settled'
        BY <2>1 DEF StopResumes, Settled, SpeakerTypeOK
      <3>. QED BY <1>1, <1>5, <3>1 DEF CalmInv, Quiet, StopPending
    <2>2. CASE StopReturns(s)
      <3>1. stop'[s] = "stopped" => speaker' = 0
        BY <2>2 DEF StopReturns, SpeakerTypeOK
      <3>2. stop[s] = "call" /\ \A x \in Session : ~StopPending(x)'
        BY <1>1, <1>5, <2>2 DEF StopReturns, StopPending, SpeakerTypeOK
      <3>3. cur \in Session /\ cur # s => stop[cur] # "stopped"
        BY <1>1 DEF CalmInv, Quiet, OneCoroutine, SpeakerTypeOK, Session
      <3>. QED BY <1>1, <1>5, <3>1, <3>2, <3>3 DEF CalmInv, Quiet
    <2>. QED BY <2>1, <2>2
  <1>. QED BY <1>4, <1>6, <1>7 DEF CalmInv

\* SpeakerAirplay.stop waits for the recorded poll, the only one that can run.
LEMMA ServiceKeeps ==
  ASSUME SpeakerInv, ServiceStops \/ ServiceEnds, calm'
  PROVE  CalmInv'
  <1>. USE DEF SpeakerInv, SessionsInv, sessions
  <1>1. CASE ServiceStops
    <2>. DEFINE waits == pollTask # 0 /\ Live(pollTask)
    <2>1. /\ CalmInv /\ Settled /\ ~shown' /\ 0 \in 0..MaxSid
          /\ UNCHANGED <<sessions, due, play, stop, speaker, over>>
      <3>1. calm /\ Settled
        BY <1>1 DEF ServiceStops, Settled
      <3>. QED BY <1>1, <3>1, MaxSidAssumption DEF ServiceStops
    <2>2. \A p \in Session : Live(p)' <=> Live(p)
      BY <1>1, CancelKeeps DEF ServiceStops, Live, SpeakerTypeOK
    <2>3. OneCoroutine'
      BY <2>1 DEF CalmInv, OneCoroutine, PlayPending, StopPending, Settled
    <2>4. OnePoll'
      <3>1. \A p \in Session : Live(p)' => pollTask' = p /\ awaited'[0] = p
        BY <1>1, <2>1, <2>2 DEF ServiceStops, CalmInv, OnePoll, SpeakerTypeOK, Session
      <3>. QED BY <2>1, <2>2, <3>1 DEF CalmInv, OnePoll, PlayPending, Settled
    <2>5. Quiet'
      BY <2>1 DEF CalmInv, Quiet, StopPending, Settled
    <2>. QED BY <2>3, <2>4, <2>5 DEF CalmInv
  <1>2. CASE ServiceEnds
    <2>1. /\ CalmInv /\ service = "wait" /\ service' = "off"
          /\ UNCHANGED <<sessions, due, play, stop, poll, shown, speaker, over>>
      BY <1>2 DEF ServiceEnds
    <2>2. NoPoll
      BY <1>2, <2>1 DEF ServiceEnds, PollIsOver, CalmInv, OnePoll, NoPoll, Session
    <2>3. OneCoroutine'
      BY <2>1 DEF CalmInv, OneCoroutine, PlayPending, StopPending, Settled
    <2>4. OnePoll'
      BY <2>1, <2>2 DEF OnePoll, NoPoll, Live
    <2>5. Quiet'
      BY <2>1 DEF CalmInv, Quiet, StopPending, Settled
    <2>. QED BY <2>3, <2>4, <2>5 DEF CalmInv
  <1>. QED BY <1>1, <1>2

\* A session that begins has not been stopped; the speaker and the grace period
\* take nothing away from the bridge.
LEMMA WorldKeeps ==
  ASSUME SpeakerInv, calm,
         \/ Begin /\ UNCHANGED <<bridge, calm, over>>
         \/ GraceEnds \/ SpeakerStops \/ UNCHANGED vars
  PROVE  CalmInv'
  <1>. USE DEF SpeakerInv, SessionsInv, sessions
  <1>1. CASE Begin /\ UNCHANGED <<bridge, calm, over>>
    <2>1. /\ CalmInv /\ phase = "none" /\ phase' = "begun" /\ cur' = cur + 1 /\ cur \in Nat
          /\ UNCHANGED <<bridge, over>>
      BY <1>1 DEF Begin, SpeakerTypeOK
    <2>2. OneCoroutine'
      BY <2>1 DEF CalmInv, OneCoroutine, PlayPending, StopPending, Settled, bridge, Session
    <2>3. OnePoll'
      BY <2>1 DEF CalmInv, OnePoll, PlayPending, Settled, Live, bridge
    <2>4. Quiet'
      <3>1. cur' \in Session => stop[cur'] # "stopped"
        BY <2>1 DEF CalmInv, OneCoroutine
      <3>. QED BY <2>1, <3>1 DEF CalmInv, Quiet, bridge
    <2>. QED BY <2>2, <2>3, <2>4 DEF CalmInv
  <1>2. CASE GraceEnds \/ SpeakerStops \/ UNCHANGED vars
    <2>1. /\ CalmInv /\ speaker' \in {speaker, 0}
          /\ UNCHANGED <<sessions, due, play, stop, awaited, poll, shown, pollTask,
                         service, over>>
      BY <1>2 DEF GraceEnds, SpeakerStops, vars, bridge
    <2>2. OneCoroutine'
      BY <2>1 DEF CalmInv, OneCoroutine, PlayPending, StopPending, Settled
    <2>3. OnePoll'
      BY <2>1 DEF CalmInv, OnePoll, PlayPending, Settled, Live
    <2>4. Quiet'
      BY <2>1 DEF CalmInv, Quiet, StopPending, Settled
    <2>. QED BY <2>2, <2>3, <2>4 DEF CalmInv
  <1>. QED BY <1>1, <1>2

\* The calm is never restored, so that the invariant holds before a step if it
\* has to hold after it.
LEMMA SpeakerKeeps ==
  ASSUME SpeakerInv, [SpeakerNext]_vars
  PROVE  SpeakerInv'
  <1>1. CASE UNCHANGED vars
    <2>1. SpeakerTypeOK' /\ SessionsInv' /\ calm' = calm
      BY <1>1 DEF SpeakerInv, SpeakerTypeOK, SessionsInv, vars, bridge, sessions
    <2>. QED BY <1>1, <2>1, WorldKeeps DEF SpeakerInv
  <1>2. CASE SpeakerNext
    <2>. SUFFICES ASSUME calm' PROVE CalmInv'
      BY <1>2, SpeakerTypes DEF SpeakerInv
    <2>1. CASE OnPlayStart \/ OnPlayStop
      BY <2>1, CallbackKeeps
    <2>2. CASE PlayStarts
      BY <2>2, PlayStartsKeeps DEF PlayStarts
    <2>3. CASE StopStarts
      BY <2>3, StopStartsKeeps DEF StopStarts
    <2>4. ASSUME NEW s \in Session, PlayReturns(s) PROVE CalmInv'
      BY <2>4, PlayReturnsKeeps DEF PlayReturns
    <2>5. ASSUME NEW s \in Session, StopResumes(s) \/ StopReturns(s) PROVE CalmInv'
      BY <2>5, StopGoesOnKeeps DEF StopResumes, StopReturns
    <2>6. ASSUME NEW p \in Session, PollStep(p) PROVE CalmInv'
      BY <2>6, PollStepMoves, PollKeeps DEF SpeakerInv
    <2>7. CASE ServiceStops \/ ServiceEnds
      BY <2>7, ServiceKeeps
    <2>8. CASE Begin /\ UNCHANGED <<bridge, calm, over>>
      BY <2>8, WorldKeeps
    <2>9. CASE GraceEnds \/ SpeakerStops
      BY <2>9, WorldKeeps DEF GraceEnds, SpeakerStops
    <2>. QED
      BY <1>2, <2>1, <2>2, <2>3, <2>4, <2>5, <2>6, <2>7, <2>8, <2>9 DEF SpeakerNext, Coroutine
  <1>. QED BY <1>1, <1>2

----------------------------------------------------------------------------
\* The inductive invariant of the bridge.
LEMMA SpeakerInvariant == SpeakerSpec => []SpeakerInv
  BY SpeakerStart, SpeakerKeeps, PTL DEF SpeakerSpec

\* Every variable of the bridge keeps its type (speaker_airplay.py:23-47).
THEOREM SpeakerTypeCorrect == SpeakerSpec => []SpeakerTypeOK
  <1>1. SpeakerInv => SpeakerTypeOK
    BY DEF SpeakerInv
  <1>. QED BY <1>1, SpeakerInvariant, PTL

\* While every callback has found the bridge at rest, the poll that runs is the
\* one _poll_task names, and the end of a session leaves no poll, no AirPlay and
\* no stream on the speaker, for any number of sessions
\* (speaker_airplay.py:79-222).
THEOREM CalmPollsAlways == SpeakerSpec => []CalmPolls
  <1>1. SpeakerInv => CalmPolls
    BY DEF SpeakerInv, CalmInv, OnePoll, Quiet, CalmPolls
  <1>. QED BY <1>1, SpeakerInvariant, PTL

=============================================================================
