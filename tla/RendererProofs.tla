--------------------------- MODULE RendererProofs ---------------------------
(***************************************************************************)
(* What DlnaRenderer and RendererSync keep for any number of handlers,     *)
(* monitors, automatic next tracks, URIs and resume tasks: the types, the  *)
(* lock discipline and the held TRANSITIONING state; the clock; the end of *)
(* a track; with one handler, the life of the monitor and of the automatic *)
(* next track and what the speaker plays; the synchronisation.             *)
(*                                                                         *)
(* The theorems about Spec are about DlnaRenderer alone: they assume       *)
(* nothing of the constants that RendererSync adds.                        *)
(***************************************************************************)
EXTENDS RendererSync, TLAPS

-----------------------------------------------------------------------------
(* Theorems about the queue of asyncio.Lock (AsyncLock).                    *)

\* A free lock is a queue.
LEMMA FreeQueue == \A T : Queue(FreeLock(T), T)
  BY DEF Queue, FreeLock, LockType

\* A task that is not queued may arrive.
LEMMA EnqueueQueue ==
  ASSUME NEW T, NEW l, Queue(l, T), NEW t \in T, t \notin l.queued
  PROVE  Queue(Enqueue(l, t), T)
  <1>. DEFINE m == Enqueue(l, t)
  <1>1. m \in LockType(T)
    BY DEF Enqueue, LockType, Queue
  <1>2. m.queued = l.queued \cup {t} /\ m.ahead[t] = l.queued
    BY DEF Enqueue, LockType, Queue
  <1>3. \A x \in T : x # t => m.ahead[x] = l.ahead[x]
    BY DEF Enqueue, LockType, Queue
  <1>4. \A x \in T : m.ahead[x] \subseteq m.queued \ {x}
    BY <1>2, <1>3 DEF Queue
  <1>5. \A x \in T : x \notin m.queued => m.ahead[x] = {}
    BY <1>2, <1>3 DEF Queue
  <1>6. ASSUME NEW x \in m.queued, NEW y \in m.queued, x # y
        PROVE  (x \in m.ahead[y] <=> y \notin m.ahead[x])
    <2>. x \in T /\ y \in T
      BY <1>1 DEF LockType
    <2>1. CASE x = t
      BY <2>1, <1>2, <1>3, <1>6 DEF Queue
    <2>2. CASE y = t
      BY <2>2, <1>2, <1>3, <1>6 DEF Queue
    <2>3. CASE x # t /\ y # t
      BY <2>3, <1>2, <1>3, <1>6 DEF Queue
    <2>. QED BY <2>1, <2>2, <2>3
  <1>. QED BY <1>1, <1>4, <1>5, <1>6 DEF Queue

\* Anybody may leave, queued or not.
LEMMA LeaveQueue ==
  ASSUME NEW T, NEW l, Queue(l, T), NEW t
  PROVE  Queue(Leave(l, t), T)
  <1>. DEFINE m == Leave(l, t)
  <1>1. m \in LockType(T)
    BY DEF Leave, LockType, Queue
  <1>2. m.queued = l.queued \ {t}
    BY DEF Leave
  <1>3. \A x \in T : m.ahead[x] = IF x = t THEN {} ELSE l.ahead[x] \ {t}
    BY DEF Leave, LockType, Queue
  <1>. HIDE DEF m
  <1>4. ASSUME NEW x \in T
        PROVE  m.ahead[x] \subseteq m.queued \ {x}
    <2>1. CASE x = t
      BY <2>1, <1>3
    <2>2. CASE x # t
      <3>1. m.ahead[x] = l.ahead[x] \ {t}
        BY <2>2, <1>3
      <3>2. l.ahead[x] \subseteq l.queued \ {x}
        BY DEF Queue
      <3>. QED BY <3>1, <3>2, <1>2
    <2>. QED BY <2>1, <2>2
  <1>5. \A x \in T : x \notin m.queued => m.ahead[x] = {}
    BY <1>2, <1>3 DEF Queue
  <1>6. ASSUME NEW x \in m.queued, NEW y \in m.queued, x # y
        PROVE  (x \in m.ahead[y] <=> y \notin m.ahead[x])
    <2>. x \in T /\ y \in T
      BY <1>1 DEF LockType
    <2>1. x \in l.queued /\ y \in l.queued /\ x # t /\ y # t
      BY <1>2, <1>6
    <2>2. m.ahead[x] = l.ahead[x] \ {t} /\ m.ahead[y] = l.ahead[y] \ {t}
      BY <1>3, <2>1
    <2>3. x \in l.ahead[y] <=> y \notin l.ahead[x]
      BY <2>1, <1>6 DEF Queue
    <2>. QED BY <2>1, <2>2, <2>3
  <1>. QED BY <1>1, <1>4, <1>5, <1>6 DEF Queue, m

\* Mutual exclusion: a lock has one owner.
LEMMA OneOwner ==
  ASSUME NEW T, NEW l, Queue(l, T), NEW x, NEW y, Owns(l, x), Owns(l, y)
  PROVE  x = y
  BY DEF Queue, Owns

\* An owner stays the owner when another task arrives or leaves.
LEMMA OwnerStays ==
  ASSUME NEW T, NEW l, Queue(l, T), NEW x, NEW t, x # t, Owns(l, x)
  PROVE  Owns(Enqueue(l, t), x) /\ Owns(Leave(l, t), x)
  <1>1. x \in T
    BY DEF Owns, Queue, LockType
  <1>2. Owns(Enqueue(l, t), x)
    BY <1>1 DEF Owns, Queue, Enqueue, LockType
  <1>3. Owns(Leave(l, t), x)
    BY <1>1 DEF Owns, Queue, Leave, LockType
  <1>. QED BY <1>2, <1>3

\* Who is queued afterwards.
LEMMA QueuedAfter ==
  ASSUME NEW l, NEW t
  PROVE  /\ Enqueue(l, t).queued = l.queued \cup {t}
         /\ Leave(l, t).queued = l.queued \ {t}
  BY DEF Enqueue, Leave

-----------------------------------------------------------------------------
(* Types of what the actions are built from.                               *)

\* Local variables of a task that is, or has just become, idle or suspended.
LEMMA LocalsTypes ==
  /\ Idle \in Locals
  /\ \A pc \in Pcs : At(pc) \in Locals /\ At(pc).pc = pc
  /\ Idle.pc = "idle"
  BY DEF Idle, At, Locals, Pcs, States, Media

\* Cancelling a task keeps the types of all of them.
LEMMA CancelledType ==
  ASSUME TypeOK, NEW x
  PROVE  Cancelled(x) \in [Tasks -> Locals]
  BY LocalsTypes DEF Cancelled, TypeOK

\* A lock stays a lock.
LEMMA LockTypes ==
  ASSUME NEW T, NEW l \in LockType(T), NEW t
  PROVE  /\ Leave(l, t) \in LockType(T)
         /\ t \in T => Enqueue(l, t) \in LockType(T)
  BY DEF LockType, Leave, Enqueue

\* Local variables with another pc or media.
LEMMA LocalsUpdates ==
  ASSUME NEW l \in Locals
  PROVE  /\ \A pc \in Pcs : /\ [l EXCEPT !.pc = pc] \in Locals
                            /\ [l EXCEPT !.pc = pc].pc = pc
         /\ \A m \in Media : [l EXCEPT !.media = m] \in Locals
         /\ \A b \in BOOLEAN : [l EXCEPT !.near = b] \in Locals
         /\ \A g \in Generations \cup {NoGen} : [l EXCEPT !.gen = g] \in Locals
         /\ \A x \in States : [l EXCEPT !.was = x] \in Locals
  BY DEF Locals

\* The tasks, the lock and the loop have their types in the next state.
Moved ==
  /\ task' \in [Tasks -> Locals]
  /\ lock' \in LockType(Tasks)
  /\ loop' \in Tasks \cup {NoTask}

\* However a task suspends, they do.
LEMMA SuspendMoves ==
  ASSUME NEW t \in Tasks, NEW l \in Locals, NEW ts \in [Tasks -> Locals],
         NEW lk \in LockType(Tasks),
         Suspend(t, l, ts, lk) \/ Acquire(t, l, ts, lk)
  PROVE  Moved
  BY SMTT(30), LockTypes DEF Suspend, Acquire, Moved

\* Returning out of a section moves tasks and lock within their types.
LEMMA FinishMoves ==
  ASSUME TypeOK, NEW t \in Tasks, NEW ts \in [Tasks -> Locals], Finish(t, ts)
  PROVE  Moved
  BY SuspendMoves, LockTypes, LocalsTypes DEF Finish, TypeOK

\* So does the tail that cancels the play monitor.
LEMMA TailMoves ==
  ASSUME TypeOK, NEW t \in Tasks, FinishAndCancelCheck(t)
  PROVE  Moved
  BY SuspendMoves, LockTypes, LocalsTypes, CancelledType
  DEF FinishAndCancelCheck, TypeOK

\* So does the end of the first section of play().
LEMMA ReleaseMoves ==
  ASSUME NEW t \in Tasks, NEW l \in Locals, NEW ts \in [Tasks -> Locals],
         NEW lk \in LockType(Tasks), ReleaseFirst(t, l, ts, lk)
  PROVE  Moved
  <1>1. "play_notify" \in Pcs /\ "play_lock" \in Pcs
    BY DEF Pcs, PlayPcs
  <1>. QED BY <1>1, SuspendMoves, LockTypes, LocalsUpdates DEF ReleaseFirst

\* What a call of the speaker may leave is a state of the speaker.
LEMMA SpeakerTypes ==
  ASSUME TypeOK
  PROVE  /\ Stopped \in SpeakerType
         /\ Paused \in SpeakerType
         /\ \A m \in Media : Speaking(m) \in SpeakerType
         /\ \A x : Landed(x) \in SpeakerType
         /\ \A s \in SpeakerType : Settled(s) \in SpeakerType /\ Raised(s) \in SpeakerType
  <1>1. Stopped \in SpeakerType /\ Paused \in SpeakerType
    BY DEF TypeOK, SpeakerType, Stopped, Paused
  <1>2. \A m \in Media : Speaking(m) \in SpeakerType
    BY DEF TypeOK, SpeakerType, Speaking
  <1>3. ASSUME NEW x PROVE Landed(x) \in SpeakerType
    <2>1. CASE x \notin Tasks
      BY <2>1 DEF Landed, TypeOK
    <2>2. CASE x \in Tasks
      <3>1. task[x].media \in Media
        BY <2>2 DEF TypeOK, Locals
      <3>. QED BY <2>2, <3>1, <1>1, <1>2 DEF Landed, TypeOK
    <2>. QED BY <2>1, <2>2
  <1>4. \A s \in SpeakerType : Settled(s) \in SpeakerType /\ Raised(s) \in SpeakerType
    BY DEF SpeakerType, Settled, Raised
  <1>. QED BY <1>1, <1>2, <1>3, <1>4

\* The speaker has been told to play m, and nothing else since.
Plays(m) == spk.media = m /\ spk.mode = "playing"

\* What those calls leave of the media, the mode and the exceptions before them.
LEMMA SpeakerFields ==
  ASSUME TypeOK
  PROVE  /\ Stopped.raised = spk.raised /\ Paused.raised = spk.raised
         /\ \A m : /\ Speaking(m).media = m /\ Speaking(m).mode = "playing"
                   /\ Speaking(m).raised = spk.raised
         /\ \A x : Landed(x).raised = spk.raised
         /\ \A s \in SpeakerType :
              /\ Settled(s).media = s.media /\ Settled(s).mode = s.mode
              /\ ~Settled(s).raised /\ Raised(s).raised
  <1>1. /\ Stopped.raised = spk.raised /\ Paused.raised = spk.raised
        /\ \A m : /\ Speaking(m).media = m /\ Speaking(m).mode = "playing"
                  /\ Speaking(m).raised = spk.raised
    BY DEF TypeOK, SpeakerType, Stopped, Paused, Speaking
  <1>2. \A x : Landed(x).raised = spk.raised
    BY <1>1 DEF Landed
  <1>3. \A s \in SpeakerType :
              /\ Settled(s).media = s.media /\ Settled(s).mode = s.mode
              /\ ~Settled(s).raised /\ Raised(s).raised
    BY DEF SpeakerType, Settled, Raised
  <1>. QED BY <1>1, <1>2, <1>3

-----------------------------------------------------------------------------
(* Type correctness.                                                       *)

\* The initial state is well typed.
LEMMA InitType == Init => TypeOK
  BY GenerationAssumption
  DEF Init, TypeOK, RendererType, SpeakerType, States, Media, LockType, FreeLock,
      Idle, Locals, Pcs

\* Entering next_track() moves tasks and lock within their types.
LEMMA NextTrackMoves ==
  ASSUME TypeOK, NEW t \in Tasks, NEW g \in Generations \cup {NoGen},
         NextTrack(t, g)
  PROVE  Moved
  <1>1. "next_stop" \in Pcs /\ "next_mark" \in Pcs
    BY DEF Pcs, SwitchPcs, NoNextPcs
  <1>. QED BY <1>1, SuspendMoves, LocalsTypes, LocalsUpdates DEF NextTrack, TypeOK

\* What a task does after an await keeps the types.
LEMMA StepType ==
  ASSUME TypeOK, NEW t \in Tasks, Step(t)
  PROVE  TypeOK'
  <1>. DEFINE l == task[t]
  <1>a. l \in Locals /\ l.media \in Media /\ l.gen \in Generations \cup {NoGen}
    BY DEF TypeOK, Locals
  <1>b. r \in RendererType /\ task \in [Tasks -> Locals] /\ spk \in SpeakerType
        /\ lock \in LockType(Tasks) /\ loop \in Tasks \cup {NoTask}
    BY DEF TypeOK
  <1>c. /\ r.uri \in Media /\ r.next \in Media
        /\ r.transport \in States /\ NoUri \in Media
    BY <1>b DEF RendererType, Media
  <1>. USE <1>a, <1>b, <1>c
  <1>1. CASE SetUriBody(t)
    <2>1. Moved
      BY <1>1, FinishMoves
      DEF SetUriBody
    <2>2. r' \in RendererType
      <3>. DEFINE b == task[t].media \in TimedUris
      <3>1. Bumped \in Generations
        BY <1>1 DEF SetUriBody, Bumped, Fresh
      <3>2. b \in BOOLEAN
        OBVIOUS
      <3>3. r' = [r EXCEPT !.gen = Bumped, !.uri = task[t].media,
                           !.transport = "STOPPED", !.start = FALSE,
                           !.acc = FALSE, !.dur = b]
        BY <1>1 DEF SetUriBody
      <3>. HIDE DEF b
      <3>. QED BY <3>1, <3>2, <3>3 DEF RendererType, States
    <2>. QED BY <1>1, <2>1, <2>2 DEF TypeOK, Moved, SetUriBody
  <1>2. CASE PlayNoUri(t)
    <2>1. Moved
      BY <1>2, FinishMoves
      DEF PlayNoUri
    <2>. QED BY <1>2, <2>1 DEF TypeOK, Moved, PlayNoUri
  <1>3. CASE PlayBegin(t)
    <2>1. Moved
      BY <1>3, ReleaseMoves, SuspendMoves, LocalsTypes, LocalsUpdates, LockTypes,
         CancelledType
      DEF PlayBegin, Pcs, PlayPcs, SeekPcs, SwitchPcs, NoNextPcs
    <2>2. r' \in RendererType
      <3>. DEFINE rr == [r EXCEPT !.check = NoTask, !.transport = "TRANSITIONING",
                                  !.userStopped = FALSE, !.stuck = FALSE]
      <3>1. rr \in RendererType
        BY DEF RendererType, States
      <3>2. Announced(rr) \in RendererType
        <4>. HIDE DEF rr
        <4>1. CASE NeedsTranscode
          BY <4>1, <3>1 DEF Announced, RendererType, States
        <4>2. CASE ~NeedsTranscode
          BY <4>2, <3>1 DEF Announced
        <4>. QED BY <4>1, <4>2
      <3>3. r' = rr \/ r' = Announced(rr)
        BY <1>3 DEF PlayBegin
      <3>. QED BY <3>1, <3>2, <3>3
    <2>. QED BY <1>3, <2>1, <2>2 DEF TypeOK, Moved, PlayBegin
  <1>4. CASE PlaySeekReady(t)
    <2>1. Moved
      BY <1>4, ReleaseMoves, LockTypes
      DEF PlaySeekReady
    <2>2. r' \in RendererType
      BY <1>4
      DEF PlaySeekReady, Announced, RendererType, States, Media
    <2>. QED BY <1>4, <2>1, <2>2 DEF TypeOK, Moved, PlaySeekReady
  <1>5. CASE PlayNotified(t)
    <2>1. Moved
      BY <1>5, SuspendMoves, LocalsTypes, LocalsUpdates, LockTypes, CancelledType
      DEF PlayNotified, Pcs, PlayPcs, SeekPcs, SwitchPcs, NoNextPcs
    <2>. QED BY <1>5, <2>1 DEF TypeOK, Moved, PlayNotified
  <1>6. CASE PlayCall(t)
    <2>1. Moved
      BY <1>6, SuspendMoves, LocalsTypes, LocalsUpdates, LockTypes, CancelledType
      DEF PlayCall, Pcs, PlayPcs, SeekPcs, SwitchPcs, NoNextPcs
    <2>. QED BY <1>6, <2>1 DEF TypeOK, Moved, PlayCall
  <1>7. CASE PlaySucceeds(t)
    <2>1. Moved
      BY <1>7, FinishMoves, LocalsTypes, LocalsUpdates, LockTypes, CancelledType
      DEF PlaySucceeds, Spawned, Done, Pcs, PlayPcs, SeekPcs, SwitchPcs, NoNextPcs
    <2>2. r' \in RendererType
      BY ZenonT(60), <1>7
      DEF PlaySucceeds, RendererType, States, Media, Done
    <2>3. spk' \in SpeakerType
      BY <1>7, SpeakerTypes
      DEF PlaySucceeds
    <2>. QED BY <1>7, <2>1, <2>2, <2>3 DEF TypeOK, Moved
  <1>8. CASE PlayFails(t)
    <2>1. Moved
      BY <1>8, FinishMoves
      DEF PlayFails
    <2>2. r' \in RendererType
      BY <1>8
      DEF PlayFails, RendererType, States, Media
    <2>. QED BY <1>8, <2>1, <2>2 DEF TypeOK, Moved, PlayFails
  <1>9. CASE PlayRaises(t)
    <2>1. Moved
      BY <1>9, FinishMoves
      DEF PlayRaises
    <2>3. spk' \in SpeakerType
      BY <1>9, SpeakerTypes
      DEF PlayRaises
    <2>. QED BY <1>9, <2>1, <2>3 DEF TypeOK, Moved, PlayRaises
  <1>10. CASE PauseCall(t)
    <2>1. Moved
      BY <1>10, SuspendMoves, LocalsTypes, LocalsUpdates, LockTypes, CancelledType
      DEF PauseCall, CallSpeaker, Pcs, PlayPcs, SeekPcs, SwitchPcs, NoNextPcs
    <2>. QED BY <1>10, <2>1 DEF TypeOK, Moved, PauseCall, CallSpeaker
  <1>11. CASE PauseDone(t)
    <2>1. Moved
      BY <1>11, TailMoves
      DEF PauseDone
    <2>2. r' \in RendererType
      <3>1. (r.acc \/ r.start) \in BOOLEAN
        OBVIOUS
      <3>. HIDE DEF l
      <3>. QED BY ZenonT(60), <1>11, <3>1 DEF PauseDone, RendererType, States
    <2>3. spk' \in SpeakerType
      BY <1>11, SpeakerTypes
      DEF PauseDone
    <2>. QED BY <1>11, <2>1, <2>2, <2>3 DEF TypeOK, Moved
  <1>12. CASE StopCall(t)
    <2>1. Moved
      BY <1>12, SuspendMoves, LocalsTypes, LocalsUpdates, LockTypes, CancelledType
      DEF StopCall, CallSpeaker, Pcs, PlayPcs, SeekPcs, SwitchPcs, NoNextPcs
    <2>. QED BY <1>12, <2>1 DEF TypeOK, Moved, StopCall, CallSpeaker
  <1>13. CASE StopDone(t)
    <2>1. Moved
      BY <1>13, TailMoves
      DEF StopDone
    <2>2. r' \in RendererType
      BY <1>13
      DEF StopDone, RendererType, States, Media
    <2>3. spk' \in SpeakerType
      BY <1>13, SpeakerTypes
      DEF StopDone
    <2>. QED BY <1>13, <2>1, <2>2, <2>3 DEF TypeOK, Moved
  <1>14. CASE ResetBody(t)
    <2>1. Moved
      BY <1>14, TailMoves, FinishMoves, LocalsTypes, LocalsUpdates, LockTypes, CancelledType
      DEF ResetBody
    <2>2. r' \in RendererType
      BY ZenonT(60), <1>14
      DEF ResetBody, RendererType, States, Media
    <2>. QED BY <1>14, <2>1, <2>2 DEF TypeOK, Moved, ResetBody
  <1>15. CASE SeekRead(t)
    <2>1. Moved
      BY <1>15, SuspendMoves, LocalsTypes, LocalsUpdates, LockTypes, CancelledType
      DEF SeekRead, Pcs, PlayPcs, SeekPcs, SwitchPcs, NoNextPcs
    <2>. QED BY <1>15, <2>1 DEF TypeOK, Moved, SeekRead
  <1>16. CASE SeekPrepared(t)
    <2>1. Moved
      BY <1>16, SuspendMoves, LocalsTypes, LocalsUpdates, LockTypes, CancelledType
      DEF SeekPrepared, Pcs, PlayPcs, SeekPcs, SwitchPcs, NoNextPcs
    <2>. QED BY <1>16, <2>1 DEF TypeOK, Moved, SeekPrepared
  <1>17. CASE SeekSoft(t)
    <2>1. Moved
      BY <1>17, FinishMoves
      DEF SeekSoft
    <2>2. r' \in RendererType
      BY ZenonT(60), <1>17
      DEF SeekSoft, RendererType, States, Media
    <2>. QED BY <1>17, <2>1, <2>2 DEF TypeOK, Moved, SeekSoft
  <1>18. CASE SeekBegin(t)
    <2>1. Moved
      BY <1>18, SuspendMoves, LocalsTypes, LocalsUpdates, LockTypes, CancelledType
      DEF SeekBegin, Pcs, PlayPcs, SeekPcs, SwitchPcs, NoNextPcs
    <2>2. r' \in RendererType
      BY <1>18
      DEF SeekBegin, RendererType, States, Media
    <2>. QED BY <1>18, <2>1, <2>2 DEF TypeOK, Moved, SeekBegin
  <1>19. CASE SeekStopped(t)
    <2>1. Moved
      BY <1>19, SuspendMoves, LocalsTypes, LocalsUpdates, LockTypes, CancelledType
      DEF SeekStopped, Pcs, PlayPcs, SeekPcs, SwitchPcs, NoNextPcs
    <2>3. spk' \in SpeakerType
      BY <1>19, SpeakerTypes
      DEF SeekStopped
    <2>. QED BY <1>19, <2>1, <2>3 DEF TypeOK, Moved, SeekStopped
  <1>20. CASE SeekSucceeds(t)
    <2>1. Moved
      BY <1>20, SuspendMoves, FinishMoves, LocalsTypes, LocalsUpdates, LockTypes,
         CancelledType
      DEF SeekSucceeds, Pcs, PlayPcs, SeekPcs, SwitchPcs, NoNextPcs
    <2>2. r' \in RendererType
      <3>1. PICK later \in BOOLEAN :
              r' \in {[r EXCEPT !.acc = later],
                      [r EXCEPT !.acc = later, !.start = TRUE,
                                !.transport = "PLAYING"]}
        BY <1>20 DEF SeekSucceeds
      <3>. QED BY ZenonT(60), <3>1 DEF RendererType, States
    <2>3. spk' \in SpeakerType
      BY <1>20, SpeakerTypes
      DEF SeekSucceeds
    <2>. QED BY <1>20, <2>1, <2>2, <2>3 DEF TypeOK, Moved
  <1>21. CASE SeekPaused(t)
    <2>1. Moved
      BY <1>21, FinishMoves
      DEF SeekPaused
    <2>2. r' \in RendererType
      BY <1>21
      DEF SeekPaused, RendererType, States, Media
    <2>3. spk' \in SpeakerType
      BY <1>21, SpeakerTypes
      DEF SeekPaused
    <2>. QED BY <1>21, <2>1, <2>2, <2>3 DEF TypeOK, Moved
  <1>22. CASE SeekFails(t)
    <2>1. Moved
      BY <1>22, FinishMoves
      DEF SeekFails
    <2>2. r' \in RendererType
      BY <1>22
      DEF SeekFails, RendererType, States, Media
    <2>. QED BY <1>22, <2>1, <2>2 DEF TypeOK, Moved, SeekFails
  <1>23. CASE SeekRaises(t)
    <2>1. Moved
      BY <1>23, FinishMoves
      DEF SeekRaises
    <2>2. spk' \in SpeakerType
      BY <1>23, SpeakerTypes DEF SeekRaises
    <2>. QED BY <1>23, <2>1, <2>2 DEF TypeOK, Moved, SeekRaises
  <1>24. CASE NextStopped(t)
    <2>1. Moved
      BY <1>24, SuspendMoves, LocalsTypes, LocalsUpdates, LockTypes, CancelledType
      DEF NextStopped, Pcs, PlayPcs, SeekPcs, SwitchPcs, NoNextPcs
    <2>3. spk' \in SpeakerType
      BY <1>24, SpeakerTypes
      DEF NextStopped
    <2>. QED BY <1>24, <2>1, <2>3 DEF TypeOK, Moved, NextStopped
  <1>25. CASE NextSwitch(t)
    <2>1. Moved
      BY <1>25, SuspendMoves, LocalsTypes, LocalsUpdates, LockTypes, CancelledType
      DEF NextSwitch, Pcs, PlayPcs, SeekPcs, SwitchPcs, NoNextPcs
    <2>2. r' \in RendererType
      <3>. DEFINE b == r.next \in TimedUris
      <3>1. Bumped \in Generations
        BY <1>25 DEF NextSwitch, Bumped, Fresh
      <3>2. b \in BOOLEAN
        OBVIOUS
      <3>3. r' = [r EXCEPT !.uri = r.next, !.gen = Bumped, !.next = NoUri,
                           !.acc = FALSE, !.dur = b]
        BY <1>25 DEF NextSwitch
      <3>. HIDE DEF b
      <3>. QED BY <3>1, <3>2, <3>3 DEF RendererType, States
    <2>. QED BY <1>25, <2>1, <2>2 DEF TypeOK, Moved, NextSwitch
  <1>26. CASE NextTransitioning(t)
    <2>1. Moved
      BY <1>26, SuspendMoves, LocalsTypes, LocalsUpdates, LockTypes, CancelledType
      DEF NextTransitioning, Pcs, PlayPcs, SeekPcs, SwitchPcs, NoNextPcs
    <2>2. r' \in RendererType
      BY <1>26
      DEF NextTransitioning, RendererType, States, Media
    <2>. QED BY <1>26, <2>1, <2>2 DEF TypeOK, Moved, NextTransitioning
  <1>27. CASE NextCalled(t)
    <2>1. Moved
      BY <1>27, SuspendMoves, LocalsTypes, LocalsUpdates, LockTypes, CancelledType
      DEF NextCalled, Pcs, PlayPcs, SeekPcs, SwitchPcs, NoNextPcs
    <2>3. spk' \in SpeakerType
      BY <1>27, SpeakerTypes
      DEF NextCalled
    <2>. QED BY <1>27, <2>1, <2>3 DEF TypeOK, Moved, NextCalled
  <1>28. CASE NextSucceeds(t)
    <2>1. Moved
      BY <1>28, SuspendMoves, LocalsTypes, LocalsUpdates, LockTypes, CancelledType
      DEF NextSucceeds, Spawned, Done, Pcs, PlayPcs, SeekPcs, SwitchPcs, NoNextPcs
    <2>2. r' \in RendererType
      BY ZenonT(60), <1>28
      DEF NextSucceeds, RendererType, States, Media, Done
    <2>3. spk' \in SpeakerType
      BY <1>28, SpeakerTypes DEF NextSucceeds
    <2>. QED BY <1>28, <2>1, <2>2, <2>3 DEF TypeOK, Moved, NextSucceeds
  <1>29. CASE NextFails(t)
    <2>1. Moved
      BY <1>29, FinishMoves
      DEF NextFails
    <2>2. r' \in RendererType
      BY <1>29
      DEF NextFails, RendererType, States, Media
    <2>. QED BY <1>29, <2>1, <2>2 DEF TypeOK, Moved, NextFails
  <1>30. CASE NextRaises(t)
    <2>1. Moved
      BY <1>30, SuspendMoves, LocalsTypes, LocalsUpdates, LockTypes, CancelledType
      DEF NextRaises, Pcs, PlayPcs, SeekPcs, SwitchPcs, NoNextPcs
    <2>3. spk' \in SpeakerType
      BY <1>30, SpeakerTypes
      DEF NextRaises
    <2>. QED BY <1>30, <2>1, <2>3 DEF TypeOK, Moved, NextRaises
  <1>31. CASE NextMark(t)
    <2>1. Moved
      BY <1>31, SuspendMoves, LocalsTypes, LocalsUpdates, LockTypes, CancelledType
      DEF NextMark, Pcs, PlayPcs, SeekPcs, SwitchPcs, NoNextPcs
    <2>2. r' \in RendererType
      BY <1>31
      DEF NextMark, RendererType, States, Media
    <2>. QED BY <1>31, <2>1, <2>2 DEF TypeOK, Moved, NextMark
  <1>32. CASE NextWakes(t)
    <2>1. Moved
      BY <1>32, NextTrackMoves
      DEF NextWakes
    <2>. QED BY <1>32, <2>1 DEF TypeOK, Moved, NextWakes
  <1>33. CASE NextGivesUp(t)
    <2>1. Moved
      BY <1>33, SuspendMoves, LocalsTypes, LocalsUpdates, LockTypes, CancelledType
      DEF NextGivesUp, Pcs, PlayPcs, SeekPcs, SwitchPcs, NoNextPcs
    <2>. QED BY <1>33, <2>1 DEF TypeOK, Moved, NextGivesUp
  <1>34. CASE EndStopped(t)
    <2>1. Moved
      BY <1>34, SuspendMoves, LocalsTypes, LocalsUpdates, LockTypes, CancelledType
      DEF EndStopped, Pcs, PlayPcs, SeekPcs, SwitchPcs, NoNextPcs
    <2>3. spk' \in SpeakerType
      BY <1>34, SpeakerTypes
      DEF EndStopped
    <2>. QED BY <1>34, <2>1, <2>3 DEF TypeOK, Moved, EndStopped
  <1>35. CASE EndSlept(t)
    <2>1. Moved
      BY <1>35, SuspendMoves, LocalsTypes, LocalsUpdates, LockTypes, CancelledType
      DEF EndSlept, Pcs, PlayPcs, SeekPcs, SwitchPcs, NoNextPcs
    <2>. QED BY <1>35, <2>1 DEF TypeOK, Moved, EndSlept
  <1>36. CASE EndOfTrack(t)
    <2>1. Moved
      BY <1>36, TailMoves
      DEF EndOfTrack
    <2>2. r' \in RendererType
      BY ZenonT(60), <1>36
      DEF EndOfTrack, RendererType, States, Media
    <2>. QED BY <1>36, <2>1, <2>2 DEF TypeOK, Moved, EndOfTrack
  <1>37. CASE AutoStart(t)
    <2>1. Moved
      BY <1>37, NextTrackMoves
      DEF AutoStart
    <2>. QED BY <1>37, <2>1 DEF TypeOK, Moved, AutoStart
  <1>38. CASE PreviousBody(t)
    <2>1. Moved
      BY <1>38, SuspendMoves, LocalsTypes, LocalsUpdates, LockTypes, CancelledType
      DEF PreviousBody, Pcs, PlayPcs, SeekPcs, SwitchPcs, NoNextPcs
    <2>2. r' \in RendererType
      BY <1>38
      DEF PreviousBody, RendererType, States, Media
    <2>. QED BY <1>38, <2>1, <2>2 DEF TypeOK, Moved, PreviousBody
  <1>39. CASE PreviousDone(t)
    <2>1. Moved
      BY <1>39, SuspendMoves, LocalsTypes, LocalsUpdates, LockTypes, CancelledType
      DEF PreviousDone, Pcs, PlayPcs, SeekPcs, SwitchPcs, NoNextPcs
    <2>3. spk' \in SpeakerType
      BY <1>39, SpeakerTypes
      DEF PreviousDone
    <2>. QED BY <1>39, <2>1, <2>3 DEF TypeOK, Moved, PreviousDone
  <1>40. CASE CheckWakes(t)
    <2>1. Moved
      BY <1>40, SuspendMoves, LocalsTypes, LocalsUpdates, LockTypes, CancelledType
      DEF CheckWakes, Pcs, PlayPcs, SeekPcs, SwitchPcs, NoNextPcs
    <2>. QED BY <1>40, <2>1 DEF TypeOK, Moved, CheckWakes
  <1>41. CASE CheckEnds(t)
    <2>1. Moved
      BY <1>41, FinishMoves
      DEF CheckEnds
    <2>. QED BY <1>41, <2>1 DEF TypeOK, Moved, CheckEnds
  <1>42. CASE CheckAgain(t)
    <2>1. Moved
      BY <1>42, SuspendMoves, LocalsTypes, LocalsUpdates, LockTypes, CancelledType
      DEF CheckAgain, Pcs, PlayPcs, SeekPcs, SwitchPcs, NoNextPcs
    <2>. QED BY <1>42, <2>1 DEF TypeOK, Moved, CheckAgain
  <1>43. CASE CheckSpawnsNext(t)
    <2>1. Moved
      <3>1. PICK a \in Done(Autos) :
              Finish(t, Spawned(task, a, [At("auto_start") EXCEPT !.gen = r.gen]))
        BY <1>43 DEF CheckSpawnsNext
      <3>2. [At("auto_start") EXCEPT !.gen = r.gen] \in Locals
        <4>1. "auto_start" \in Pcs
          BY DEF Pcs
        <4>2. r.gen \in Generations \cup {NoGen}
          BY DEF RendererType
        <4>. QED BY <4>1, <4>2, LocalsTypes, LocalsUpdates
      <3>3. Spawned(task, a, [At("auto_start") EXCEPT !.gen = r.gen])
              \in [Tasks -> Locals]
        BY <3>2 DEF Spawned
      <3>. QED BY <3>1, <3>3, FinishMoves
    <2>2. r' \in RendererType
      BY <1>43
      DEF CheckSpawnsNext, RendererType, States, Media, Done
    <2>. QED BY <1>43, <2>1, <2>2 DEF TypeOK, Moved, CheckSpawnsNext
  <1>. QED BY <1>1, <1>2, <1>3, <1>4, <1>5, <1>6, <1>7, <1>8, <1>9, <1>10, <1>11, <1>12,
       <1>13, <1>14, <1>15, <1>16, <1>17, <1>18, <1>19, <1>20, <1>21, <1>22, <1>23, <1>24,
       <1>25, <1>26, <1>27, <1>28, <1>29, <1>30, <1>31, <1>32, <1>33, <1>34, <1>35, <1>36,
       <1>37, <1>38, <1>39, <1>40, <1>41, <1>42, <1>43 DEF Step

\* A command that arrives keeps the types.
LEMMA CommandType ==
  ASSUME TypeOK, NEW t \in Soap \cup Background,
         Command(t) \/ IdleReset(t) \/ AutomaticPlay(t)
  PROVE  TypeOK'
  <1>. t \in Tasks
    BY DEF Tasks
  <1>1. ASSUME NEW l \in Locals, CancelAutoNextAndAcquire(t, l)
        PROVE  TypeOK'
    <2>1. Moved
      BY <1>1, SuspendMoves, LockTypes, CancelledType
      DEF CancelAutoNextAndAcquire, TypeOK
    <2>2. r' \in RendererType
      BY <1>1 DEF CancelAutoNextAndAcquire, TypeOK, RendererType
    <2>3. spk' \in SpeakerType
      BY <1>1, SpeakerTypes DEF CancelAutoNextAndAcquire, TypeOK
    <2>. QED BY <2>1, <2>2, <2>3 DEF TypeOK, Moved
  <1>2. ASSUME NEW l \in Locals, Acquire(t, l, task, lock), UNCHANGED <<r, spk>>
        PROVE  TypeOK'
    <2>1. Moved
      BY <1>2, SuspendMoves DEF TypeOK
    <2>. QED BY <1>2, <2>1 DEF TypeOK, Moved
  <1>3. ASSUME NEW u \in Media, SetUri(t, u)
        PROVE  TypeOK'
    <2>1. [At("set_uri") EXCEPT !.media = u] \in Locals
      BY LocalsTypes, LocalsUpdates DEF Pcs
    <2>. QED BY <1>1, <1>3, <2>1 DEF SetUri
  <1>4. CASE Play(t) \/ Pause(t) \/ Stop(t) \/ Reset(t)
    <2>1. \A pc \in {"play", "pause", "stop", "reset"} : At(pc) \in Locals
      BY LocalsTypes DEF Pcs, PlayPcs
    <2>. QED BY <1>1, <1>4, <2>1 DEF Play, Pause, Stop, Reset
  <1>5. CASE Seek(t)
    <2>1. At("seek_lock") \in Locals /\ At("seek_read") \in Locals
      BY LocalsTypes DEF Pcs, SeekPcs
    <2>. QED BY <1>2, <1>5, <2>1 DEF Seek
  <1>6. CASE Previous(t)
    <2>1. At("prev") \in Locals
      BY LocalsTypes DEF Pcs
    <2>. QED BY <1>2, <1>6, <2>1 DEF Previous
  <1>7. CASE Next_(t)
    BY <1>7, NextTrackMoves DEF Next_, TypeOK, Moved
  <1>. QED BY <1>3, <1>4, <1>5, <1>6, <1>7 DEF Command, IdleReset, AutomaticPlay

\* The types of all variables are kept for ever: what each field of the
\* renderer and each local variable of a suspended task can hold.
THEOREM TypeCorrect == Spec => []TypeOK
  <1>1. ASSUME NEW u \in Media, SetNext(u), TypeOK
        PROVE  TypeOK'
    BY <1>1 DEF SetNext, TypeOK, RendererType
  <1>2. TypeOK /\ [Next]_vars => TypeOK'
    <2>. SUFFICES ASSUME TypeOK, [Next]_vars PROVE TypeOK'
      OBVIOUS
    <2>1. CASE SoapStep
      BY <2>1, <1>1, CommandType DEF SoapStep, Media
    <2>2. CASE RunTask
      BY <2>2, StepType DEF RunTask
    <2>3. CASE AppStep
      BY <2>3, CommandType DEF AppStep
    <2>4. CASE UNCHANGED vars
      BY <2>4 DEF vars, TypeOK
    <2>. QED BY <2>1, <2>2, <2>3, <2>4 DEF Next
  <1>. QED BY InitType, <1>2, PTL DEF Spec

-----------------------------------------------------------------------------
(* The lock discipline, cancellations included, and TRANSITIONING held.    *)

CheckPcs == {"idle", "chk_sleep", "chk_lock"}
\* Where TransitioningHeld speaks about a task.
TransPcs == {"play_seek", "seek_stop", "seek_call", "seek_pause"}

\* TransitioningHeld is not inductive: that the state does not move under a
\* task needs that nobody else is inside a section, which is LockInv.
IInv == TypeOK /\ LockInv /\ MonitorPcs /\ TransitioningHeld

\* Tasks ts and lock lk on the way to the next state: consistent, and only
\* tasks that want nothing of the lock have changed.
Base(ts, lk) ==
  /\ ts \in [Tasks -> Locals]
  /\ Consistent(ts, lk)
  /\ \A y \in Tasks : ts[y] = task[y] \/ ts[y].pc \notin QueuePcs
  /\ \A c \in Checks : ts[c].pc \in CheckPcs

\* The next state after a step that takes t to pc.
After(t, pc) ==
  /\ LockInv' /\ MonitorPcs'
  /\ task'[t].pc = pc
  /\ \A y \in Tasks \ {t} : task'[y] = task[y] \/ task'[y].pc \notin QueuePcs

-----------------------------------------------------------------------------
(* The bases steps start from.                                             *)

\* The state itself is a base.
LEMMA BaseTask == IInv => Base(task, lock)
  BY DEF IInv, Base, TypeOK, LockInv, MonitorPcs, CheckPcs

\* Cancelling a task, wherever it is, leaves a base.
LEMMA BaseCancelled ==
  ASSUME IInv, NEW x
  PROVE  Base(Cancelled(x), Leave(lock, x))
  <1>. DEFINE ts == Cancelled(x)
              lk == Leave(lock, x)
  <1>1. ts \in [Tasks -> Locals]
    BY CancelledType DEF IInv
  <1>2. \A y \in Tasks : ts[y] = IF y = x THEN Idle ELSE task[y]
    BY DEF Cancelled
  <1>3. Idle.pc \notin QueuePcs /\ Idle.pc \in CheckPcs /\ Idle.pc \notin HeldPcs
    BY LocalsTypes DEF QueuePcs, HeldPcs, CheckPcs
  <1>4. Queue(lk, Tasks)
    BY LeaveQueue DEF IInv, LockInv, Consistent
  <1>5. \A t \in Tasks : t \in lk.queued <=> ts[t].pc \in QueuePcs
    BY <1>2, <1>3, QueuedAfter DEF IInv, LockInv, Consistent
  <1>6. ASSUME NEW t \in Tasks, ts[t].pc \in HeldPcs
        PROVE  Owns(lk, t)
    <2>1. t # x /\ task[t].pc \in HeldPcs
      BY <1>2, <1>3, <1>6
    <2>2. Owns(lock, t)
      BY <2>1 DEF IInv, LockInv, Consistent
    <2>. QED BY <2>1, <2>2, OwnerStays DEF IInv, LockInv, Consistent
  <1>7. \A c \in Checks : ts[c].pc \in CheckPcs
    BY <1>2, <1>3 DEF IInv, MonitorPcs, CheckPcs, Tasks
  <1>. HIDE DEF ts, lk
  <1>8. Base(ts, lk)
    BY <1>1, <1>2, <1>3, <1>4, <1>5, <1>6, <1>7 DEF Base, Consistent
  <1>. QED BY <1>8 DEF ts, lk

\* So does creating a task that has not asked for the lock.
LEMMA BaseSpawned ==
  ASSUME NEW ts, NEW lk, Base(ts, lk), NEW c \in Tasks, NEW l \in Locals,
         ts[c].pc \notin QueuePcs, l.pc \notin QueuePcs \cup HeldPcs,
         c \in Checks => l.pc \in CheckPcs
  PROVE  Base(Spawned(ts, c, l), lk)
  <1>. DEFINE us == Spawned(ts, c, l)
  <1>1. us \in [Tasks -> Locals]
    BY DEF Spawned, Base
  <1>2. \A y \in Tasks : us[y] = IF y = c THEN l ELSE ts[y]
    BY DEF Spawned, Base
  <1>. HIDE DEF us
  <1>3. Base(us, lk)
    BY <1>1, <1>2 DEF Base, Consistent, Tasks
  <1>. QED BY <1>3 DEF us

-----------------------------------------------------------------------------
(* The shapes of a step of t.                                              *)

\* t gives the lock back, or is not queued at all, and suspends elsewhere.
LEMMA Leaves ==
  ASSUME NEW ts, NEW lk, Base(ts, lk), NEW t \in Tasks, NEW l \in Locals,
         NEW pc, l.pc = pc,
         pc \notin QueuePcs \cup HeldPcs, t \in Checks => pc \in CheckPcs,
         Suspend(t, l, ts, Leave(lk, t))
  PROVE  After(t, pc)
  <1>1. \A y \in Tasks : task'[y] = IF y = t THEN l ELSE ts[y]
    BY DEF Suspend, Base
  <1>2. Queue(lock', Tasks)
    BY LeaveQueue DEF Suspend, Base, Consistent
  <1>3. \A y \in Tasks : y \in lock'.queued <=> task'[y].pc \in QueuePcs
    BY <1>1, QueuedAfter DEF Suspend, Base, Consistent
  <1>4. ASSUME NEW y \in Tasks, task'[y].pc \in HeldPcs PROVE Owns(lock', y)
    <2>1. y # t /\ Owns(lk, y)
      BY <1>1, <1>4 DEF Base, Consistent
    <2>. QED BY <2>1, OwnerStays DEF Suspend, Base, Consistent
  <1>5. LockInv'
    BY <1>2, <1>3, <1>4 DEF LockInv, Consistent
  <1>. QED BY <1>1, <1>5 DEF After, MonitorPcs, Base, CheckPcs, Tasks

\* The owner awaits something inside its section.
LEMMA Awaits ==
  ASSUME NEW ts, NEW lk, Base(ts, lk), NEW t \in Tasks \ Checks,
         NEW l \in Locals, NEW pc, l.pc = pc, pc \in QueuePcs, Owns(lk, t),
         Suspend(t, l, ts, lk)
  PROVE  After(t, pc)
  <1>1. \A y \in Tasks : task'[y] = IF y = t THEN l ELSE ts[y]
    BY DEF Suspend, Base
  <1>2. t \in lk.queued
    BY DEF Owns
  <1>3. LockInv'
    BY <1>1, <1>2 DEF LockInv, Consistent, Suspend, Base
  <1>. QED BY <1>1, <1>3 DEF After, MonitorPcs, Base, CheckPcs, Tasks

\* t, which has nothing to do with the lock, asks for it.
LEMMA Acquires ==
  ASSUME NEW ts, NEW lk, Base(ts, lk), NEW t \in Tasks, NEW l \in Locals,
         NEW pc, l.pc = pc, ts[t].pc \notin QueuePcs, pc \in QueuePcs \ HeldPcs,
         t \in Checks => pc \in CheckPcs, Acquire(t, l, ts, lk)
  PROVE  After(t, pc)
  <1>1. \A y \in Tasks : task'[y] = IF y = t THEN l ELSE ts[y]
    BY DEF Acquire, Base
  <1>2. t \notin lk.queued
    BY DEF Base, Consistent
  <1>3. Queue(lock', Tasks)
    BY <1>2, EnqueueQueue DEF Acquire, Base, Consistent
  <1>4. \A y \in Tasks : y \in lock'.queued <=> task'[y].pc \in QueuePcs
    BY <1>1, QueuedAfter DEF Acquire, Base, Consistent
  <1>5. ASSUME NEW y \in Tasks, task'[y].pc \in HeldPcs PROVE Owns(lock', y)
    <2>1. y # t /\ Owns(lk, y)
      BY <1>1, <1>5 DEF Base, Consistent
    <2>. QED BY <2>1, OwnerStays DEF Acquire, Base, Consistent
  <1>6. LockInv'
    BY <1>3, <1>4, <1>5 DEF LockInv, Consistent
  <1>. QED BY <1>1, <1>6 DEF After, MonitorPcs, Base, CheckPcs, Tasks

\* t gives the lock back and asks for it again at once.
LEMMA Reacquires ==
  ASSUME NEW ts, NEW lk, Base(ts, lk), NEW t \in Tasks \ Checks,
         NEW l \in Locals, NEW pc, l.pc = pc, pc \in QueuePcs \ HeldPcs,
         Acquire(t, l, ts, Leave(lk, t))
  PROVE  After(t, pc)
  <1>1. \A y \in Tasks : task'[y] = IF y = t THEN l ELSE ts[y]
    BY DEF Acquire, Base
  <1>2. Queue(Leave(lk, t), Tasks) /\ t \notin Leave(lk, t).queued
    BY LeaveQueue, QueuedAfter DEF Base, Consistent
  <1>3. Queue(lock', Tasks)
    BY <1>2, EnqueueQueue DEF Acquire
  <1>4. \A y \in Tasks : y \in lock'.queued <=> task'[y].pc \in QueuePcs
    BY <1>1, QueuedAfter DEF Acquire, Base, Consistent
  <1>5. ASSUME NEW y \in Tasks, task'[y].pc \in HeldPcs PROVE Owns(lock', y)
    <2>1. y # t /\ Owns(lk, y)
      BY <1>1, <1>5 DEF Base, Consistent
    <2>2. Owns(Leave(lk, t), y)
      BY <2>1, OwnerStays DEF Base, Consistent
    <2>. QED BY <2>1, <2>2, <1>2, OwnerStays DEF Acquire
  <1>6. LockInv'
    BY <1>3, <1>4, <1>5 DEF LockInv, Consistent
  <1>. QED BY <1>1, <1>6 DEF After, MonitorPcs, Base, CheckPcs, Tasks

\* t goes from one await outside the lock to another.
LEMMA Outside ==
  ASSUME NEW ts, NEW lk, Base(ts, lk), NEW t \in Tasks, NEW l \in Locals,
         NEW pc, l.pc = pc, ts[t].pc \notin QueuePcs,
         pc \notin QueuePcs \cup HeldPcs, t \in Checks => pc \in CheckPcs,
         Suspend(t, l, ts, lk)
  PROVE  After(t, pc)
  <1>1. \A y \in Tasks : task'[y] = IF y = t THEN l ELSE ts[y]
    BY DEF Suspend, Base
  <1>2. LockInv'
    BY <1>1 DEF LockInv, Consistent, Suspend, Base
  <1>. QED BY <1>1, <1>2 DEF After, MonitorPcs, Base, CheckPcs, Tasks

-----------------------------------------------------------------------------
(* One step of each action.                                                *)

\* t returns out of its section.
LEMMA FinishAfter ==
  ASSUME NEW ts, Base(ts, lock), NEW t \in Tasks, Finish(t, ts)
  PROVE  After(t, "idle")
  BY Leaves, LocalsTypes DEF Finish, QueuePcs, HeldPcs, CheckPcs

\* t returns out of its section and cancels the play monitor.
LEMMA TailAfter ==
  ASSUME IInv, NEW t \in Tasks, FinishAndCancelCheck(t)
  PROVE  After(t, "idle")
  BY BaseCancelled, Leaves, LocalsTypes
  DEF FinishAndCancelCheck, QueuePcs, HeldPcs, CheckPcs

\* t ends the first section of play().
LEMMA ReleaseAfter ==
  ASSUME NEW ts, NEW lk, Base(ts, lk), NEW t \in Tasks \ Checks,
         NEW l \in Locals, ReleaseFirst(t, l, ts, lk)
  PROVE  After(t, "play_notify") \/ After(t, "play_lock")
  <1>1. \A pc \in {"play_notify", "play_lock"} :
          [l EXCEPT !.pc = pc] \in Locals /\ [l EXCEPT !.pc = pc].pc = pc
    BY LocalsUpdates DEF Pcs, PlayPcs
  <1>2. CASE NeedsTranscode
    BY <1>1, <1>2, Leaves DEF ReleaseFirst, QueuePcs, HeldPcs
  <1>3. CASE ~NeedsTranscode
    BY <1>1, <1>3, Reacquires DEF ReleaseFirst, QueuePcs, HeldPcs
  <1>. QED BY <1>2, <1>3

\* t enters next_track().
LEMMA NextTrackAfter ==
  ASSUME IInv, NEW t \in Tasks \ Checks, task[t].pc \notin QueuePcs,
         NEW g \in Generations \cup {NoGen}, NextTrack(t, g)
  PROVE  After(t, "idle") \/ After(t, "next_stop") \/ After(t, "next_mark")
  <1>. DEFINE m == [At("next_stop") EXCEPT !.gen = g]
              k == [At("next_mark") EXCEPT !.gen = g]
  <1>1. m \in Locals /\ m.pc = "next_stop" /\ k \in Locals /\ k.pc = "next_mark"
    <2>1. \A pc \in {"next_stop", "next_mark"} :
            At(pc) \in Locals /\ At(pc).pc = pc
      BY LocalsTypes DEF Pcs, SwitchPcs, NoNextPcs
    <2>. QED BY <2>1, LocalsUpdates DEF Locals
  <1>2. \/ Suspend(t, Idle, task, lock) \/ Suspend(t, m, task, lock)
        \/ Acquire(t, k, task, lock)
    BY DEF NextTrack
  <1>. HIDE DEF m, k
  <1>. QED BY <1>1, <1>2, BaseTask, Outside, Acquires, LocalsTypes
       DEF QueuePcs, HeldPcs

\* The owner may move the state; nobody else does.
LEMMA Keeps ==
  ASSUME IInv, TypeOK', NEW t \in Tasks, NEW pc, After(t, pc),
         Owns(lock, t) \/ r'.transport = r.transport,
         pc \in TransPcs => r'.transport = "TRANSITIONING"
  PROVE  IInv'
  <1>1. ASSUME NEW y \in Tasks, task'[y].pc \in TransPcs
        PROVE  r'.transport = "TRANSITIONING"
    <2>1. CASE y = t
      BY <1>1, <2>1 DEF After
    <2>2. CASE y # t
      <3>1. task'[y] = task[y] /\ task[y].pc \in TransPcs
        BY <1>1, <2>2 DEF After, TransPcs, QueuePcs
      <3>2. Owns(lock, y) /\ r.transport = "TRANSITIONING"
        BY <3>1
        DEF IInv, LockInv, Consistent, TransitioningHeld, TransPcs, HeldPcs
      <3>3. ~Owns(lock, t)
        BY <2>2, <3>2, OneOwner DEF IInv, LockInv, Consistent
      <3>. QED BY <3>2, <3>3
    <2>. QED BY <2>1, <2>2
  <1>2. TransitioningHeld'
    BY <1>1 DEF TransitioningHeld, TransPcs
  <1>. QED BY <1>2 DEF IInv, After

\* What a task does after an await keeps the inductive invariant.
LEMMA StepKeeps ==
  ASSUME IInv, NEW t \in Tasks, Step(t)
  PROVE  IInv'
  <1>. USE Keeps, BaseTask DEF IInv
  <1>a. TypeOK'
    BY StepType
  <1>b. /\ task[t] \in Locals /\ r.transport \in States /\ r.gen \in Generations
        /\ task[t].gen \in Generations \cup {NoGen}
        /\ task[t].media \in Media /\ r.uri \in Media /\ r.next \in Media
    BY DEF TypeOK, Locals, RendererType, Media
  <1>c. task[t].pc \notin CheckPcs => t \notin Checks
    BY DEF MonitorPcs, CheckPcs
  <1>. USE <1>a, <1>b, <1>c
  <1>1. CASE SetUriBody(t)
    <2>1. After(t, "idle")
      BY <1>1, FinishAfter DEF SetUriBody
    <2>. QED BY <1>1, <2>1 DEF SetUriBody, InSection, TransPcs
  <1>2. CASE PlayNoUri(t)
    <2>1. After(t, "idle")
      BY <1>2, FinishAfter DEF PlayNoUri
    <2>. QED BY <1>2, <2>1 DEF PlayNoUri, InSection, TransPcs
  <1>3. CASE PlayBegin(t)
    <2>. DEFINE m == [At("play_seek") EXCEPT !.media = r.uri]
                ts == Cancelled(r.check)
                lk == Leave(lock, r.check)
    <2>1. Base(ts, lk)
      BY BaseCancelled
    <2>2. m \in Locals /\ m.pc = "play_seek"
      BY LocalsTypes, LocalsUpdates DEF Pcs, PlayPcs, Locals
    <2>3. r.check # t /\ t \notin Checks /\ Owns(lock, t)
      BY <1>3, TasksAssumption
      DEF PlayBegin, InSection, CheckPcs, TypeOK, RendererType
    <2>4. Owns(lk, t)
      BY <2>3, OwnerStays DEF LockInv, Consistent
    <2>. HIDE DEF m, ts, lk
    <2>5. CASE Suspend(t, m, ts, lk) /\ r'.transport = "TRANSITIONING"
      <3>1. After(t, "play_seek")
        BY <2>1, <2>2, <2>3, <2>4, <2>5, Awaits DEF QueuePcs
      <3>. QED BY <3>1, <2>3, <2>5
    <2>6. CASE ReleaseFirst(t, m, ts, lk)
      <3>1. After(t, "play_notify") \/ After(t, "play_lock")
        BY <2>1, <2>2, <2>3, <2>6, ReleaseAfter
      <3>. QED BY <3>1, <2>3 DEF TransPcs
    <2>. QED BY <1>3, <2>5, <2>6
      DEF PlayBegin, m, ts, lk, TypeOK, RendererType
  <1>4. CASE PlaySeekReady(t)
    <2>1. After(t, "play_notify") \/ After(t, "play_lock")
      BY <1>4, ReleaseAfter DEF PlaySeekReady, InSection, CheckPcs
    <2>. QED BY <1>4, <2>1 DEF PlaySeekReady, InSection, TransPcs
  <1>5. CASE PlayNotified(t)
    <2>. DEFINE m == [task[t] EXCEPT !.pc = "play_lock"]
    <2>1. m \in Locals /\ m.pc = "play_lock"
      BY LocalsUpdates DEF Pcs, PlayPcs
    <2>2. Acquire(t, m, task, lock) /\ t \notin Checks
      BY <1>5 DEF PlayNotified, Resumes, CheckPcs
    <2>. HIDE DEF m
    <2>3. After(t, "play_lock")
      BY <1>5, <2>1, <2>2, Acquires DEF PlayNotified, Resumes, QueuePcs, HeldPcs
    <2>. QED BY <1>5, <2>3 DEF PlayNotified, TransPcs
  <1>6. CASE PlayCall(t)
    <2>. DEFINE m == [task[t] EXCEPT !.pc = "play_call"]
    <2>1. m \in Locals /\ m.pc = "play_call"
      BY LocalsUpdates DEF Pcs, PlayPcs
    <2>2. Suspend(t, m, task, lock) /\ t \notin Checks /\ Owns(lock, t)
      BY <1>6 DEF PlayCall, InSection, CheckPcs
    <2>. HIDE DEF m
    <2>3. After(t, "play_call")
      BY <1>6, <2>1, <2>2, Awaits DEF PlayCall, InSection, QueuePcs, HeldPcs
    <2>. QED BY <1>6, <2>3 DEF PlayCall, InSection, TransPcs
  <1>7. CASE PlaySucceeds(t)
    <2>1. PICK c \in Done(Checks) : Finish(t, Spawned(task, c, At("chk_sleep")))
      BY <1>7 DEF PlaySucceeds
    <2>2. Base(Spawned(task, c, At("chk_sleep")), lock)
      <3>1. At("chk_sleep") \in Locals /\ At("chk_sleep").pc = "chk_sleep"
        BY LocalsTypes DEF Pcs
      <3>. QED BY <3>1, <2>1, BaseSpawned
           DEF Done, Tasks, QueuePcs, HeldPcs, CheckPcs
    <2>3. After(t, "idle")
      BY <2>1, <2>2, FinishAfter
    <2>. QED BY <1>7, <2>3 DEF PlaySucceeds, InSection, TransPcs
  <1>8. CASE PlayFails(t)
    <2>1. After(t, "idle")
      BY <1>8, FinishAfter DEF PlayFails
    <2>. QED BY <1>8, <2>1 DEF PlayFails, InSection, TransPcs
  <1>9. CASE PlayRaises(t)
    <2>1. After(t, "idle")
      BY <1>9, FinishAfter DEF PlayRaises
    <2>. QED BY <1>9, <2>1 DEF PlayRaises, InSection, TransPcs
  <1>10. CASE PauseCall(t)
    <2>. DEFINE m == [task[t] EXCEPT !.pc = "pause_call"]
    <2>1. m \in Locals /\ m.pc = "pause_call"
      BY LocalsUpdates DEF Pcs
    <2>2. Suspend(t, m, task, lock) /\ t \notin Checks /\ Owns(lock, t)
      BY <1>10 DEF PauseCall, CallSpeaker, InSection, CheckPcs
    <2>. HIDE DEF m
    <2>3. After(t, "pause_call")
      BY <1>10, <2>1, <2>2, Awaits DEF PauseCall, CallSpeaker, InSection, QueuePcs, HeldPcs
    <2>. QED BY <1>10, <2>3 DEF PauseCall, CallSpeaker, InSection, TransPcs
  <1>11. CASE PauseDone(t)
    <2>1. After(t, "idle")
      BY <1>11, TailAfter DEF PauseDone
    <2>. QED BY <1>11, <2>1 DEF PauseDone, InSection, TransPcs
  <1>12. CASE StopCall(t)
    <2>. DEFINE m == [task[t] EXCEPT !.pc = "stop_call"]
    <2>1. m \in Locals /\ m.pc = "stop_call"
      BY LocalsUpdates DEF Pcs
    <2>2. Suspend(t, m, task, lock) /\ t \notin Checks /\ Owns(lock, t)
      BY <1>12 DEF StopCall, CallSpeaker, InSection, CheckPcs
    <2>. HIDE DEF m
    <2>3. After(t, "stop_call")
      BY <1>12, <2>1, <2>2, Awaits DEF StopCall, CallSpeaker, InSection, QueuePcs, HeldPcs
    <2>. QED BY <1>12, <2>3 DEF StopCall, CallSpeaker, InSection, TransPcs
  <1>13. CASE StopDone(t)
    <2>1. After(t, "idle")
      BY <1>13, TailAfter DEF StopDone
    <2>. QED BY <1>13, <2>1 DEF StopDone, InSection, TransPcs
  <1>14. CASE ResetBody(t)
    <2>1. After(t, "idle")
      BY <1>14, FinishAfter, TailAfter DEF ResetBody
    <2>. QED BY <1>14, <2>1 DEF ResetBody, InSection, TransPcs
  <1>15. CASE SeekRead(t)
    <2>. DEFINE m == [At("seek_prepare") EXCEPT !.media = r.uri]
                k == At("seek_lock")
    <2>1. m \in Locals /\ m.pc = "seek_prepare" /\ k \in Locals /\ k.pc = "seek_lock"
      <3>1. "seek_lock" \in Pcs /\ "seek_prepare" \in Pcs
        BY DEF Pcs, SeekPcs
      <3>. QED BY <3>1, LocalsTypes, LocalsUpdates DEF Locals
    <2>2. t \notin Checks /\ Owns(lock, t)
      BY <1>15 DEF SeekRead, InSection, CheckPcs
    <2>3. \/ Suspend(t, m, task, Leave(lock, t))
          \/ Acquire(t, k, task, Leave(lock, t))
      BY <1>15 DEF SeekRead
    <2>. HIDE DEF m, k
    <2>4. After(t, "seek_prepare") \/ After(t, "seek_lock")
      BY <2>1, <2>2, <2>3, Leaves, Reacquires DEF QueuePcs, HeldPcs
    <2>. QED BY <2>2, <2>4 DEF TransPcs
  <1>16. CASE SeekPrepared(t)
    <2>1. PICK x \in {task[t].media, NoUri} :
            Acquire(t, [At("seek_lock") EXCEPT !.media = x], task, lock)
      BY <1>16 DEF SeekPrepared
    <2>. DEFINE m == [At("seek_lock") EXCEPT !.media = x]
    <2>2. m \in Locals /\ m.pc = "seek_lock"
      <3>1. At("seek_lock") \in Locals /\ At("seek_lock").pc = "seek_lock"
        BY LocalsTypes DEF Pcs, SeekPcs
      <3>2. x \in Media
        BY <2>1 DEF Media
      <3>. QED BY <3>1, <3>2, LocalsUpdates DEF Locals
    <2>3. task[t].pc = "seek_prepare" /\ t \notin Checks
      BY <1>16 DEF SeekPrepared, Resumes, CheckPcs
    <2>4. Acquire(t, m, task, lock)
      BY <2>1
    <2>. HIDE DEF m
    <2>5. After(t, "seek_lock")
      BY <2>2, <2>3, <2>4, Acquires DEF QueuePcs, HeldPcs
    <2>. QED BY <1>16, <2>5 DEF SeekPrepared, TransPcs
  <1>17. CASE SeekSoft(t)
    <2>1. After(t, "idle")
      BY <1>17, FinishAfter DEF SeekSoft
    <2>. QED BY <1>17, <2>1 DEF SeekSoft, InSection, TransPcs
  <1>18. CASE SeekBegin(t)
    <2>. DEFINE pc == IF r.transport = "PLAYING" THEN "seek_stop" ELSE "seek_call"
                m == [task[t] EXCEPT !.pc = pc, !.was = r.transport]
    <2>1. m \in Locals /\ m.pc = pc /\ pc \in {"seek_stop", "seek_call"}
      BY DEF Locals, Pcs, SeekPcs
    <2>2. After(t, m.pc)
      BY <1>18, <2>1, Awaits DEF SeekBegin, InSection, QueuePcs, CheckPcs
    <2>3. r'.transport = "TRANSITIONING" /\ Owns(lock, t)
      BY <1>18 DEF SeekBegin, InSection, TypeOK, RendererType
    <2>. QED BY <2>2, <2>3
  <1>19. CASE SeekStopped(t)
    <2>. DEFINE m == [task[t] EXCEPT !.pc = "seek_call"]
    <2>1. m \in Locals /\ m.pc = "seek_call"
      BY LocalsUpdates DEF Pcs, SeekPcs
    <2>2. Suspend(t, m, task, lock) /\ t \notin Checks /\ Owns(lock, t)
      BY <1>19 DEF SeekStopped, InSection, CheckPcs
    <2>. HIDE DEF m
    <2>3. After(t, "seek_call")
      BY <1>19, <2>1, <2>2, Awaits DEF SeekStopped, InSection, QueuePcs, HeldPcs
    <2>. QED BY <1>19, <2>3 DEF SeekStopped, InSection, TransitioningHeld, TransPcs
  <1>20. CASE SeekSucceeds(t)
    <2>1. Owns(lock, t) /\ t \notin Checks /\ task[t].pc = "seek_call"
      BY <1>20 DEF SeekSucceeds, InSection, CheckPcs
    <2>. DEFINE m == [task[t] EXCEPT !.pc = "seek_pause"]
    <2>2. m \in Locals /\ m.pc = "seek_pause"
      BY LocalsUpdates DEF Pcs, SeekPcs
    <2>3. \/ Finish(t, task)
          \/ Suspend(t, m, task, lock) /\ r'.transport = r.transport
      BY <1>20 DEF SeekSucceeds, TypeOK, RendererType
    <2>. HIDE DEF m
    <2>4. CASE Finish(t, task)
      <3>1. After(t, "idle")
        BY <2>4, FinishAfter
      <3>. QED BY <2>1, <3>1 DEF TransPcs
    <2>5. CASE Suspend(t, m, task, lock) /\ r'.transport = r.transport
      <3>1. After(t, "seek_pause")
        BY <2>1, <2>2, <2>5, Awaits DEF QueuePcs
      <3>2. r.transport = "TRANSITIONING"
        BY <2>1 DEF TransitioningHeld
      <3>. QED BY <2>1, <2>5, <3>1, <3>2
    <2>. QED BY <2>3, <2>4, <2>5
  <1>21. CASE SeekPaused(t)
    <2>1. After(t, "idle")
      BY <1>21, FinishAfter DEF SeekPaused
    <2>. QED BY <1>21, <2>1 DEF SeekPaused, InSection, TransPcs
  <1>22. CASE SeekFails(t)
    <2>1. After(t, "idle")
      BY <1>22, FinishAfter DEF SeekFails
    <2>. QED BY <1>22, <2>1 DEF SeekFails, InSection, TransPcs
  <1>23. CASE SeekRaises(t)
    <2>1. After(t, "idle")
      BY <1>23, FinishAfter DEF SeekRaises
    <2>. QED BY <1>23, <2>1 DEF SeekRaises, InSection, TransPcs
  <1>24. CASE NextStopped(t)
    <2>. DEFINE m == [task[t] EXCEPT !.pc = "next_sleep"]
    <2>1. m \in Locals /\ m.pc = "next_sleep"
      BY LocalsUpdates DEF Pcs, SwitchPcs
    <2>2. Suspend(t, m, task, lock) /\ t \notin Checks
      BY <1>24 DEF NextStopped, Resumes, CheckPcs
    <2>. HIDE DEF m
    <2>3. After(t, "next_sleep")
      BY <1>24, <2>1, <2>2, Outside DEF NextStopped, Resumes, QueuePcs, HeldPcs
    <2>. QED BY <1>24, <2>3 DEF NextStopped, TransPcs
  <1>25. CASE NextSwitch(t)
    <2>. DEFINE m == [task[t] EXCEPT !.pc = "next_trans", !.media = r.next]
    <2>1. m \in Locals /\ m.pc = "next_trans"
      BY DEF Locals, Pcs, SwitchPcs
    <2>2. Acquire(t, m, task, lock) /\ task[t].pc = "next_sleep" /\ t \notin Checks
      BY <1>25 DEF NextSwitch, Resumes, CheckPcs
    <2>. HIDE DEF m
    <2>3. After(t, "next_trans")
      BY <2>1, <2>2, Acquires DEF QueuePcs, HeldPcs
    <2>. QED BY <1>25, <2>3 DEF NextSwitch, TransPcs, TypeOK, RendererType
  <1>26. CASE NextTransitioning(t)
    <2>. DEFINE m == [task[t] EXCEPT !.pc = "next_call"]
    <2>1. m \in Locals /\ m.pc = "next_call"
      BY LocalsUpdates DEF Pcs, SwitchPcs
    <2>2. Suspend(t, m, task, Leave(lock, t)) /\ t \notin Checks
      BY <1>26 DEF NextTransitioning, InSection, CheckPcs
    <2>. HIDE DEF m
    <2>3. After(t, "next_call")
      BY <1>26, <2>1, <2>2, Leaves DEF NextTransitioning, InSection, QueuePcs, HeldPcs
    <2>. QED BY <1>26, <2>3 DEF NextTransitioning, InSection, TransPcs
  <1>27. CASE NextCalled(t)
    <2>. DEFINE m == [task[t] EXCEPT !.pc = "next_ok"]
                k == [task[t] EXCEPT !.pc = "next_fail"]
    <2>1. m \in Locals /\ m.pc = "next_ok" /\ k \in Locals /\ k.pc = "next_fail"
      BY LocalsUpdates DEF Pcs, SwitchPcs
    <2>2. task[t].pc = "next_call" /\ t \notin Checks
      BY <1>27 DEF NextCalled, Resumes, CheckPcs
    <2>3. Acquire(t, m, task, lock) \/ Acquire(t, k, task, lock)
      BY <1>27 DEF NextCalled
    <2>. HIDE DEF m, k
    <2>4. After(t, "next_ok") \/ After(t, "next_fail")
      BY <2>1, <2>2, <2>3, Acquires DEF QueuePcs, HeldPcs
    <2>. QED BY <1>27, <2>4 DEF NextCalled, TransPcs
  <1>28. CASE NextSucceeds(t)
    <2>. DEFINE ts == Cancelled(r.check)
                lk == Leave(lock, r.check)
    <2>1. PICK c \in Done(Checks) \cup ({r.check} \cap Checks) :
            Suspend(t, Idle, Spawned(ts, c, At("chk_sleep")), Leave(lk, t))
      BY <1>28 DEF NextSucceeds
    <2>2. Base(ts, lk)
      BY BaseCancelled
    <2>3. Base(Spawned(ts, c, At("chk_sleep")), lk)
      <3>1. At("chk_sleep") \in Locals /\ At("chk_sleep").pc = "chk_sleep"
        BY LocalsTypes DEF Pcs
      <3>2. c \in Tasks /\ ts[c].pc = "idle"
        BY LocalsTypes DEF Cancelled, Done, Tasks
      <3>. QED BY <2>2, <3>1, <3>2, BaseSpawned DEF QueuePcs, HeldPcs, CheckPcs
    <2>4. After(t, "idle")
      BY <2>1, <2>3, Leaves, LocalsTypes DEF QueuePcs, HeldPcs, CheckPcs
    <2>. QED BY <1>28, <2>4 DEF NextSucceeds, InSection, TransPcs
  <1>29. CASE NextFails(t)
    <2>1. After(t, "idle")
      BY <1>29, FinishAfter DEF NextFails
    <2>. QED BY <1>29, <2>1 DEF NextFails, InSection, TransPcs
  <1>30. CASE NextRaises(t)
    <2>1. After(t, "idle")
      BY <1>30, Outside, LocalsTypes
      DEF NextRaises, Resumes, QueuePcs, HeldPcs, CheckPcs
    <2>. QED BY <1>30, <2>1 DEF NextRaises, TransPcs
  <1>31. CASE NextMark(t)
    <2>. DEFINE m == [task[t] EXCEPT !.pc = "next_wait"]
    <2>1. m \in Locals /\ m.pc = "next_wait"
      BY LocalsUpdates DEF Pcs, NoNextPcs
    <2>2. Suspend(t, m, task, Leave(lock, t)) /\ t \notin Checks
      BY <1>31 DEF NextMark, InSection, CheckPcs
    <2>. HIDE DEF m
    <2>3. After(t, "next_wait")
      BY <1>31, <2>1, <2>2, Leaves DEF NextMark, InSection, QueuePcs, HeldPcs
    <2>. QED BY <1>31, <2>3 DEF NextMark, InSection, TransPcs
  <1>32. CASE NextWakes(t)
    <2>1. After(t, "idle") \/ After(t, "next_stop") \/ After(t, "next_mark")
      BY <1>32, NextTrackAfter DEF NextWakes, Resumes, QueuePcs, CheckPcs
    <2>. QED BY <1>32, <2>1 DEF NextWakes, TransPcs
  <1>33. CASE NextGivesUp(t)
    <2>. DEFINE m == [task[t] EXCEPT !.pc = "end_stop"]
    <2>1. m \in Locals /\ m.pc = "end_stop"
      BY LocalsUpdates DEF Pcs, NoNextPcs
    <2>2. Suspend(t, m, task, lock) /\ t \notin Checks
      BY <1>33 DEF NextGivesUp, Resumes, CheckPcs
    <2>. HIDE DEF m
    <2>3. After(t, "end_stop")
      BY <1>33, <2>1, <2>2, Outside DEF NextGivesUp, Resumes, QueuePcs, HeldPcs
    <2>. QED BY <1>33, <2>3 DEF NextGivesUp, TransPcs
  <1>34. CASE EndStopped(t)
    <2>. DEFINE m == [task[t] EXCEPT !.pc = "end_sleep"]
    <2>1. m \in Locals /\ m.pc = "end_sleep"
      BY LocalsUpdates DEF Pcs, NoNextPcs
    <2>2. Suspend(t, m, task, lock) /\ t \notin Checks
      BY <1>34 DEF EndStopped, Resumes, CheckPcs
    <2>. HIDE DEF m
    <2>3. After(t, "end_sleep")
      BY <1>34, <2>1, <2>2, Outside DEF EndStopped, Resumes, QueuePcs, HeldPcs
    <2>. QED BY <1>34, <2>3 DEF EndStopped, TransPcs
  <1>35. CASE EndSlept(t)
    <2>. DEFINE m == [task[t] EXCEPT !.pc = "end_lock"]
    <2>1. m \in Locals /\ m.pc = "end_lock"
      BY LocalsUpdates DEF Pcs, NoNextPcs
    <2>2. Acquire(t, m, task, lock) /\ t \notin Checks
      BY <1>35 DEF EndSlept, Resumes, CheckPcs
    <2>. HIDE DEF m
    <2>3. After(t, "end_lock")
      BY <1>35, <2>1, <2>2, Acquires DEF EndSlept, Resumes, QueuePcs, HeldPcs
    <2>. QED BY <1>35, <2>3 DEF EndSlept, TransPcs
  <1>36. CASE EndOfTrack(t)
    <2>1. After(t, "idle")
      BY <1>36, TailAfter DEF EndOfTrack
    <2>. QED BY <1>36, <2>1 DEF EndOfTrack, InSection, TransPcs
  <1>37. CASE AutoStart(t)
    <2>1. After(t, "idle") \/ After(t, "next_stop") \/ After(t, "next_mark")
      BY <1>37, NextTrackAfter DEF AutoStart, Resumes, QueuePcs, CheckPcs
    <2>. QED BY <1>37, <2>1 DEF AutoStart, TransPcs
  <1>38. CASE PreviousBody(t)
    <2>. DEFINE m == [At("prev_call") EXCEPT !.media = r.uri]
    <2>1. m \in Locals /\ m.pc = "prev_call"
      BY LocalsTypes, LocalsUpdates DEF Pcs, Locals
    <2>2. t \notin Checks
      BY <1>38 DEF PreviousBody, InSection, CheckPcs
    <2>3. \/ Suspend(t, Idle, task, Leave(lock, t))
          \/ Suspend(t, m, task, Leave(lock, t))
      BY <1>38 DEF PreviousBody
    <2>. HIDE DEF m
    <2>4. After(t, "idle") \/ After(t, "prev_call")
      BY <2>1, <2>2, <2>3, Leaves, LocalsTypes DEF QueuePcs, HeldPcs
    <2>. QED BY <1>38, <2>4 DEF PreviousBody, InSection, TransPcs
  <1>39. CASE PreviousDone(t)
    <2>1. After(t, "idle")
      BY <1>39, Outside, LocalsTypes
      DEF PreviousDone, Resumes, QueuePcs, HeldPcs, CheckPcs
    <2>. QED BY <1>39, <2>1 DEF PreviousDone, TransPcs
  <1>40. CASE CheckWakes(t)
    <2>. DEFINE m == [task[t] EXCEPT !.pc = "chk_lock"]
    <2>1. m \in Locals /\ m.pc = "chk_lock"
      BY LocalsUpdates DEF Pcs
    <2>2. Acquire(t, m, task, lock) /\ task[t].pc = "chk_sleep"
      BY <1>40 DEF CheckWakes, Resumes
    <2>. HIDE DEF m
    <2>3. After(t, "chk_lock")
      BY <2>1, <2>2, Acquires DEF QueuePcs, HeldPcs, CheckPcs
    <2>. QED BY <1>40, <2>3 DEF CheckWakes, TransPcs
  <1>41. CASE CheckEnds(t)
    <2>1. After(t, "idle")
      BY <1>41, FinishAfter DEF CheckEnds
    <2>. QED BY <1>41, <2>1 DEF CheckEnds, InSection, TransPcs
  <1>42. CASE CheckAgain(t)
    <2>1. PICK nearEnd \in BOOLEAN :
            Suspend(t, [At("chk_sleep") EXCEPT !.near = nearEnd], task,
                    Leave(lock, t))
      BY <1>42 DEF CheckAgain
    <2>. DEFINE m == [At("chk_sleep") EXCEPT !.near = nearEnd]
    <2>2. m \in Locals /\ m.pc = "chk_sleep"
      BY LocalsTypes, LocalsUpdates DEF Pcs, Locals
    <2>3. Suspend(t, m, task, Leave(lock, t))
      BY <2>1
    <2>. HIDE DEF m
    <2>4. After(t, "chk_sleep")
      BY <2>2, <2>3, Leaves DEF QueuePcs, HeldPcs, CheckPcs
    <2>. QED BY <1>42, <2>4 DEF CheckAgain, TransPcs
  <1>43. CASE CheckSpawnsNext(t)
    <2>. DEFINE m == [At("auto_start") EXCEPT !.gen = r.gen]
    <2>1. PICK a \in Done(Autos) : Finish(t, Spawned(task, a, m))
      BY <1>43 DEF CheckSpawnsNext
    <2>2. m \in Locals /\ m.pc = "auto_start"
      BY LocalsTypes, LocalsUpdates DEF Pcs, Locals
    <2>3. Base(Spawned(task, a, m), lock)
      BY <2>1, <2>2, BaseSpawned, TasksAssumption
      DEF Done, Tasks, QueuePcs, HeldPcs
    <2>4. After(t, "idle")
      BY <2>1, <2>3, FinishAfter
    <2>. QED BY <1>43, <2>4 DEF CheckSpawnsNext, InSection, TransPcs
  <1>. QED BY <1>1, <1>2, <1>3, <1>4, <1>5, <1>6, <1>7, <1>8, <1>9, <1>10, <1>11, <1>12,
       <1>13, <1>14, <1>15, <1>16, <1>17, <1>18, <1>19, <1>20, <1>21, <1>22, <1>23, <1>24,
       <1>25, <1>26, <1>27, <1>28, <1>29, <1>30, <1>31, <1>32, <1>33, <1>34, <1>35, <1>36,
       <1>37, <1>38, <1>39, <1>40, <1>41, <1>42, <1>43 DEF Step

\* A command arrives at a task that runs none.
LEMMA CommandKeeps ==
  ASSUME IInv, NEW t \in Soap \cup Background,
         Command(t) \/ IdleReset(t) \/ AutomaticPlay(t)
  PROVE  IInv'
  <1>. USE DEF IInv
  <1>a. t \in Tasks \ Checks /\ TypeOK' /\ r.auto # t
    BY CommandType, TasksAssumption DEF Tasks, TypeOK, RendererType
  <1>. USE <1>a
  <1>1. ASSUME NEW l \in Locals, NEW pc, l.pc = pc, pc \in QueuePcs \ HeldPcs,
               CancelAutoNextAndAcquire(t, l)
        PROVE  IInv'
    <2>1. Base(Cancelled(r.auto), Leave(lock, r.auto))
      BY BaseCancelled
    <2>2. Cancelled(r.auto)[t].pc \notin QueuePcs
      BY <1>1 DEF CancelAutoNextAndAcquire, Resumes, Cancelled, QueuePcs
    <2>3. After(t, pc)
      BY <1>1, <2>1, <2>2, Acquires DEF CancelAutoNextAndAcquire
    <2>4. r'.transport = r.transport
      BY <1>1 DEF CancelAutoNextAndAcquire, TypeOK, RendererType
    <2>. QED BY <1>1, <2>3, <2>4, Keeps DEF TransPcs, HeldPcs
  <1>2. ASSUME NEW l \in Locals, NEW pc, l.pc = pc, pc \in QueuePcs \ HeldPcs,
               Resumes(t, "idle"), Acquire(t, l, task, lock), UNCHANGED r
        PROVE  IInv'
    <2>1. After(t, pc)
      BY <1>2, BaseTask, Acquires DEF Resumes, QueuePcs
    <2>. QED BY <1>2, <2>1, Keeps DEF TransPcs, HeldPcs
  <1>3. ASSUME NEW u \in Media, SetUri(t, u)
        PROVE  IInv'
    <2>. DEFINE m == [At("set_uri") EXCEPT !.media = u]
    <2>1. m \in Locals /\ m.pc = "set_uri"
      BY LocalsTypes, LocalsUpdates DEF Pcs, Locals
    <2>2. CancelAutoNextAndAcquire(t, m)
      BY <1>3 DEF SetUri
    <2>. HIDE DEF m
    <2>. QED BY <1>1, <2>1, <2>2 DEF QueuePcs, HeldPcs
  <1>4. CASE Play(t) \/ Pause(t) \/ Stop(t) \/ Reset(t)
    <2>1. \A pc \in {"play", "pause", "stop", "reset"} :
            At(pc) \in Locals /\ At(pc).pc = pc
      BY LocalsTypes DEF Pcs, PlayPcs
    <2>. QED BY <1>1, <1>4, <2>1 DEF Play, Pause, Stop, Reset, QueuePcs, HeldPcs
  <1>5. CASE Seek(t)
    <2>1. \A pc \in {"seek_lock", "seek_read"} :
            At(pc) \in Locals /\ At(pc).pc = pc
      BY LocalsTypes DEF Pcs, SeekPcs
    <2>. QED BY <1>2, <1>5, <2>1 DEF Seek, QueuePcs, HeldPcs
  <1>6. CASE Previous(t)
    <2>1. At("prev") \in Locals /\ At("prev").pc = "prev"
      BY LocalsTypes DEF Pcs
    <2>. QED BY <1>2, <1>6, <2>1 DEF Previous, QueuePcs, HeldPcs
  <1>7. CASE Next_(t)
    <2>1. After(t, "idle") \/ After(t, "next_stop") \/ After(t, "next_mark")
      BY <1>7, NextTrackAfter DEF Next_, Resumes, QueuePcs
    <2>. QED BY <1>7, <2>1, Keeps DEF Next_, TransPcs
  <1>. QED BY <1>3, <1>4, <1>5, <1>6, <1>7 DEF Command, IdleReset, AutomaticPlay

-----------------------------------------------------------------------------
(* The theorems.                                                           *)

\* The inductive invariant holds initially.
LEMMA InitIInv == Init => IInv
  <1>. SUFFICES ASSUME Init PROVE IInv
    OBVIOUS
  <1>1. \A t \in Tasks : task[t].pc = "idle" /\ t \notin lock.queued
    BY LocalsTypes DEF Init, FreeLock
  <1>2. LockInv
    BY <1>1, FreeQueue DEF LockInv, Consistent, QueuePcs, HeldPcs, Init
  <1>. QED BY <1>1, <1>2, InitType
       DEF IInv, MonitorPcs, TransitioningHeld, Tasks

\* Every step of the specification keeps it.
LEMMA NextKeeps == IInv /\ [Next]_vars => IInv'
  <1>. SUFFICES ASSUME IInv, [Next]_vars PROVE IInv'
    OBVIOUS
  <1>1. ASSUME NEW u \in Media, SetNext(u) PROVE IInv'
    BY <1>1
    DEF SetNext, IInv, TypeOK, RendererType, LockInv, MonitorPcs, TransitioningHeld
  <1>2. CASE SoapStep
    BY <1>1, <1>2, CommandKeeps DEF SoapStep, Media
  <1>3. CASE RunTask
    BY <1>3, StepKeeps DEF RunTask
  <1>4. CASE AppStep
    BY <1>4, CommandKeeps DEF AppStep
  <1>5. CASE UNCHANGED vars
    BY <1>5
    DEF vars, IInv, TypeOK, LockInv, MonitorPcs, TransitioningHeld
  <1>. QED BY <1>2, <1>3, <1>4, <1>5 DEF Next

\* Whatever is cancelled and whoever waits, a task that is suspended inside
\* its section owns the lock, and the queue of the lock holds exactly the
\* tasks that have asked for it.
THEOREM LockDiscipline == Spec => []LockInv
  <1>1. IInv => LockInv
    BY DEF IInv
  <1>. QED BY InitIInv, NextKeeps, <1>1, PTL DEF Spec

\* play() and seek() come back to the TRANSITIONING state they announced
\* before they awaited a seek URL or the speaker, however many handlers,
\* monitors and automatic next tracks run meanwhile.
THEOREM TransitioningIsHeld == Spec => []TransitioningHeld
  <1>1. IInv => TransitioningHeld
    BY DEF IInv
  <1>. QED BY InitIInv, NextKeeps, <1>1, PTL DEF Spec

-----------------------------------------------------------------------------
(* What each step does to the state and to the clock.                      *)

Handlers == Soap \cup Background

\* Whom a step that suspends t moves: t, and whoever the base has moved.
LEMMA PutAfter ==
  ASSUME NEW ts \in [Tasks -> Locals], NEW t \in Tasks, NEW l, NEW lk,
         Suspend(t, l, ts, lk) \/ Acquire(t, l, ts, lk)
  PROVE  \A y \in Tasks : task'[y] = IF y = t THEN l ELSE ts[y]
  BY DEF Suspend, Acquire

\* Where a step of play() leaves the task when it announces PLAYING.
LEMMA ReleasePc ==
  ASSUME NEW t \in Tasks, NEW l \in Locals, NEW ts \in [Tasks -> Locals],
         NEW lk, ReleaseFirst(t, l, ts, lk)
  PROVE  /\ task'[t].pc = IF NeedsTranscode THEN "play_notify" ELSE "play_lock"
         /\ \A y \in Tasks \ {t} : task'[y] = ts[y]
  <1>1. CASE NeedsTranscode
    <2>1. Suspend(t, [l EXCEPT !.pc = "play_notify"], ts, Leave(lk, t))
      BY <1>1 DEF ReleaseFirst
    <2>. QED BY <1>1, <2>1, LocalsUpdates DEF Suspend, Pcs, PlayPcs
  <1>2. CASE ~NeedsTranscode
    <2>1. Acquire(t, [l EXCEPT !.pc = "play_lock"], ts, Leave(lk, t))
      BY <1>2 DEF ReleaseFirst
    <2>. QED BY <1>2, <2>1, LocalsUpdates DEF Acquire, Pcs, PlayPcs
  <1>. QED BY <1>1, <1>2

\* Steps that leave the renderer's fields alone.
Unseen(t) ==
  \/ PlayNoUri(t) \/ PlayNotified(t) \/ PlayCall(t) \/ PlayRaises(t)
  \/ PauseCall(t) \/ StopCall(t) \/ SeekRead(t) \/ SeekPrepared(t)
  \/ SeekStopped(t) \/ SeekRaises(t) \/ NextStopped(t) \/ NextCalled(t)
  \/ NextRaises(t) \/ NextWakes(t) \/ NextGivesUp(t) \/ EndStopped(t)
  \/ EndSlept(t) \/ AutoStart(t) \/ PreviousDone(t)
  \/ CheckWakes(t) \/ CheckEnds(t) \/ CheckAgain(t)

\* They do.
LEMMA UnseenKeepsFields == ASSUME NEW t, Unseen(t) PROVE r' = r
  BY DEF Unseen, PlayNoUri, PlayNotified, PlayCall, PlayRaises, PauseCall,
         StopCall, CallSpeaker, SeekRead, SeekPrepared, SeekStopped, SeekRaises,
         NextStopped, NextCalled, NextRaises, NextWakes, NextGivesUp,
         EndStopped, EndSlept, AutoStart, PreviousDone, CheckWakes, CheckEnds,
         CheckAgain

Announces(t) == r'.transport = "PLAYING" /\ NeedsTranscode /\ task'[t].pc = "play_notify"

\* What a step does to the state and the clock.
ClockMove(t) ==
  \/ r'.transport = r.transport /\ r'.start = r.start
  \/ r'.transport \in {"STOPPED", "TRANSITIONING", "NO_MEDIA_PRESENT"}
  \/ r'.transport = "PLAYING" /\ r'.start
  \/ r'.transport = "PAUSED_PLAYBACK" /\ ~r'.start
  \/ r'.transport = r.transport /\ (r'.start <=> r.start \/ r.transport = "PLAYING")
  \/ Announces(t)
  \/ task[t].pc = "prev" /\ r'.transport = r.transport /\ r'.start

\* Every step of a task moves the state and the clock in one of these ways.
LEMMA ClockMoves ==
  ASSUME TypeOK, NEW t \in Tasks, Step(t)
  PROVE  ClockMove(t)
  <1>. USE DEF TypeOK, RendererType
  <1>a. task[t] \in Locals /\ task \in [Tasks -> Locals]
    OBVIOUS
  <1>1. CASE Unseen(t)
    BY <1>1, UnseenKeepsFields DEF ClockMove
  <1>2. CASE PlayBegin(t)
    <2>. DEFINE l == [At("play_seek") EXCEPT !.media = r.uri]
    <2>1. l \in Locals /\ Cancelled(r.check) \in [Tasks -> Locals]
      BY LocalsTypes, LocalsUpdates, CancelledType DEF Pcs, PlayPcs
    <2>. HIDE DEF l
    <2>2. CASE ReleaseFirst(t, l, Cancelled(r.check), Leave(lock, r.check))
               /\ r' = Announced([r EXCEPT !.check = NoTask, !.transport = "TRANSITIONING",
                         !.userStopped = FALSE, !.stuck = FALSE])
      BY <2>1, <2>2, ReleasePc DEF ClockMove, Announces, Announced
    <2>3. CASE r' = [r EXCEPT !.check = NoTask, !.transport = "TRANSITIONING",
                         !.userStopped = FALSE, !.stuck = FALSE]
      BY <2>3 DEF ClockMove
    <2>. QED BY <1>2, <2>2, <2>3 DEF PlayBegin, l
  <1>3. CASE PlaySeekReady(t)
    <2>1. task'[t].pc = IF NeedsTranscode THEN "play_notify" ELSE "play_lock"
      BY <1>3, <1>a, ReleasePc DEF PlaySeekReady
    <2>. QED BY <1>3, <2>1 DEF PlaySeekReady, ClockMove, Announces, Announced
  <1>4. CASE SetUriBody(t) \/ PlayFails(t) \/ StopDone(t) \/ SeekBegin(t)
             \/ SeekFails(t) \/ NextTransitioning(t) \/ NextFails(t)
             \/ NextMark(t) \/ EndOfTrack(t)
    BY <1>4 DEF SetUriBody, PlayFails, StopDone, SeekBegin, SeekFails,
                NextTransitioning, NextFails, NextMark, EndOfTrack, ClockMove
  <1>5. CASE PlaySucceeds(t) \/ NextSucceeds(t)
    BY <1>5 DEF PlaySucceeds, NextSucceeds, ClockMove
  <1>6. CASE PauseDone(t) \/ SeekPaused(t)
    BY <1>6 DEF PauseDone, SeekPaused, ClockMove
  <1>7. CASE ResetBody(t)
    BY <1>7 DEF ResetBody, ClockMove
  <1>8. CASE SeekSoft(t) \/ SeekSucceeds(t)
    BY <1>8 DEF SeekSoft, SeekSucceeds, ClockMove
  <1>9. CASE NextSwitch(t) \/ CheckSpawnsNext(t)
    BY <1>9 DEF NextSwitch, CheckSpawnsNext, ClockMove
  <1>10. CASE PreviousBody(t)
    BY <1>10 DEF PreviousBody, InSection, ClockMove
  <1>. QED BY <1>1, <1>2, <1>3, <1>4, <1>5, <1>6, <1>7, <1>8, <1>9, <1>10 DEF Step, Unseen

-----------------------------------------------------------------------------
(* Where each step starts.                                                 *)

\* Each action starts at the await it is the continuation of.
LEMMA StartsAt ==
  ASSUME NEW t
  PROVE  /\ SetUriBody(t) => task[t].pc = "set_uri"
         /\ PlayNoUri(t) => task[t].pc = "play"
         /\ PlayBegin(t) => task[t].pc = "play"
         /\ PlaySeekReady(t) => task[t].pc = "play_seek"
         /\ PlayNotified(t) => task[t].pc = "play_notify"
         /\ PlayCall(t) => task[t].pc = "play_lock"
         /\ PlaySucceeds(t) => task[t].pc = "play_call"
         /\ PlayFails(t) => task[t].pc = "play_call"
         /\ PlayRaises(t) => task[t].pc = "play_call"
         /\ PauseCall(t) => task[t].pc = "pause"
         /\ PauseDone(t) => task[t].pc = "pause_call"
         /\ StopCall(t) => task[t].pc = "stop"
         /\ StopDone(t) => task[t].pc = "stop_call"
         /\ ResetBody(t) => task[t].pc = "reset"
         /\ SeekRead(t) => task[t].pc = "seek_read"
         /\ SeekPrepared(t) => task[t].pc = "seek_prepare"
         /\ SeekSoft(t) => task[t].pc = "seek_lock"
         /\ SeekBegin(t) => task[t].pc = "seek_lock"
         /\ SeekStopped(t) => task[t].pc = "seek_stop"
         /\ SeekSucceeds(t) => task[t].pc = "seek_call"
         /\ SeekPaused(t) => task[t].pc = "seek_pause"
         /\ SeekFails(t) => task[t].pc = "seek_call"
         /\ SeekRaises(t) => task[t].pc \in {"seek_stop", "seek_call", "seek_pause"}
         /\ NextStopped(t) => task[t].pc = "next_stop"
         /\ NextSwitch(t) => task[t].pc = "next_sleep"
         /\ NextTransitioning(t) => task[t].pc = "next_trans"
         /\ NextCalled(t) => task[t].pc = "next_call"
         /\ NextSucceeds(t) => task[t].pc = "next_ok"
         /\ NextFails(t) => task[t].pc = "next_fail"
         /\ NextRaises(t) => task[t].pc \in {"next_stop", "next_call", "end_stop"}
         /\ NextMark(t) => task[t].pc = "next_mark"
         /\ NextWakes(t) => task[t].pc = "next_wait"
         /\ NextGivesUp(t) => task[t].pc = "next_wait"
         /\ EndStopped(t) => task[t].pc = "end_stop"
         /\ EndSlept(t) => task[t].pc = "end_sleep"
         /\ EndOfTrack(t) => task[t].pc = "end_lock"
         /\ AutoStart(t) => task[t].pc = "auto_start"
         /\ PreviousBody(t) => task[t].pc = "prev"
         /\ PreviousDone(t) => task[t].pc = "prev_call"
         /\ CheckWakes(t) => task[t].pc = "chk_sleep"
         /\ CheckEnds(t) => task[t].pc = "chk_lock"
         /\ CheckAgain(t) => task[t].pc = "chk_lock"
         /\ CheckSpawnsNext(t) => task[t].pc = "chk_lock"
  BY DEF SetUriBody, PlayNoUri, PlayBegin, PlaySeekReady, PlayNotified,
         PlayCall, PlaySucceeds, PlayFails, PlayRaises, PauseCall, PauseDone,
         StopCall, StopDone, ResetBody, SeekRead, SeekPrepared, SeekSoft,
         SeekBegin, SeekStopped, SeekSucceeds, SeekPaused, SeekFails,
         SeekRaises, NextStopped, NextSwitch, NextTransitioning, NextCalled,
         NextSucceeds, NextFails, NextRaises, NextMark, NextWakes,
         NextGivesUp, EndStopped, EndSlept, EndOfTrack, AutoStart,
         PreviousBody, PreviousDone, CheckWakes, CheckEnds, CheckAgain,
         CheckSpawnsNext, CallSpeaker, InSection, Resumes

\* So the await at which a task is suspended says what it does next.
LEMMA StepFrom ==
  ASSUME NEW t, Step(t)
  PROVE  /\ task[t].pc # "idle"
         /\ task[t].pc = "set_uri" => SetUriBody(t)
         /\ task[t].pc = "play" => PlayNoUri(t) \/ PlayBegin(t)
         /\ task[t].pc = "play_seek" => PlaySeekReady(t)
         /\ task[t].pc = "play_notify" => PlayNotified(t)
         /\ task[t].pc = "play_lock" => PlayCall(t)
         /\ task[t].pc = "play_call" => PlaySucceeds(t) \/ PlayFails(t) \/ PlayRaises(t)
         /\ task[t].pc = "pause" => PauseCall(t)
         /\ task[t].pc = "pause_call" => PauseDone(t)
         /\ task[t].pc = "stop" => StopCall(t)
         /\ task[t].pc = "stop_call" => StopDone(t)
         /\ task[t].pc = "reset" => ResetBody(t)
         /\ task[t].pc = "seek_read" => SeekRead(t)
         /\ task[t].pc = "seek_prepare" => SeekPrepared(t)
         /\ task[t].pc = "seek_lock" => SeekSoft(t) \/ SeekBegin(t)
         /\ task[t].pc = "seek_stop" => SeekStopped(t) \/ SeekRaises(t)
         /\ task[t].pc = "seek_call" => SeekSucceeds(t) \/ SeekFails(t) \/ SeekRaises(t)
         /\ task[t].pc = "seek_pause" => SeekPaused(t) \/ SeekRaises(t)
         /\ task[t].pc = "next_stop" => NextStopped(t) \/ NextRaises(t)
         /\ task[t].pc = "next_sleep" => NextSwitch(t)
         /\ task[t].pc = "next_trans" => NextTransitioning(t)
         /\ task[t].pc = "next_call" => NextCalled(t) \/ NextRaises(t)
         /\ task[t].pc = "next_ok" => NextSucceeds(t)
         /\ task[t].pc = "next_fail" => NextFails(t)
         /\ task[t].pc = "end_stop" => NextRaises(t) \/ EndStopped(t)
         /\ task[t].pc = "next_mark" => NextMark(t)
         /\ task[t].pc = "next_wait" => NextWakes(t) \/ NextGivesUp(t)
         /\ task[t].pc = "end_sleep" => EndSlept(t)
         /\ task[t].pc = "end_lock" => EndOfTrack(t)
         /\ task[t].pc = "auto_start" => AutoStart(t)
         /\ task[t].pc = "prev" => PreviousBody(t)
         /\ task[t].pc = "prev_call" => PreviousDone(t)
         /\ task[t].pc = "chk_sleep" => CheckWakes(t)
         /\ task[t].pc = "chk_lock" => CheckEnds(t) \/ CheckAgain(t) \/ CheckSpawnsNext(t)
  BY StartsAt DEF Step

-----------------------------------------------------------------------------
(* Where a step takes its own task, and what it does to the others.        *)

\* The control flow of the methods: from one await to the next.
Flow(from, to) ==
  \/ from = "play" /\ to \in {"play_seek", "play_notify", "play_lock"}
  \/ from = "play_seek" /\ to \in {"play_notify", "play_lock"}
  \/ from = "play_notify" /\ to = "play_lock"
  \/ from = "play_lock" /\ to = "play_call"
  \/ from = "pause" /\ to = "pause_call"
  \/ from = "stop" /\ to = "stop_call"
  \/ from = "seek_read" /\ to \in {"seek_prepare", "seek_lock"}
  \/ from = "seek_prepare" /\ to = "seek_lock"
  \/ from = "seek_lock" /\ to \in {"seek_stop", "seek_call"}
  \/ from = "seek_stop" /\ to = "seek_call"
  \/ from = "seek_call" /\ to = "seek_pause"
  \/ from \in {"auto_start", "next_wait"} /\ to \in {"next_stop", "next_mark"}
  \/ from = "next_stop" /\ to = "next_sleep"
  \/ from = "next_sleep" /\ to = "next_trans"
  \/ from = "next_trans" /\ to = "next_call"
  \/ from = "next_call" /\ to \in {"next_ok", "next_fail"}
  \/ from = "next_mark" /\ to = "next_wait"
  \/ from = "next_wait" /\ to = "end_stop"
  \/ from = "end_stop" /\ to = "end_sleep"
  \/ from = "end_sleep" /\ to = "end_lock"
  \/ from = "prev" /\ to = "prev_call"
  \/ from = "chk_sleep" /\ to = "chk_lock"
  \/ from = "chk_lock" /\ to = "chk_sleep"

\* Only t moves.
Alone(t) == \A y \in Tasks \ {t} : task'[y] = task[y]

\* A task that goes on keeps the generation it acts for; one that plays,
\* seeks, goes back or monitors acts for none.
Goes(t) ==
  \/ task'[t] = Idle
  \/ /\ Flow(task[t].pc, task'[t].pc)
     /\ \/ task'[t].gen = task[t].gen
        \/ /\ task'[t].gen = NoGen
           /\ task[t].pc \in {"play", "seek_read", "seek_prepare", "prev", "chk_lock"}

\* The others stay where they are, but for the monitor, which play() and
\* whoever ends the playback cancel, and for a task that is created.
Bystander(t, y) ==
  \/ task'[y] = task[y]
  \/ y = r.check /\ task'[y] = Idle
  \/ y \in Checks /\ task'[y] = At("chk_sleep")
  \/ /\ y \in Autos /\ task[y].pc = "idle" /\ task[t].pc = "chk_lock"
     /\ task'[y] = [At("auto_start") EXCEPT !.gen = r.gen]

Steps(t) == task[t].pc # "idle" /\ Goes(t) /\ \A y \in Tasks \ {t} : Bystander(t, y)

\* A step that suspends its task and nothing more disturbs nobody.
LEMMA SuspendLeavesOthers ==
  ASSUME NEW t \in Tasks, task \in [Tasks -> Locals]
  PROVE \A l, lk : Suspend(t, l, task, lk) \/ Acquire(t, l, task, lk)
          => task'[t] = l /\ \A y \in Tasks \ {t} : Bystander(t, y)
  BY PutAfter DEF Bystander

\* Every step follows the control flow, and leaves the bystanders alone.
LEMMA StepGoes ==
  ASSUME TypeOK, NEW t \in Tasks, Step(t)
  PROVE  Steps(t)
  <1>a. task[t] \in Locals /\ task \in [Tasks -> Locals] /\ r.check \in Checks \cup {NoTask}
    BY DEF TypeOK, RendererType
  <1>b. \A x : /\ [task[t] EXCEPT !.pc = x].pc = x
               /\ [task[t] EXCEPT !.pc = x].gen = task[t].gen
    BY <1>a DEF Locals
  <1>c. \A x : At(x).pc = x /\ At(x).gen = NoGen
    BY DEF At, Idle
  <1>d. Idle.pc = "idle"
    BY DEF Idle
  <1>e. Cancelled(r.check) \in [Tasks -> Locals]
    BY CancelledType
  <1>f. \A y \in Tasks : Cancelled(r.check)[y] = IF y = r.check THEN Idle ELSE task[y]
    BY DEF Cancelled
  <1>1. CASE \/ SetUriBody(t) \/ PlayNoUri(t) \/ PlayFails(t) \/ PlayRaises(t)
             \/ SeekSoft(t) \/ SeekPaused(t) \/ SeekFails(t)
             \/ NextFails(t) \/ PreviousDone(t) \/ CheckEnds(t)
    <2>1. \E lk : Suspend(t, Idle, task, lk)
      BY <1>1 DEF SetUriBody, PlayNoUri, PlayFails, PlayRaises, SeekSoft,
           SeekPaused, SeekFails, NextFails, PreviousDone, CheckEnds, Finish
    <2>2. task[t].pc # "idle"
      BY <1>1 DEF SetUriBody, PlayNoUri, PlayFails, PlayRaises, SeekSoft,
           SeekPaused, SeekFails, NextFails, PreviousDone, CheckEnds, InSection, Resumes
    <2>. QED BY <1>a, <2>1, <2>2, SuspendLeavesOthers DEF Steps, Goes
  <1>2. CASE SeekRaises(t) \/ NextRaises(t)
    <2>1. \E lk : Suspend(t, Idle, task, lk)
      BY <1>2 DEF SeekRaises, NextRaises, Finish
    <2>2. task[t].pc # "idle"
      BY <1>2 DEF SeekRaises, NextRaises, InSection, Resumes
    <2>. QED BY <1>a, <2>1, <2>2, SuspendLeavesOthers DEF Steps, Goes
  <1>3. CASE FinishAndCancelCheck(t) /\ task[t].pc # "idle"
    <2>1. \E lk : Suspend(t, Idle, Cancelled(r.check), lk)
      BY <1>3 DEF FinishAndCancelCheck
    <2>. QED BY <1>3, <2>1, <1>e, <1>f, PutAfter DEF Steps, Goes, Bystander
  <1>4. CASE PauseDone(t) \/ StopDone(t) \/ EndOfTrack(t)
    BY <1>3, <1>4 DEF PauseDone, StopDone, EndOfTrack, InSection
  <1>5. CASE ResetBody(t)
    <2>1. CASE Finish(t, task)
      BY <1>a, <1>5, <2>1, SuspendLeavesOthers DEF ResetBody, InSection, Finish, Steps, Goes
    <2>. QED BY <1>3, <1>5, <2>1 DEF ResetBody, InSection
  <1>6. ASSUME NEW x, Flow(task[t].pc, x), NEW lk,
               \/ Suspend(t, [task[t] EXCEPT !.pc = x], task, lk)
               \/ Acquire(t, [task[t] EXCEPT !.pc = x], task, lk)
        PROVE  Steps(t)
    <2>1. task'[t] = [task[t] EXCEPT !.pc = x] /\ \A y \in Tasks \ {t} : Bystander(t, y)
      BY <1>a, <1>6, SuspendLeavesOthers
    <2>2. task[t].pc # "idle"
      BY <1>6 DEF Flow
    <2>. QED BY <1>b, <1>6, <2>1, <2>2 DEF Steps, Goes
  <1>7. CASE PlayNotified(t) \/ PlayCall(t) \/ PauseCall(t) \/ StopCall(t) \/ SeekStopped(t)
    BY <1>6, <1>7 DEF PlayNotified, PlayCall, PauseCall, StopCall, CallSpeaker, SeekStopped,
       Resumes, InSection, Flow
  <1>8. CASE NextStopped(t) \/ NextTransitioning(t) \/ NextCalled(t) \/ NextMark(t)
    BY <1>6, <1>8 DEF NextStopped, NextTransitioning, NextCalled, NextMark,
       Resumes, InSection, Flow
  <1>9. CASE NextGivesUp(t) \/ EndStopped(t) \/ EndSlept(t) \/ CheckWakes(t)
    BY <1>6, <1>9 DEF NextGivesUp, EndStopped, EndSlept, CheckWakes,
       Resumes, InSection, Flow
  <1>10. ASSUME NEW l, Flow(task[t].pc, l.pc), NEW lk,
                \/ l.gen = task[t].gen
                \/ /\ l.gen = NoGen
                   /\ task[t].pc \in {"play", "seek_read", "seek_prepare", "prev", "chk_lock"},
                Suspend(t, l, task, lk) \/ Acquire(t, l, task, lk)
         PROVE  Steps(t)
    <2>1. task'[t] = l /\ \A y \in Tasks \ {t} : Bystander(t, y)
      BY <1>a, <1>10, SuspendLeavesOthers
    <2>2. task[t].pc # "idle"
      BY <1>10 DEF Flow
    <2>. QED BY <1>10, <2>1, <2>2 DEF Steps, Goes
  <1>11. CASE SeekBegin(t)
    <2>. DEFINE pc == IF r.transport = "PLAYING" THEN "seek_stop" ELSE "seek_call"
                l == [task[t] EXCEPT !.pc = pc, !.was = r.transport]
    <2>1. l.pc = pc /\ l.gen = task[t].gen
      BY <1>a DEF Locals
    <2>2. Suspend(t, l, task, lock) /\ task[t].pc = "seek_lock"
      BY <1>11 DEF SeekBegin, InSection
    <2>3. Flow("seek_lock", pc)
      BY DEF Flow
    <2>. HIDE DEF l, pc
    <2>. QED BY <1>10, <2>1, <2>2, <2>3
  <1>12. CASE NextSwitch(t)
    <2>. DEFINE l == [task[t] EXCEPT !.pc = "next_trans", !.media = r.next]
    <2>1. l.pc = "next_trans" /\ l.gen = task[t].gen
      BY <1>a DEF Locals
    <2>2. Acquire(t, l, task, lock) /\ task[t].pc = "next_sleep"
      BY <1>12 DEF NextSwitch, Resumes
    <2>. HIDE DEF l
    <2>. QED BY <1>10, <2>1, <2>2 DEF Flow
  <1>13. CASE SeekRead(t)
    <2>. DEFINE l == [At("seek_prepare") EXCEPT !.media = r.uri]
    <2>1. l.pc = "seek_prepare" /\ l.gen = NoGen
      BY DEF At, Idle
    <2>2. \/ Suspend(t, l, task, Leave(lock, t))
          \/ Acquire(t, At("seek_lock"), task, Leave(lock, t))
      BY <1>13 DEF SeekRead
    <2>3. task[t].pc = "seek_read"
      BY <1>13 DEF SeekRead, InSection
    <2>. HIDE DEF l
    <2>. QED BY <1>10, <1>c, <2>1, <2>2, <2>3 DEF Flow
  <1>14. CASE SeekPrepared(t)
    <2>1. PICK m : Acquire(t, [At("seek_lock") EXCEPT !.media = m], task, lock)
      BY <1>14 DEF SeekPrepared
    <2>. DEFINE l == [At("seek_lock") EXCEPT !.media = m]
    <2>2. l.pc = "seek_lock" /\ l.gen = NoGen
      BY DEF At, Idle
    <2>3. Acquire(t, l, task, lock) /\ task[t].pc = "seek_prepare"
      BY <1>14, <2>1 DEF SeekPrepared, Resumes
    <2>. HIDE DEF l
    <2>. QED BY <1>10, <2>2, <2>3 DEF Flow
  <1>15. CASE SeekSucceeds(t)
    <2>1. task[t].pc = "seek_call" /\ Flow("seek_call", "seek_pause")
      BY <1>15 DEF SeekSucceeds, InSection, Flow
    <2>2. \/ Suspend(t, [task[t] EXCEPT !.pc = "seek_pause"], task, lock)
          \/ Suspend(t, Idle, task, Leave(lock, t))
      BY <1>15 DEF SeekSucceeds, Finish
    <2>3. CASE Suspend(t, Idle, task, Leave(lock, t))
      BY <1>a, <2>1, <2>3, SuspendLeavesOthers DEF Steps, Goes
    <2>. QED BY <1>6, <2>1, <2>2, <2>3
  <1>16. CASE NextWakes(t) \/ AutoStart(t)
    <2>1. NextTrack(t, task[t].gen) /\ task[t].pc \in {"auto_start", "next_wait"}
      BY <1>16 DEF NextWakes, AutoStart, Resumes
    <2>. DEFINE m == [At("next_stop") EXCEPT !.gen = task[t].gen]
                k == [At("next_mark") EXCEPT !.gen = task[t].gen]
    <2>2. /\ m.pc = "next_stop" /\ m.gen = task[t].gen
          /\ k.pc = "next_mark" /\ k.gen = task[t].gen
      BY DEF At, Idle
    <2>3. \/ Suspend(t, Idle, task, lock) \/ Suspend(t, m, task, lock)
          \/ Acquire(t, k, task, lock)
      BY <2>1 DEF NextTrack
    <2>. HIDE DEF m, k
    <2>4. CASE Suspend(t, Idle, task, lock)
      BY <1>a, <2>1, <2>4, SuspendLeavesOthers DEF Steps, Goes
    <2>. QED BY <1>10, <2>1, <2>2, <2>3, <2>4 DEF Flow
  <1>17. CASE PreviousBody(t)
    <2>. DEFINE l == [At("prev_call") EXCEPT !.media = r.uri]
    <2>1. l.pc = "prev_call" /\ l.gen = NoGen
      BY DEF At, Idle
    <2>2. Suspend(t, l, task, Leave(lock, t)) \/ Suspend(t, Idle, task, Leave(lock, t))
      BY <1>17 DEF PreviousBody
    <2>3. task[t].pc = "prev"
      BY <1>17 DEF PreviousBody, InSection
    <2>. HIDE DEF l
    <2>4. CASE Suspend(t, Idle, task, Leave(lock, t))
      BY <1>a, <2>3, <2>4, SuspendLeavesOthers DEF Steps, Goes
    <2>. QED BY <1>10, <1>c, <2>1, <2>2, <2>3, <2>4 DEF Flow
  <1>18. CASE CheckAgain(t)
    <2>1. PICK b : Suspend(t, [At("chk_sleep") EXCEPT !.near = b], task, Leave(lock, t))
      BY <1>18 DEF CheckAgain
    <2>. DEFINE l == [At("chk_sleep") EXCEPT !.near = b]
    <2>2. l.pc = "chk_sleep" /\ l.gen = NoGen
      BY DEF At, Idle
    <2>3. Suspend(t, l, task, Leave(lock, t)) /\ task[t].pc = "chk_lock"
      BY <1>18, <2>1 DEF CheckAgain, InSection
    <2>. HIDE DEF l
    <2>. QED BY <1>10, <2>2, <2>3 DEF Flow
  <1>19. CASE CheckSpawnsNext(t)
    <2>. DEFINE l == [At("auto_start") EXCEPT !.gen = r.gen]
    <2>1. PICK a \in Done(Autos) : Suspend(t, Idle, Spawned(task, a, l), Leave(lock, t))
      BY <1>19 DEF CheckSpawnsNext, Finish
    <2>2. a \in Autos /\ task[a].pc = "idle" /\ a \in Tasks
      BY DEF Done, Tasks
    <2>3. task[t].pc = "chk_lock"
      BY <1>19 DEF CheckSpawnsNext, InSection
    <2>4. \A y \in Tasks : task'[y] = IF y = t THEN Idle ELSE IF y = a THEN l ELSE task[y]
      BY <1>a, <2>1, <2>2 DEF Suspend, Spawned
    <2>. QED BY <2>2, <2>3, <2>4 DEF Steps, Goes, Bystander
  <1>20. CASE PlaySucceeds(t)
    <2>1. PICK c \in Checks :
            Suspend(t, Idle, Spawned(task, c, At("chk_sleep")), Leave(lock, t))
      BY <1>20 DEF PlaySucceeds, Finish, Done
    <2>2. c \in Tasks
      BY DEF Tasks
    <2>3. task[t].pc = "play_call"
      BY <1>20 DEF PlaySucceeds, InSection
    <2>4. \A y \in Tasks : task'[y] = IF y = t THEN Idle
                                    ELSE IF y = c THEN At("chk_sleep") ELSE task[y]
      BY <1>a, <2>1, <2>2 DEF Suspend, Spawned
    <2>. QED BY <2>3, <2>4 DEF Steps, Goes, Bystander
  <1>21. CASE NextSucceeds(t)
    <2>1. PICK c \in Checks : Suspend(t, Idle, Spawned(Cancelled(r.check), c, At("chk_sleep")),
                                      Leave(Leave(lock, r.check), t))
      BY <1>21 DEF NextSucceeds, Done
    <2>2. c \in Tasks
      BY DEF Tasks
    <2>3. task[t].pc = "next_ok"
      BY <1>21 DEF NextSucceeds, InSection
    <2>4. \A y \in Tasks : task'[y] = IF y = t THEN Idle ELSE IF y = c THEN At("chk_sleep")
                                      ELSE IF y = r.check THEN Idle ELSE task[y]
      BY <1>a, <2>1, <2>2 DEF Suspend, Spawned, Cancelled
    <2>. QED BY <2>3, <2>4 DEF Steps, Goes, Bystander
  <1>22. ASSUME NEW l \in Locals, NEW ts \in [Tasks -> Locals], NEW lk,
                ReleaseFirst(t, l, ts, lk)
         PROVE  /\ task'[t].pc \in {"play_notify", "play_lock"} /\ task'[t].gen = l.gen
                /\ \A y \in Tasks \ {t} : task'[y] = ts[y]
    <2>1. task'[t] \in {[l EXCEPT !.pc = "play_notify"], [l EXCEPT !.pc = "play_lock"]}
      BY <1>22 DEF ReleaseFirst, Suspend, Acquire
    <2>. QED BY <1>22, <2>1, ReleasePc DEF Locals
  <1>23. CASE PlaySeekReady(t)
    <2>1. task[t].pc = "play_seek" /\ ReleaseFirst(t, task[t], task, lock)
      BY <1>23 DEF PlaySeekReady, InSection
    <2>2. /\ task'[t].pc \in {"play_notify", "play_lock"} /\ task'[t].gen = task[t].gen
          /\ \A y \in Tasks \ {t} : task'[y] = task[y]
      BY <1>a, <1>22, <2>1
    <2>. QED BY <2>1, <2>2 DEF Steps, Goes, Bystander, Flow
  <1>24. CASE PlayBegin(t)
    <2>. DEFINE l == [At("play_seek") EXCEPT !.media = r.uri]
    <2>1. l \in Locals /\ l.pc = "play_seek" /\ l.gen = NoGen
      BY DEF At, Idle, Locals, TypeOK, RendererType, Pcs, PlayPcs, States
    <2>2. \/ Suspend(t, l, Cancelled(r.check), Leave(lock, r.check))
          \/ ReleaseFirst(t, l, Cancelled(r.check), Leave(lock, r.check))
      BY <1>24 DEF PlayBegin
    <2>3. task[t].pc = "play"
      BY <1>24 DEF PlayBegin, InSection
    <2>. HIDE DEF l
    <2>4. /\ task'[t].pc \in {"play_seek", "play_notify", "play_lock"} /\ task'[t].gen = NoGen
          /\ \A y \in Tasks \ {t} : task'[y] = Cancelled(r.check)[y]
      BY <1>e, <1>22, <2>1, <2>2, PutAfter
    <2>. QED BY <1>f, <2>3, <2>4 DEF Steps, Goes, Bystander, Flow
  <1>. QED BY <1>1, <1>2, <1>4, <1>5, <1>7, <1>8, <1>9, <1>11, <1>12, <1>13, <1>14, <1>15,
              <1>16, <1>17, <1>18, <1>19, <1>20, <1>21, <1>23, <1>24 DEF Step

-----------------------------------------------------------------------------
(* What a command does when it arrives.                                    *)

\* The command goes to its first await, for no generation; it may cancel the
\* automatic next track.
Enters(t, pc) ==
  /\ task[t].pc = "idle" /\ MayRun(t)
  /\ task'[t].pc = pc /\ task'[t].gen = NoGen
  /\ r' \in {r, [r EXCEPT !.auto = NoTask]}
  /\ \A y \in Tasks \ {t} : task'[y] = task[y] \/ (y = r.auto /\ task'[y] = Idle)

\* Seek, Next and Previous leave it alone.
EntersAlone(t, pc) ==
  /\ Enters(t, pc) /\ r' = r /\ Alone(t)
  /\ loop' = t \/ (loop' = NoTask /\ (pc # "next_stop" => lock.queued # {}))

\* The others do cancel it, before they ask for the lock.
EntersCancelling(t, pc) ==
  /\ Enters(t, pc) /\ r'.auto = NoTask
  /\ \A y \in Tasks \ {t} : task'[y] = IF y = r.auto THEN Idle ELSE task[y]
  /\ loop' = t \/ (loop' = NoTask /\ Leave(lock, r.auto).queued # {})

\* So does every command; which await it is.
LEMMA CommandEnters ==
  ASSUME TypeOK, NEW t \in Handlers,
         Command(t) \/ IdleReset(t) \/ AutomaticPlay(t)
  PROVE  \/ EntersCancelling(t, "set_uri") \/ EntersCancelling(t, "play")
         \/ EntersCancelling(t, "pause") \/ EntersCancelling(t, "stop")
         \/ EntersCancelling(t, "reset")
         \/ "Seek" \in Commands /\ (EntersAlone(t, "seek_lock") \/ EntersAlone(t, "seek_read"))
         \/ "Next" \in Commands /\ (EntersAlone(t, "next_stop") \/ EntersAlone(t, "next_mark"))
         \/ "Previous" \in Commands /\ EntersAlone(t, "prev")
  <1>a. t \in Tasks /\ task \in [Tasks -> Locals]
    BY DEF Handlers, Tasks, TypeOK
  <1>b. \A pc : At(pc).pc = pc /\ At(pc).gen = NoGen
    BY DEF At, Idle
  <1>1. ASSUME NEW l, l.gen = NoGen, CancelAutoNextAndAcquire(t, l)
        PROVE  EntersCancelling(t, l.pc)
    <2>1. Cancelled(r.auto) \in [Tasks -> Locals]
      BY CancelledType
    <2>2. \A y \in Tasks : task'[y] = IF y = t THEN l ELSE Cancelled(r.auto)[y]
      BY <1>1, <1>a, <2>1, PutAfter DEF CancelAutoNextAndAcquire
    <2>3. \A y \in Tasks : Cancelled(r.auto)[y] = IF y = r.auto THEN Idle ELSE task[y]
      BY DEF Cancelled
    <2>4. /\ task'[t] = l
          /\ \A y \in Tasks \ {t} : task'[y] = IF y = r.auto THEN Idle ELSE task[y]
      BY <1>a, <2>2, <2>3
    <2>5. loop' = t \/ (loop' = NoTask /\ Leave(lock, r.auto).queued # {})
      BY <1>1 DEF CancelAutoNextAndAcquire, Acquire
    <2>6. r' = [r EXCEPT !.auto = NoTask] /\ r'.auto = NoTask
      BY <1>1 DEF CancelAutoNextAndAcquire, TypeOK, RendererType
    <2>7. Enters(t, l.pc)
      BY <1>1, <2>4, <2>6 DEF Enters, CancelAutoNextAndAcquire, Resumes
    <2>. QED BY <2>4, <2>5, <2>6, <2>7 DEF EntersCancelling
  <1>2. ASSUME NEW l, l.gen = NoGen, Resumes(t, "idle"), r' = r,
               \/ Suspend(t, l, task, lock) /\ l.pc = "next_stop"
               \/ Acquire(t, l, task, lock)
        PROVE  EntersAlone(t, l.pc)
    <2>1. \A y \in Tasks : task'[y] = IF y = t THEN l ELSE task[y]
      BY <1>2, <1>a, PutAfter
    <2>2. loop' = t \/ (loop' = NoTask /\ (l.pc # "next_stop" => lock.queued # {}))
      BY <1>2 DEF Suspend, Acquire
    <2>3. \A y \in Tasks \ {t} : task'[y] = task[y]
      BY <2>1
    <2>4. Enters(t, l.pc)
      BY <1>2, <1>a, <2>1, <2>3 DEF Enters, Resumes
    <2>5. Alone(t)
      BY <2>3 DEF Alone
    <2>. QED BY <1>2, <2>2, <2>4, <2>5 DEF EntersAlone
  <1>3. ASSUME NEW u, SetUri(t, u) PROVE EntersCancelling(t, "set_uri")
    <2>. DEFINE l == [At("set_uri") EXCEPT !.media = u]
    <2>1. l.pc = "set_uri" /\ l.gen = NoGen
      BY DEF At, Idle
    <2>2. CancelAutoNextAndAcquire(t, l)
      BY <1>3 DEF SetUri
    <2>. HIDE DEF l
    <2>. QED BY <1>1, <2>1, <2>2
  <1>4. /\ Play(t) => EntersCancelling(t, "play")
        /\ Pause(t) => EntersCancelling(t, "pause")
        /\ Stop(t) => EntersCancelling(t, "stop")
        /\ Reset(t) => EntersCancelling(t, "reset")
    BY <1>1, <1>b DEF Play, Pause, Stop, Reset
  <1>5. Previous(t) => EntersAlone(t, "prev")
    BY <1>2, <1>b DEF Previous
  <1>6. Seek(t) => EntersAlone(t, "seek_lock") \/ EntersAlone(t, "seek_read")
    BY <1>2, <1>b DEF Seek
  <1>7. Next_(t) => EntersAlone(t, "next_stop") \/ EntersAlone(t, "next_mark")
    <2>. DEFINE m == [At("next_stop") EXCEPT !.gen = NoGen]
                k == [At("next_mark") EXCEPT !.gen = NoGen]
    <2>1. m.pc = "next_stop" /\ m.gen = NoGen /\ k.pc = "next_mark" /\ k.gen = NoGen
      BY DEF At, Idle
    <2>2. Next_(t) => /\ Resumes(t, "idle") /\ r' = r
                      /\ Suspend(t, m, task, lock) \/ Acquire(t, k, task, lock)
      BY DEF Next_, NextTrack, Stale
    <2>. HIDE DEF m, k
    <2>. QED BY <1>2, <2>1, <2>2
  <1>. QED BY <1>3, <1>4, <1>5, <1>6, <1>7 DEF Command, IdleReset, AutomaticPlay

-----------------------------------------------------------------------------
(* Who runs what.                                                          *)

AutoPcs == {"idle", "auto_start"} \cup SwitchPcs \cup NoNextPcs

\* Handlers are neither monitors nor automatic, and the latter do nothing
\* but next_track().
RoleInv ==
  /\ \A h \in Handlers : /\ task[h].pc \notin {"chk_sleep", "chk_lock", "auto_start"}
                         /\ task[h].gen = NoGen
  /\ \A a \in Autos : task[a].pc \in AutoPcs

\* A task keeps to its role, whoever creates or cancels it.
LEMMA StepRole ==
  ASSUME IInv, RoleInv, NEW t \in Tasks, Step(t)
  PROVE  RoleInv'
  <1>1. Steps(t) /\ r.check \in Checks \cup {NoTask}
    BY StepGoes DEF IInv, TypeOK, RendererType
  <1>2. /\ Idle.pc = "idle" /\ Idle.gen = NoGen
        /\ \A g : [At("auto_start") EXCEPT !.gen = g].pc = "auto_start"
    BY DEF Idle, At
  <1>3. ASSUME NEW h \in Handlers
        PROVE  /\ task'[h].pc \notin {"chk_sleep", "chk_lock", "auto_start"}
               /\ task'[h].gen = NoGen
    <2>0. h \in Tasks /\ h \notin Checks /\ h \notin Autos
      BY TasksAssumption DEF Handlers, Tasks
    <2>1. CASE h = t
      BY <1>1, <1>2, <2>0, <2>1 DEF RoleInv, Steps, Goes, Flow
    <2>2. CASE h # t
      <3>1. task'[h] = task[h]
        BY <1>1, <2>0, <2>2, TasksAssumption DEF Steps, Bystander
      <3>. QED BY <3>1 DEF RoleInv
    <2>. QED BY <2>1, <2>2
  <1>4. ASSUME NEW a \in Autos PROVE task'[a].pc \in AutoPcs
    <2>0. a \in Tasks /\ a \notin Checks /\ a \notin Handlers
      BY TasksAssumption DEF Handlers, Tasks
    <2>1. CASE a = t
      <3>1. task[a].pc \in AutoPcs
        BY DEF RoleInv
      <3>. QED BY <1>1, <1>2, <2>1, <3>1
           DEF Steps, Goes, Flow, AutoPcs, SwitchPcs, NoNextPcs
    <2>2. CASE a # t
      <3>1. a # r.check
        BY <1>1, <2>0, TasksAssumption
      <3>2. \/ task'[a] = task[a]
            \/ task'[a] = [At("auto_start") EXCEPT !.gen = r.gen]
        BY <1>1, <2>0, <2>2, <3>1 DEF Steps, Bystander
      <3>. QED BY <1>2, <3>2 DEF RoleInv, AutoPcs
    <2>. QED BY <2>1, <2>2
  <1>. QED BY <1>3, <1>4 DEF RoleInv

\* A command starts in a task that is neither a monitor nor automatic.
LEMMA CommandRole ==
  ASSUME IInv, RoleInv, NEW t \in Handlers,
         Command(t) \/ IdleReset(t) \/ AutomaticPlay(t)
  PROVE  RoleInv'
  <1>1. PICK pc : /\ pc \notin {"chk_sleep", "chk_lock", "auto_start"}
                  /\ Enters(t, pc)
    BY CommandEnters DEF IInv, EntersAlone, EntersCancelling
  <1>2. r.auto \in Autos \cup {NoTask} /\ Idle.pc = "idle" /\ t \in Tasks
    BY DEF IInv, TypeOK, RendererType, Idle, Handlers, Tasks
  <1>. QED BY <1>1, <1>2, TasksAssumption DEF Enters, RoleInv, Handlers, Tasks, AutoPcs

\* Nobody runs at first.
LEMMA InitRole == Init => RoleInv
  BY DEF Init, RoleInv, Idle, AutoPcs, Tasks, Handlers

\* The invariant every theorem below starts from.
BaseInv == IInv /\ RoleInv

\* The invariant holds at first.
LEMMA InitBase == Init => BaseInv
  BY InitIInv, InitRole DEF BaseInv

\* And it is inductive.
LEMMA NextBase == BaseInv /\ [Next]_vars => BaseInv'
  <1>. SUFFICES ASSUME BaseInv, [Next]_vars PROVE BaseInv'
    OBVIOUS
  <1>. USE DEF BaseInv
  <1>0. IInv'
    BY NextKeeps
  <1>1. CASE RunTask
    BY <1>0, <1>1, StepRole DEF RunTask
  <1>2. ASSUME NEW u, SetNext(u) PROVE RoleInv'
    BY <1>2 DEF SetNext, RoleInv
  <1>3. CASE SoapStep \/ AppStep
    BY <1>0, <1>2, <1>3, CommandRole DEF SoapStep, AppStep, Handlers
  <1>4. CASE UNCHANGED vars
    BY <1>0, <1>4 DEF vars, RoleInv
  <1>. QED BY <1>1, <1>3, <1>4 DEF Next

-----------------------------------------------------------------------------
(* The clock.                                                              *)

\* Only previous_track() starts the clock of a paused renderer.
FrozenInv == PausedPositionFrozen /\ \A t \in Tasks : task[t].pc # "prev"

\* A command that arrives moves neither the media nor the state: it has not got
\* the lock yet.
LEMMA CommandLeavesFields ==
  ASSUME TypeOK, NEW t, NEW pc, Enters(t, pc)
  PROVE  /\ r'.transport = r.transport /\ r'.start = r.start /\ r'.dur = r.dur
         /\ r'.uri = r.uri /\ r'.gen = r.gen /\ r'.check = r.check
  BY DEF Enters, TypeOK, RendererType

\* SetNextAVTransportURI sets the next media and nothing else.
LEMMA SetNextLeavesFields ==
  ASSUME TypeOK, NEW u, SetNext(u)
  PROVE  /\ r'.transport = r.transport /\ r'.start = r.start /\ r'.dur = r.dur
         /\ r'.uri = r.uri /\ r'.gen = r.gen /\ r'.check = r.check
         /\ r'.auto = r.auto /\ UNCHANGED <<task, lock, loop, spk>>
  BY DEF SetNext, TypeOK, RendererType

\* A step of a task does not lead to Previous.
LEMMA NobodyGoesTo ==
  ASSUME NEW t \in Tasks, Steps(t), NEW y \in Tasks, task'[y].pc # task[y].pc
  PROVE  \/ task'[y].pc \in {"idle", "chk_sleep", "auto_start"}
         \/ y = t /\ Flow(task[t].pc, task'[t].pc)
  <1>1. /\ Idle.pc = "idle" /\ At("chk_sleep").pc = "chk_sleep"
        /\ \A g : [At("auto_start") EXCEPT !.gen = g].pc = "auto_start"
    BY DEF Idle, At
  <1>2. CASE y = t
    BY <1>1, <1>2 DEF Steps, Goes
  <1>3. CASE y # t
    <2>1. \/ task'[y] \in {task[y], Idle, At("chk_sleep")}
          \/ task'[y] = [At("auto_start") EXCEPT !.gen = r.gen]
      BY <1>3 DEF Steps, Bystander
    <2>. QED BY <1>1, <2>1
  <1>. QED BY <1>2, <1>3

\* The step of the induction.
LEMMA NextFrozen ==
  ASSUME "Previous" \notin Commands, BaseInv, FrozenInv, [Next]_vars
  PROVE  FrozenInv'
  <1>. USE DEF BaseInv, IInv
  <1>1. ASSUME NEW t \in Tasks, Step(t) PROVE FrozenInv'
    <2>1. ClockMove(t) /\ Steps(t) /\ task[t].pc # "prev"
      BY <1>1, ClockMoves, StepGoes DEF FrozenInv
    <2>2. PausedPositionFrozen'
      BY <2>1 DEF ClockMove, Announces, FrozenInv, PausedPositionFrozen
    <2>3. \A y \in Tasks : task'[y].pc # "prev"
      BY <2>1, NobodyGoesTo DEF FrozenInv, Flow
    <2>. QED BY <2>2, <2>3 DEF FrozenInv
  <1>2. ASSUME NEW t \in Handlers, Command(t) \/ IdleReset(t) \/ AutomaticPlay(t)
        PROVE  FrozenInv'
    <2>1. PICK pc : pc # "prev" /\ Enters(t, pc)
      BY <1>2, CommandEnters DEF EntersAlone, EntersCancelling
    <2>2. PausedPositionFrozen'
      BY <2>1, CommandLeavesFields DEF FrozenInv, PausedPositionFrozen
    <2>3. \A y \in Tasks : task'[y].pc # "prev"
      BY <2>1 DEF Enters, FrozenInv, Idle
    <2>. QED BY <2>2, <2>3 DEF FrozenInv
  <1>3. ASSUME NEW u, SetNext(u) PROVE FrozenInv'
    BY <1>3, SetNextLeavesFields DEF FrozenInv, PausedPositionFrozen
  <1>4. CASE UNCHANGED vars
    BY <1>4 DEF vars, FrozenInv, PausedPositionFrozen
  <1>. QED BY <1>1, <1>2, <1>3, <1>4 DEF Next, SoapStep, AppStep, RunTask, Handlers

\* Unless Previous is sent, the clock of a paused renderer stands still.
THEOREM PausedAlwaysFrozen ==
  ASSUME "Previous" \notin Commands
  PROVE  Spec => []PausedPositionFrozen
  <1>1. Init => FrozenInv
    BY DEF Init, FrozenInv, PausedPositionFrozen, Idle
  <1>2. BaseInv /\ FrozenInv /\ [Next]_vars => FrozenInv'
    BY NextFrozen
  <1>3. FrozenInv => PausedPositionFrozen
    BY DEF FrozenInv
  <1>. QED BY <1>1, <1>2, <1>3, InitBase, NextBase, PTL DEF Spec

\* A clock that does not run in PLAYING is about to be started by play(),
\* which announced PLAYING for a speaker that needs transcoding.
ClockInv ==
  r.transport = "PLAYING" /\ ~r.start
    => /\ NeedsTranscode
       /\ \E t \in Handlers : task[t].pc \in {"play_notify", "play_lock", "play_call"}

\* The step of the induction: only play() announces PLAYING before the clock
\* runs, and it goes on to the speaker.
LEMMA NextClock ==
  ASSUME ~(NeedsTranscode /\ SpeakerRaises), BaseInv, ClockInv, [Next]_vars
  PROVE  ClockInv'
  <1>. USE DEF BaseInv, IInv
  <1>. DEFINE Coming(h) == task[h].pc \in {"play_notify", "play_lock", "play_call"}
  <1>0. r.check \in Checks \cup {NoTask} /\ r.start \in BOOLEAN /\ r'.start \in BOOLEAN
        /\ \A h \in Handlers : /\ h \in Tasks /\ h # r.check /\ h # r.auto
                               /\ h \notin Checks /\ h \notin Autos
    BY NextKeeps, TasksAssumption DEF TypeOK, RendererType, Handlers, Tasks
  <1>1. ASSUME NEW t \in Tasks, Step(t) PROVE ClockInv'
    <2>1. ClockMove(t) /\ Steps(t)
      BY <1>1, ClockMoves, StepGoes
    <2>2. CASE Announces(t)
      <3>1. t \in Handlers
        <4>1. MonitorPcs' /\ RoleInv'
          BY NextKeeps, NextBase
        <4>. QED BY <2>2, <4>1
             DEF Announces, RoleInv, MonitorPcs, AutoPcs, SwitchPcs, NoNextPcs, Handlers,
                 Tasks
      <3>. QED BY <2>2, <3>1 DEF Announces, ClockInv
    <2>3. ASSUME r'.transport = "PLAYING", ~r'.start, ~Announces(t) PROVE ClockInv'
      <3>1. r.transport = "PLAYING" /\ ~r.start
        BY <1>0, <2>1, <2>3 DEF ClockMove
      <3>2. PICK h \in Handlers : NeedsTranscode /\ Coming(h)
        BY <3>1 DEF ClockInv
      <3>3. CASE h # t
        <4>1. task'[h] = task[h]
          BY <1>0, <2>1, <3>3 DEF Steps, Bystander
        <4>. QED BY <3>2, <4>1 DEF ClockInv
      <3>4. CASE h = t
        <4>1. CASE PlayNotified(t) \/ PlayCall(t)
          <5>1. task'[t].pc \in {"play_lock", "play_call"}
            <6>1. \A x : [task[t] EXCEPT !.pc = x].pc = x
              BY <1>1 DEF TypeOK, Locals
            <6>2. task \in [Tasks -> Locals]
              BY DEF TypeOK
            <6>. QED BY <1>1, <4>1, <6>1, <6>2
                 DEF PlayNotified, PlayCall, Acquire, Suspend
          <5>. QED BY <3>2, <3>4, <5>1 DEF ClockInv
        <4>2. CASE PlaySucceeds(t) \/ PlayFails(t)
          BY <2>3, <4>2 DEF PlaySucceeds, PlayFails, TypeOK, RendererType
        <4>3. ~PlayRaises(t)
          BY <3>2 DEF PlayRaises
        <4>. QED BY <1>1, <3>2, <3>4, <4>1, <4>2, <4>3, StepFrom
      <3>. QED BY <3>3, <3>4
    <2>. QED BY <2>2, <2>3 DEF ClockInv
  <1>2. ASSUME NEW t \in Handlers, Command(t) \/ IdleReset(t) \/ AutomaticPlay(t)
        PROVE  ClockInv'
    <2>1. PICK pc : Enters(t, pc)
      BY <1>2, CommandEnters DEF EntersAlone, EntersCancelling
    <2>2. r'.transport = r.transport /\ r'.start = r.start
      BY <2>1, CommandLeavesFields
    <2>3. \A h \in Handlers : Coming(h) => h # t /\ Coming(h)'
      BY <1>0, <2>1 DEF Enters
    <2>. QED BY <2>2, <2>3 DEF ClockInv
  <1>3. ASSUME NEW u, SetNext(u) PROVE ClockInv'
    BY <1>3, SetNextLeavesFields DEF ClockInv
  <1>4. CASE UNCHANGED vars
    BY <1>4 DEF vars, ClockInv
  <1>. QED BY <1>1, <1>2, <1>3, <1>4 DEF Next, SoapStep, AppStep, RunTask, Handlers

\* At rest, the clock runs in PLAYING, unless the speaker is one that needs
\* transcoding and may raise in play_url().
THEOREM PlayingAlwaysRuns ==
  ASSUME ~(NeedsTranscode /\ SpeakerRaises)
  PROVE  Spec => []PlayingClockRuns
  <1>1. Init => ClockInv
    BY DEF Init, ClockInv
  <1>2. BaseInv /\ ClockInv /\ [Next]_vars => ClockInv'
    BY NextClock
  <1>3. ClockInv => PlayingClockRuns
    BY DEF ClockInv, PlayingClockRuns, Quiet, Handlers
  <1>. QED BY <1>1, <1>2, <1>3, InitBase, NextBase, PTL DEF Spec

-----------------------------------------------------------------------------
(* The end of the track.                                                   *)

\* Steps at whose end the task is suspended again, the others where they were.
LEMMA GoesOn ==
  ASSUME TypeOK, NEW t \in Tasks,
         \/ PlayNotified(t) \/ PlayCall(t) \/ PauseCall(t) \/ StopCall(t)
         \/ NextStopped(t) \/ NextCalled(t) \/ NextGivesUp(t) \/ EndStopped(t)
         \/ EndSlept(t) \/ CheckWakes(t) \/ CheckAgain(t)
         \/ (AutoStart(t) \/ NextWakes(t)) /\ ~Stale(task[t].gen)
  PROVE  task'[t].pc # "idle" /\ Alone(t)
  <1>a. task \in [Tasks -> Locals] /\ task[t] \in Locals
    BY DEF TypeOK
  <1>b. \A x : [task[t] EXCEPT !.pc = x].pc = x
    BY <1>a DEF Locals
  <1>1. ASSUME NEW l, l.pc # "idle", NEW lk,
               Suspend(t, l, task, lk) \/ Acquire(t, l, task, lk)
        PROVE  task'[t].pc # "idle" /\ Alone(t)
    BY <1>a, <1>1, PutAfter DEF Alone
  <1>2. CASE PlayNotified(t) \/ PlayCall(t) \/ PauseCall(t) \/ StopCall(t)
    BY <1>1, <1>2, <1>b DEF PlayNotified, PlayCall, PauseCall, StopCall, CallSpeaker
  <1>3. CASE NextStopped(t) \/ NextCalled(t) \/ NextGivesUp(t)
    BY <1>1, <1>3, <1>b DEF NextStopped, NextCalled, NextGivesUp
  <1>4. CASE EndStopped(t) \/ EndSlept(t) \/ CheckWakes(t)
    BY <1>1, <1>4, <1>b DEF EndStopped, EndSlept, CheckWakes
  <1>5. CASE CheckAgain(t)
    <2>1. PICK b : Suspend(t, [At("chk_sleep") EXCEPT !.near = b], task, Leave(lock, t))
      BY <1>5 DEF CheckAgain
    <2>2. [At("chk_sleep") EXCEPT !.near = b].pc = "chk_sleep"
      BY DEF At, Idle
    <2>. QED BY <1>1, <2>1, <2>2
  <1>6. CASE (AutoStart(t) \/ NextWakes(t)) /\ ~Stale(task[t].gen)
    <2>1. \A pc : [At(pc) EXCEPT !.gen = task[t].gen].pc = pc
      BY DEF At, Idle
    <2>2. \/ Suspend(t, [At("next_stop") EXCEPT !.gen = task[t].gen], task, lock)
          \/ Acquire(t, [At("next_mark") EXCEPT !.gen = task[t].gen], task, lock)
      BY <1>6 DEF AutoStart, NextWakes, NextTrack
    <2>. QED BY <1>1, <2>1, <2>2
  <1>. QED BY <1>2, <1>3, <1>4, <1>5, <1>6

\* The end of the first section of play(), in full.
LEMMA ReleaseGoes ==
  ASSUME NEW t \in Tasks, NEW l \in Locals, NEW ts \in [Tasks -> Locals],
         NEW lk, ReleaseFirst(t, l, ts, lk)
  PROVE  /\ task'[t].media = l.media
         /\ \/ NeedsTranscode /\ task'[t].pc = "play_notify"
            \/ /\ ~NeedsTranscode /\ task'[t].pc = "play_lock"
               /\ loop' = IF Leave(lk, t).queued = {} THEN t ELSE NoTask
  <1>1. \A x : [l EXCEPT !.pc = x].pc = x /\ [l EXCEPT !.pc = x].media = l.media
    BY DEF Locals
  <1>2. CASE NeedsTranscode
    <2>1. task'[t] = [l EXCEPT !.pc = "play_notify"]
      BY <1>2 DEF ReleaseFirst, Suspend
    <2>. QED BY <1>1, <1>2, <2>1
  <1>3. CASE ~NeedsTranscode
    <2>1. task'[t] = [l EXCEPT !.pc = "play_lock"]
      BY <1>3 DEF ReleaseFirst, Acquire
    <2>2. loop' = IF Leave(lk, t).queued = {} THEN t ELSE NoTask
      BY <1>3 DEF ReleaseFirst, Acquire
    <2>. QED BY <1>1, <1>3, <2>1, <2>2
  <1>. QED BY <1>2, <1>3

\* Where play() is when its first section has ended, or awaits a seek URL.
Begun(t, lk) ==
  \/ task'[t].pc = "play_seek" /\ r'.transport = "TRANSITIONING"
  \/ NeedsTranscode /\ task'[t].pc = "play_notify" /\ r'.transport = "PLAYING"
  \/ /\ ~NeedsTranscode /\ task'[t].pc = "play_lock"
     /\ loop' = IF Leave(lk, t).queued = {} THEN t ELSE NoTask

\* How play() begins.
LEMMA BeginGoes ==
  ASSUME TypeOK, NEW t \in Tasks, PlayBegin(t)
  PROVE  /\ Begun(t, Leave(lock, r.check)) /\ r.uri # NoUri
         /\ task'[t].pc = "play_lock" => r'.transport = "TRANSITIONING"
         /\ task'[t].media = r.uri /\ r'.check = NoTask /\ r'.auto = r.auto
         /\ \A y \in Tasks \ {t} : task'[y] = IF y = r.check THEN Idle ELSE task[y]
  <1>. DEFINE l  == [At("play_seek") EXCEPT !.media = r.uri]
              ts == Cancelled(r.check)
              lk == Leave(lock, r.check)
              rr == [r EXCEPT !.check = NoTask, !.transport = "TRANSITIONING",
                              !.userStopped = FALSE, !.stuck = FALSE]
  <1>1. l \in Locals /\ l.pc = "play_seek" /\ l.media = r.uri
    BY DEF At, Idle, Locals, TypeOK, RendererType, Pcs, PlayPcs, States
  <1>2. /\ ts \in [Tasks -> Locals]
        /\ \A y \in Tasks : ts[y] = IF y = r.check THEN Idle ELSE task[y]
    BY CancelledType DEF Cancelled
  <1>3. /\ rr.transport = "TRANSITIONING" /\ rr.check = NoTask /\ rr.auto = r.auto
        /\ NeedsTranscode => /\ Announced(rr).transport = "PLAYING"
                             /\ Announced(rr).check = NoTask /\ Announced(rr).auto = r.auto
        /\ ~NeedsTranscode => Announced(rr) = rr
    BY DEF Announced, TypeOK, RendererType
  <1>4. /\ r.uri # NoUri
        /\ \/ Suspend(t, l, ts, lk) /\ r' = rr
           \/ ReleaseFirst(t, l, ts, lk) /\ r' = Announced(rr)
    BY DEF PlayBegin
  <1>. HIDE DEF l, ts, rr
  <1>5. CASE Suspend(t, l, ts, lk) /\ r' = rr
    <2>1. \A y \in Tasks : task'[y] = IF y = t THEN l ELSE ts[y]
      BY <1>2, <1>5, PutAfter
    <2>. QED BY <1>1, <1>2, <1>3, <1>4, <1>5, <2>1 DEF Begun
  <1>6. CASE ReleaseFirst(t, l, ts, lk) /\ r' = Announced(rr)
    <2>1. /\ task'[t].media = l.media
          /\ \/ NeedsTranscode /\ task'[t].pc = "play_notify"
             \/ /\ ~NeedsTranscode /\ task'[t].pc = "play_lock"
                /\ loop' = IF Leave(lk, t).queued = {} THEN t ELSE NoTask
          /\ \A y \in Tasks \ {t} : task'[y] = ts[y]
      BY <1>1, <1>2, <1>6, ReleaseGoes, ReleasePc
    <2>. QED BY <1>1, <1>2, <1>3, <1>4, <1>6, <2>1 DEF Begun
  <1>. QED BY <1>4, <1>5, <1>6

\* How play() goes on with its seek URL.
LEMMA SeekReadyGoes ==
  ASSUME TypeOK, NEW t \in Tasks, PlaySeekReady(t)
  PROVE  /\ Begun(t, lock)
         /\ task'[t].pc = "play_lock" => r'.transport = r.transport
         /\ task'[t].media = task[t].media /\ r'.check = r.check /\ r'.auto = r.auto
         /\ r'.uri = r.uri
         /\ \A y \in Tasks \ {t} : task'[y] = task[y]
  <1>1. /\ NeedsTranscode => Announced(r).transport = "PLAYING"
        /\ ~NeedsTranscode => Announced(r) = r
        /\ Announced(r).check = r.check /\ Announced(r).auto = r.auto
        /\ Announced(r).uri = r.uri
    BY DEF Announced, TypeOK, RendererType
  <1>2. ReleaseFirst(t, task[t], task, lock) /\ r' = Announced(r)
        /\ task[t] \in Locals /\ task \in [Tasks -> Locals]
    BY DEF PlaySeekReady, TypeOK
  <1>3. /\ task'[t].media = task[t].media
        /\ \/ NeedsTranscode /\ task'[t].pc = "play_notify"
           \/ /\ ~NeedsTranscode /\ task'[t].pc = "play_lock"
              /\ loop' = IF Leave(lock, t).queued = {} THEN t ELSE NoTask
        /\ \A y \in Tasks \ {t} : task'[y] = task[y]
    BY <1>2, ReleaseGoes, ReleasePc
  <1>. QED BY <1>1, <1>2, <1>3 DEF Begun

AwayPcs     == {"idle", "prev", "prev_call"}
SwitchedPcs == {"next_trans", "next_call", "next_ok", "next_fail"}

\* Who sees to it that the end of the track is noticed: a monitor, a command
\* that ends or restarts the playback, an automatic next track that is not
\* out of date or has switched the media.
Watcher(y) ==
  \/ y \in Checks /\ task[y].pc # "idle"
  \/ y \in Handlers /\ task[y].pc \notin AwayPcs
  \/ /\ y \in Autos
     /\ \/ task[y].pc \in SwitchedPcs
        \/ task[y].pc # "idle" /\ task[y].gen = r.gen

\* A media without URI has no duration, and nobody seeks.
DurInv == (r.uri = NoUri => ~r.dur) /\ \A t \in Tasks : task[t].pc \notin SeekPcs

WatchedInv ==
  /\ DurInv
  /\ r.transport = "PLAYING" /\ r.dur /\ ~spk.raised => \E y \in Tasks : Watcher(y)

\* The media changes in three places only.
LEMMA MediaStays ==
  ASSUME TypeOK, NEW t \in Tasks, Step(t),
         ~SetUriBody(t), ~NextSwitch(t), ~ResetBody(t)
  PROVE  r'.uri = r.uri /\ r'.dur = r.dur /\ r'.gen = r.gen
  <1>. USE DEF TypeOK, RendererType
  <1>1. CASE Unseen(t)
    BY <1>1, UnseenKeepsFields
  <1>2. CASE PlayBegin(t) \/ PlaySeekReady(t)
    BY <1>2 DEF PlayBegin, PlaySeekReady, Announced
  <1>3. CASE PlaySucceeds(t) \/ PlayFails(t) \/ PauseDone(t) \/ StopDone(t)
    BY <1>3 DEF PlaySucceeds, PlayFails, PauseDone, StopDone
  <1>4. CASE SeekSoft(t) \/ SeekBegin(t) \/ SeekSucceeds(t) \/ SeekPaused(t) \/ SeekFails(t)
    BY <1>4 DEF SeekSoft, SeekBegin, SeekSucceeds, SeekPaused, SeekFails
  <1>5. CASE \/ NextTransitioning(t) \/ NextSucceeds(t) \/ NextFails(t)
             \/ NextMark(t) \/ EndOfTrack(t)
    BY <1>5 DEF NextTransitioning, NextSucceeds, NextFails, NextMark, EndOfTrack
  <1>6. CASE PreviousBody(t) \/ CheckSpawnsNext(t)
    BY <1>6 DEF PreviousBody, CheckSpawnsNext
  <1>. QED BY <1>1, <1>2, <1>3, <1>4, <1>5, <1>6 DEF Step, Unseen

\* A media comes with its duration.
LEMMA StepDur ==
  ASSUME TypeOK, DurInv, NEW t \in Tasks, Step(t)
  PROVE  DurInv'
  <1>1. Steps(t)
    BY StepGoes
  <1>2. \A y \in Tasks : task'[y].pc \notin SeekPcs
    BY <1>1, NobodyGoesTo DEF DurInv, Flow, SeekPcs
  <1>3. r'.uri = NoUri => ~r'.dur
    <2>1. CASE SetUriBody(t)
      BY <2>1, MediaAssumption DEF SetUriBody, TypeOK, RendererType
    <2>2. CASE NextSwitch(t)
      BY <2>2, MediaAssumption DEF NextSwitch, TypeOK, RendererType
    <2>3. CASE ResetBody(t)
      BY <2>3 DEF ResetBody, TypeOK, RendererType, DurInv
    <2>4. CASE ~SetUriBody(t) /\ ~NextSwitch(t) /\ ~ResetBody(t)
      BY <2>4, MediaStays DEF DurInv
    <2>. QED BY <2>1, <2>2, <2>3, <2>4
  <1>. QED BY <1>2, <1>3 DEF DurInv

\* What raised is made good by a success of play(), of next_track() or of seek()
\* only, and an exception is on record.
LEMMA StepRaises ==
  ASSUME TypeOK, NEW t \in Tasks, Step(t)
  PROVE  /\ spk'.raised \/ spk'.raised = spk.raised \/ PlaySucceeds(t) \/ SeekSucceeds(t)
             \/ NextSucceeds(t)
         /\ PlayRaises(t) \/ SeekRaises(t) \/ NextRaises(t) => spk'.raised
  <1>0. task[t].media \in Media /\ spk \in SpeakerType
    BY DEF TypeOK, Locals
  <1>1. PlayRaises(t) \/ SeekRaises(t) \/ NextRaises(t) => spk'.raised
    BY <1>0, SpeakerTypes, SpeakerFields DEF PlayRaises, SeekRaises, NextRaises
  <1>2. PauseDone(t) \/ StopDone(t) => spk'.raised = spk.raised
    BY SpeakerFields DEF PauseDone, StopDone
  <1>3. SeekStopped(t) \/ SeekPaused(t) \/ NextStopped(t) \/ EndStopped(t)
          => spk'.raised = spk.raised
    BY SpeakerFields DEF SeekStopped, SeekPaused, NextStopped, EndStopped
  <1>4. NextCalled(t) \/ PreviousDone(t) => spk'.raised = spk.raised
    BY SpeakerFields DEF NextCalled, PreviousDone
  <1>5. \/ spk' = spk
        \/ PlaySucceeds(t) \/ PlayRaises(t) \/ PauseDone(t) \/ StopDone(t)
        \/ SeekStopped(t) \/ SeekSucceeds(t) \/ SeekPaused(t) \/ SeekRaises(t)
        \/ NextStopped(t) \/ NextCalled(t) \/ NextSucceeds(t) \/ NextRaises(t)
        \/ EndStopped(t) \/ PreviousDone(t)
    BY DEF Step, SetUriBody, PlayNoUri, PlayBegin, PlaySeekReady, PlayNotified, PlayCall,
       PlayFails, PauseCall, StopCall, CallSpeaker, ResetBody, SeekRead, SeekPrepared,
       SeekSoft, SeekBegin, SeekFails, NextSwitch, NextTransitioning, NextFails, NextMark,
       NextWakes, NextGivesUp, EndSlept, EndOfTrack, AutoStart, PreviousBody, CheckWakes,
       CheckEnds, CheckAgain, CheckSpawnsNext
  <1>. QED BY <1>1, <1>2, <1>3, <1>4, <1>5

\* A command that arrives leaves what raised on record.
LEMMA CommandRaises ==
  ASSUME TypeOK, NEW t \in Handlers, Command(t) \/ IdleReset(t) \/ AutomaticPlay(t)
  PROVE  spk'.raised = spk.raised
  <1>1. spk' \in {spk, Landed(r.auto)}
    BY DEF Command, IdleReset, AutomaticPlay, SetUri, Play, Pause, Stop, Reset, Seek,
       Next_, Previous, CancelAutoNextAndAcquire
  <1>. QED BY <1>1, SpeakerFields

\* Whoever stops watching hands over: play() and next_track() create a monitor,
\* the monitor creates an automatic next track, or the state is left.
LEMMA StepWatched ==
  ASSUME BaseInv, WatchedInv, NEW t \in Tasks, Step(t)
  PROVE  WatchedInv'
  <1>. USE DEF BaseInv, IInv
  <1>0. DurInv' /\ Steps(t) /\ RoleInv' /\ MonitorPcs'
    BY NextBase, StepDur, StepGoes DEF WatchedInv, Next, RunTask
  <1>t. r.transport \in States /\ r'.transport \in States /\ r'.dur \in BOOLEAN
        /\ task \in [Tasks -> Locals]
    BY NextBase DEF TypeOK, RendererType, Next, RunTask
  <1>. SUFFICES ASSUME r'.transport = "PLAYING", r'.dur, ~spk'.raised
                PROVE  \E y \in Tasks : Watcher(y)'
    BY <1>0 DEF WatchedInv
  <1>s. ~spk.raised \/ PlaySucceeds(t) \/ NextSucceeds(t) \/ SeekSucceeds(t)
    BY StepRaises
  <1>1. CASE PlaySucceeds(t) \/ NextSucceeds(t)
    <2>1. PICK c \in Checks, ts \in [Tasks -> Locals] :
            \E lk : Suspend(t, Idle, Spawned(ts, c, At("chk_sleep")), lk)
      BY <1>1, <1>t, CancelledType DEF PlaySucceeds, NextSucceeds, Finish, Done
    <2>2. t # c
      BY <1>1, StartsAt DEF MonitorPcs
    <2>3. task'[c] = At("chk_sleep") /\ c \in Tasks
      BY <2>1, <2>2 DEF Suspend, Spawned, Tasks
    <2>. QED BY <2>3 DEF Watcher, At, Idle
  <1>15. /\ ~SeekRead(t) /\ ~SeekPrepared(t) /\ ~SeekSoft(t) /\ ~SeekBegin(t)
         /\ ~SeekStopped(t) /\ ~SeekSucceeds(t) /\ ~SeekPaused(t) /\ ~SeekFails(t)
    BY StartsAt DEF WatchedInv, DurInv, SeekPcs
  <1>r. SUFFICES ASSUME ~spk.raised PROVE \E y \in Tasks : Watcher(y)'
    BY <1>s, <1>1, <1>15
  <1>2. CASE \/ SetUriBody(t) \/ PlayFails(t) \/ PauseDone(t) \/ StopDone(t)
             \/ NextTransitioning(t) \/ NextFails(t) \/ NextMark(t) \/ EndOfTrack(t)
    <2>1. r'.transport \in {"STOPPED", "PAUSED_PLAYBACK", "TRANSITIONING"}
      <3>1. CASE SetUriBody(t) \/ PlayFails(t)
        BY <3>1 DEF SetUriBody, PlayFails, TypeOK, RendererType
      <3>2. CASE PauseDone(t) \/ StopDone(t)
        BY <3>2 DEF PauseDone, StopDone, TypeOK, RendererType
      <3>3. CASE NextTransitioning(t) \/ NextFails(t)
        BY <3>3 DEF NextTransitioning, NextFails, TypeOK, RendererType
      <3>4. CASE NextMark(t) \/ EndOfTrack(t)
        BY <3>4 DEF NextMark, EndOfTrack, TypeOK, RendererType
      <3>. QED BY <1>2, <3>1, <3>2, <3>3, <3>4
    <2>. QED BY <2>1
  <1>3. CASE ResetBody(t)
    BY <1>3 DEF ResetBody, TypeOK, RendererType
  <1>4. CASE CheckSpawnsNext(t)
    <2>. DEFINE l == [At("auto_start") EXCEPT !.gen = r.gen]
    <2>1. PICK a \in Autos :
            Suspend(t, Idle, Spawned(task, a, l), Leave(lock, t)) /\ task[a].pc = "idle"
      BY <1>4 DEF CheckSpawnsNext, Finish, Done
    <2>2. t # a
      BY <1>4, <2>1, StartsAt
    <2>3. task'[a] = l /\ a \in Tasks
      BY <1>t, <2>1, <2>2 DEF Suspend, Spawned, Tasks
    <2>4. l.pc = "auto_start" /\ l.gen = r.gen
      BY DEF At, Idle
    <2>5. r'.gen = r.gen
      BY <1>4 DEF CheckSpawnsNext, TypeOK, RendererType
    <2>. HIDE DEF l
    <2>. QED BY <2>3, <2>4, <2>5 DEF Watcher
  <1>5. ASSUME task'[t].pc # "idle", t \in Handlers, task'[t].pc \notin AwayPcs
        PROVE  \E y \in Tasks : Watcher(y)'
    BY <1>5 DEF Watcher
  <1>6. CASE PlayBegin(t) \/ PlaySeekReady(t)
    <2>1. task'[t].pc \in {"play_seek", "play_notify", "play_lock"}
      BY <1>6, BeginGoes, SeekReadyGoes DEF Begun
    <2>2. t \in Handlers
      BY <1>6, StartsAt
      DEF RoleInv, MonitorPcs, AutoPcs, SwitchPcs, NoNextPcs, Tasks, Handlers
    <2>. QED BY <1>5, <2>1, <2>2 DEF AwayPcs
  <1>7. CASE NextSwitch(t)
    <2>1. task'[t].pc = "next_trans"
      <3>. DEFINE l == [task[t] EXCEPT !.pc = "next_trans", !.media = r.next]
      <3>1. l.pc = "next_trans"
        BY <1>t DEF Locals
      <3>2. Acquire(t, l, task, lock)
        BY <1>7 DEF NextSwitch
      <3>. HIDE DEF l
      <3>. QED BY <1>t, <3>1, <3>2, PutAfter
    <2>2. t \in Handlers \/ t \in Autos
      BY <1>7, StartsAt DEF MonitorPcs, Tasks, Handlers
    <2>. QED BY <1>5, <2>1, <2>2 DEF AwayPcs, Watcher, SwitchedPcs
  <1>8. CASE PlayNoUri(t)
    BY <1>8 DEF PlayNoUri, WatchedInv, DurInv
  <1>9. CASE CheckEnds(t)
    BY <1>9 DEF CheckEnds
  <1>10. ASSUME r'.transport = r.transport, r'.dur = r.dur, r'.gen = r.gen, Alone(t),
                Watcher(t) => task'[t].pc # "idle"
         PROVE  \E y \in Tasks : Watcher(y)'
    <2>1. PICK y \in Tasks : Watcher(y)
      BY <1>r, <1>10 DEF WatchedInv
    <2>2. CASE y # t
      BY <1>10, <2>1, <2>2 DEF Alone, Watcher
    <2>3. CASE y = t
      <3>1. /\ Flow(task[t].pc, task'[t].pc)
            /\ \/ task'[t].gen = task[t].gen
               \/ task[t].pc \in {"play", "seek_read", "seek_prepare", "prev", "chk_lock"}
        BY <1>0, <1>10, <2>1, <2>3 DEF Steps, Goes, Idle
      <3>2. CASE t \in Checks
        BY <1>10, <2>1, <2>3, <3>2 DEF Watcher
      <3>3. CASE t \in Handlers
        BY <1>10, <2>1, <2>3, <3>1, <3>3, TasksAssumption
        DEF Watcher, Flow, AwayPcs, Handlers
      <3>4. CASE t \in Autos
        BY <1>10, <2>1, <2>3, <3>1, <3>4, TasksAssumption
        DEF Watcher, Flow, SwitchedPcs, Handlers, RoleInv, AutoPcs, SwitchPcs, NoNextPcs
      <3>. QED BY <3>2, <3>3, <3>4 DEF Tasks, Handlers
    <2>. QED BY <2>2, <2>3
  <1>11. CASE \/ PlayNotified(t) \/ PlayCall(t) \/ PauseCall(t) \/ StopCall(t)
              \/ NextStopped(t) \/ NextCalled(t) \/ NextGivesUp(t) \/ EndStopped(t)
              \/ EndSlept(t) \/ CheckWakes(t) \/ CheckAgain(t)
    BY <1>10, <1>11, GoesOn, UnseenKeepsFields DEF Unseen
  <1>12. CASE AutoStart(t) \/ NextWakes(t)
    <2>1. r' = r
      BY <1>12, UnseenKeepsFields DEF Unseen
    <2>2. CASE ~Stale(task[t].gen)
      BY <1>10, <1>12, <2>1, <2>2, GoesOn
    <2>3. CASE Stale(task[t].gen)
      <3>1. Alone(t)
        BY <1>12, <2>3, <1>t, PutAfter DEF AutoStart, NextWakes, NextTrack, Alone
      <3>2. ~Watcher(t)
        BY <1>12, <2>3, StartsAt DEF Watcher, Stale, RoleInv, MonitorPcs, SwitchedPcs
      <3>. QED BY <1>10, <2>1, <3>1, <3>2
    <2>. QED BY <2>2, <2>3
  <1>13. CASE PreviousBody(t) \/ PreviousDone(t)
    <2>1. r'.transport = r.transport /\ r'.dur = r.dur /\ r'.gen = r.gen
      BY <1>13 DEF PreviousBody, PreviousDone, TypeOK, RendererType
    <2>2. Alone(t)
      BY <1>13, <1>t, PutAfter DEF PreviousBody, PreviousDone, Alone
    <2>3. ~Watcher(t)
      BY <1>13, StartsAt
      DEF Watcher, AwayPcs, RoleInv, MonitorPcs, AutoPcs, SwitchedPcs, SwitchPcs, NoNextPcs
    <2>. QED BY <1>10, <2>1, <2>2, <2>3
  <1>14. ~PlayRaises(t) /\ ~SeekRaises(t) /\ ~NextRaises(t)
    BY StepRaises
  <1>. QED BY <1>1, <1>2, <1>3, <1>4, <1>6, <1>7, <1>8, <1>9, <1>11, <1>12, <1>13, <1>14,
       <1>15 DEF Step

\* The step of the induction.
LEMMA NextWatched ==
  ASSUME "Seek" \notin Commands, BaseInv, WatchedInv, [Next]_vars
  PROVE  WatchedInv'
  <1>. USE DEF BaseInv, IInv
  <1>1. ASSUME NEW t \in Tasks, Step(t) PROVE WatchedInv'
    BY <1>1, StepWatched
  <1>2. ASSUME NEW t \in Handlers, Command(t) \/ IdleReset(t) \/ AutomaticPlay(t)
        PROVE  WatchedInv'
    <2>1. PICK pc : pc \notin SeekPcs /\ pc # "idle" /\ Enters(t, pc)
                    /\ (pc \in AwayPcs => pc = "prev" /\ Alone(t))
      BY <1>2, CommandEnters DEF SeekPcs, AwayPcs, EntersAlone, EntersCancelling
    <2>2. t \in Tasks /\ t \notin Autos /\ t \notin Checks /\ r.auto \in Autos \cup {NoTask}
      BY TasksAssumption DEF Handlers, Tasks, TypeOK, RendererType
    <2>3. DurInv'
      <3>1. \A y \in Tasks : task'[y].pc \notin SeekPcs
        BY <2>1 DEF Enters, WatchedInv, DurInv, Idle, SeekPcs
      <3>. QED BY <2>1, <3>1, CommandLeavesFields DEF WatchedInv, DurInv
    <2>4. ASSUME r'.transport = "PLAYING", r'.dur, ~spk'.raised
          PROVE  \E y \in Tasks : Watcher(y)'
      <3>1. CASE pc # "prev"
        BY <2>1, <2>2, <3>1 DEF Watcher, Enters
      <3>2. CASE pc = "prev"
        <4>1. PICK y \in Tasks : Watcher(y) /\ y # t
          BY <1>2, <2>1, <2>2, <2>4, CommandLeavesFields, CommandRaises
          DEF WatchedInv, Watcher, Enters, AwayPcs
        <4>2. task'[y] = task[y]
          BY <2>1, <3>2, <4>1 DEF AwayPcs, Alone
        <4>. QED BY <2>1, <4>1, <4>2, CommandLeavesFields DEF Watcher
      <3>. QED BY <3>1, <3>2
    <2>. QED BY <2>3, <2>4 DEF WatchedInv
  <1>3. ASSUME NEW u, SetNext(u) PROVE WatchedInv'
    BY <1>3, SetNextLeavesFields DEF WatchedInv, DurInv, Watcher, SetNext
  <1>4. CASE UNCHANGED vars
    BY <1>4 DEF vars, WatchedInv, DurInv, Watcher
  <1>. QED BY <1>1, <1>2, <1>3, <1>4 DEF Next, SoapStep, AppStep, RunTask, Handlers

\* At rest, a media of known duration that is PLAYING has a play monitor, unless
\* a call of the speaker has raised since the last one that succeeded - whatever
\* raised before that - and as long as Seek is not sent.
THEOREM TrackEndAlwaysWatched ==
  ASSUME "Seek" \notin Commands
  PROVE  Spec => []TrackEndIsWatched
  <1>1. Init => WatchedInv
    BY DEF Init, WatchedInv, DurInv, Idle, SeekPcs
  <1>2. BaseInv /\ WatchedInv /\ [Next]_vars => WatchedInv'
    BY NextWatched
  <1>3. WatchedInv => TrackEndIsWatched
    BY DEF WatchedInv, Watcher, TrackEndIsWatched, Quiet, Handlers, AwayPcs, SwitchedPcs,
       Done
  <1>. QED BY <1>1, <1>2, <1>3, InitBase, NextBase, PTL DEF Spec

-----------------------------------------------------------------------------
(* One handler: the monitor, the automatic next track and play().          *)

\* One task runs every command, and neither Seek nor Next is sent.
Solo ==
  /\ \A x, y \in Handlers : x = y
  /\ "Seek" \notin Commands /\ "Next" \notin Commands

PlayInPcs == {"play_seek", "play_notify", "play_lock", "play_call"}
WaitPcs   == QueuePcs \ HeldPcs
SoloPcs   == {"idle", "set_uri", "pause", "pause_call", "stop", "stop_call",
              "prev", "prev_call", "reset"} \cup PlayPcs

NoMonitor  == \A c \in Checks : task[c].pc = "idle"
NoAutoNext == \A a \in Autos : task[a].pc = "idle"

SoloHandler == \A h \in Handlers : task[h].pc \in SoloPcs
IdleIsClean == \A t \in Tasks : task[t].pc = "idle" => task[t] = Idle

\* While an automatic next track is alive there is no monitor, no command
\* that matters, and, until it has switched the media, no other media.
AutoAlone ==
  \A a \in Autos : task[a].pc # "idle" =>
     /\ NoMonitor
     /\ \A h \in Handlers : task[h].pc \in AwayPcs
     /\ task[a].pc \notin SwitchedPcs => task[a].gen = r.gen

\* Once play() has begun there is no monitor and the media stays.
PlayAlone ==
  \A h \in Handlers : task[h].pc \in PlayInPcs =>
     /\ NoMonitor
     /\ r.uri = task[h].media
     /\ ~NeedsTranscode => task[h].pc # "play_notify" /\ r.transport = "TRANSITIONING"

\* Whoever asks for the lock gets it at once, but for the monitor while
\* pause() or stop() awaits the speaker.
NobodyWaits ==
  \A t \in Tasks : task[t].pc \in WaitPcs =>
     \/ loop = t
     \/ t \in Checks /\ \E h \in Handlers : task[h].pc \in {"pause_call", "stop_call"}

SoloInv == /\ SoloHandler /\ IdleIsClean /\ AutoNextIsKnown /\ OneMonitor
           /\ AutoAlone /\ PlayAlone /\ NobodyWaits

-----------------------------------------------------------------------------
\* A step is the turn of its task.
LEMMA StepMayRun == ASSUME NEW t, Step(t) PROVE MayRun(t)
  BY DEF Step, SetUriBody, PlayNoUri, PlayBegin, PlaySeekReady, PlayNotified,
         PlayCall, PlaySucceeds, PlayFails, PlayRaises, PauseCall, PauseDone,
         StopCall, StopDone, ResetBody, SeekRead, SeekPrepared, SeekSoft,
         SeekBegin, SeekStopped, SeekSucceeds, SeekPaused, SeekFails,
         SeekRaises, NextStopped, NextSwitch, NextTransitioning, NextCalled,
         NextSucceeds, NextFails, NextRaises, NextMark, NextWakes,
         NextGivesUp, EndStopped, EndSlept, EndOfTrack, AutoStart,
         PreviousBody, PreviousDone, CheckWakes, CheckEnds, CheckAgain,
         CheckSpawnsNext, CallSpeaker, InSection, Resumes

\* The three kinds of tasks.
LEMMA Kinds ==
  /\ Tasks = Handlers \cup Checks \cup Autos
  /\ \A h \in Handlers : h \notin Checks /\ h \notin Autos /\ h # NoTask
  /\ \A c \in Checks : c \notin Handlers /\ c \notin Autos /\ c # NoTask
  /\ \A a \in Autos : a \notin Handlers /\ a \notin Checks /\ a # NoTask
  BY TasksAssumption DEF Handlers, Tasks

\* Nobody else waits for the lock when t runs.
LEMMA OthersDoNotWait ==
  ASSUME SoloInv, NEW t \in Tasks, MayRun(t), NEW y \in Tasks \ {t},
         task[y].pc \in WaitPcs
  PROVE  y \in Checks /\ \E h \in Handlers : task[h].pc \in {"pause_call", "stop_call"}
  BY Kinds DEF SoloInv, NobodyWaits, MayRun

\* What moves in a step of a task is within the control flow.
LEMMA StepStaysSolo ==
  ASSUME SoloInv, NEW t \in Tasks, Steps(t)
  PROVE  SoloHandler' /\ IdleIsClean'
  <1>0. /\ Idle.pc = "idle" /\ At("chk_sleep").pc = "chk_sleep"
        /\ \A g : [At("auto_start") EXCEPT !.gen = g].pc = "auto_start"
    BY DEF Idle, At
  <1>1. ASSUME NEW y \in Tasks, task'[y].pc = "idle" PROVE task'[y] = Idle
    <2>1. CASE y = t
      BY <1>1, <2>1 DEF Steps, Goes, Flow
    <2>2. CASE y # t
      <3>1. \/ task'[y] \in {task[y], Idle, At("chk_sleep")}
            \/ task'[y] = [At("auto_start") EXCEPT !.gen = r.gen]
        BY <2>2 DEF Steps, Bystander
      <3>. QED BY <1>0, <1>1, <3>1 DEF SoloInv, IdleIsClean
    <2>. QED BY <2>1, <2>2
  <1>2. ASSUME NEW h \in Handlers PROVE task'[h].pc \in SoloPcs
    <2>1. task[h].pc \in SoloPcs
      BY DEF SoloInv, SoloHandler
    <2>2. CASE h = t
      <3>1. task'[t].pc = "idle" \/ Flow(task[t].pc, task'[t].pc)
        BY <1>0 DEF Steps, Goes
      <3>. QED BY <2>1, <2>2, <3>1 DEF Flow, SoloPcs, PlayPcs
    <2>3. CASE h # t
      <3>1. task'[h] \in {task[h], Idle}
        BY <2>3, Kinds DEF Steps, Bystander
      <3>. QED BY <1>0, <2>1, <3>1 DEF SoloPcs
    <2>. QED BY <2>2, <2>3
  <1>. QED BY <1>1, <1>2 DEF SoloHandler, IdleIsClean

\* Previous moves the position only.
LEMMA PreviousMoves ==
  ASSUME TypeOK, NEW t \in Tasks, PreviousBody(t) \/ PreviousDone(t)
  PROVE  /\ r'.uri = r.uri /\ r'.gen = r.gen /\ r'.check = r.check
         /\ r'.auto = r.auto /\ r'.transport = r.transport
         /\ Alone(t) /\ task'[t].pc \in {"idle", "prev_call"} /\ loop' = NoTask
  <1>. DEFINE l == [At("prev_call") EXCEPT !.media = r.uri]
  <1>1. l.pc = "prev_call" /\ Idle.pc = "idle"
    BY DEF At, Idle
  <1>2. \E k \in {Idle, l} : \E lk : Suspend(t, k, task, lk)
    BY DEF PreviousBody, PreviousDone
  <1>. HIDE DEF l
  <1>3. Alone(t) /\ task'[t].pc \in {"idle", "prev_call"} /\ loop' = NoTask
    BY <1>1, <1>2, PutAfter DEF TypeOK, Suspend, Alone
  <1>. QED BY <1>3 DEF PreviousBody, PreviousDone, TypeOK, RendererType

\* A step of the handler that moves the position only.
LEMMA AwayStep ==
  ASSUME Solo, BaseInv, SoloInv, NEW t \in Handlers, task[t].pc \in AwayPcs, Step(t)
  PROVE  SoloInv'
  <1>. USE DEF BaseInv, IInv
  <1>0. t \in Tasks /\ MayRun(t) /\ \A h \in Handlers : h = t
    BY StepMayRun, Kinds DEF Solo
  <1>1. PreviousBody(t) \/ PreviousDone(t)
    BY StepFrom DEF AwayPcs
  <1>2. /\ r'.uri = r.uri /\ r'.gen = r.gen /\ r'.check = r.check
        /\ r'.auto = r.auto /\ r'.transport = r.transport
        /\ Alone(t) /\ task'[t].pc \in {"idle", "prev_call"} /\ loop' = NoTask
    BY <1>0, <1>1, PreviousMoves
  <1>3. SoloHandler' /\ IdleIsClean'
    BY <1>0, StepGoes, StepStaysSolo
  <1>4. (\A c \in Checks : task'[c] = task[c]) /\ (\A a \in Autos : task'[a] = task[a])
    BY <1>0, <1>2, Kinds DEF Alone
  <1>5. AutoNextIsKnown' /\ OneMonitor'
    BY <1>2, <1>4 DEF SoloInv, AutoNextIsKnown, OneMonitor
  <1>6. AutoAlone'
    BY <1>0, <1>2, <1>4 DEF SoloInv, AutoAlone, NoMonitor, AwayPcs
  <1>7. PlayAlone'
    BY <1>0, <1>2 DEF PlayAlone, PlayInPcs
  <1>8. NobodyWaits'
    <2>1. ASSUME NEW y \in Tasks, task'[y].pc \in WaitPcs PROVE FALSE
      <3>1. y # t
        BY <1>2, <2>1 DEF WaitPcs, QueuePcs, HeldPcs
      <3>2. task[y].pc \in WaitPcs
        BY <1>2, <2>1, <3>1 DEF Alone
      <3>. QED BY <1>0, <3>1, <3>2, OthersDoNotWait DEF AwayPcs
    <2>. QED BY <2>1 DEF NobodyWaits
  <1>. QED BY <1>3, <1>5, <1>6, <1>7, <1>8 DEF SoloInv

-----------------------------------------------------------------------------
(* A command that matters: no automatic next track is alive.               *)

\* What a step of it does with the monitor: it keeps it, cancels it, or
\* creates the only one.
KeepsMonitor(t)   == r'.check = r.check /\ \A c \in Checks : task'[c] = task[c]
DropsMonitor(t) == \A c \in Checks : task'[c] = IF c = r.check THEN Idle ELSE task[c]
MakesMonitor(t) == \E x \in Checks :
                 r'.check = x /\ \A c \in Checks : c # x => task'[c] \in {task[c], Idle}

\* In each case there is one monitor at most afterwards.
LEMMA MonitorAfter ==
  ASSUME SoloInv, NEW t,
         KeepsMonitor(t) \/ DropsMonitor(t) \/ (NoMonitor /\ MakesMonitor(t))
  PROVE  /\ OneMonitor'
         /\ DropsMonitor(t) => NoMonitor'
         /\ KeepsMonitor(t) /\ NoMonitor => NoMonitor'
  <1>0. Idle.pc = "idle"
    BY DEF Idle
  <1>1. DropsMonitor(t) => NoMonitor'
    BY <1>0 DEF DropsMonitor, NoMonitor, SoloInv, OneMonitor
  <1>2. KeepsMonitor(t) => OneMonitor'
    BY DEF KeepsMonitor, SoloInv, OneMonitor
  <1>3. NoMonitor /\ MakesMonitor(t) => OneMonitor'
    BY <1>0 DEF NoMonitor, MakesMonitor, OneMonitor
  <1>4. NoMonitor' => OneMonitor'
    BY DEF NoMonitor, OneMonitor
  <1>5. KeepsMonitor(t) /\ NoMonitor => NoMonitor'
    BY DEF KeepsMonitor, NoMonitor
  <1>. QED BY <1>1, <1>2, <1>3, <1>4, <1>5

\* The frame of every such step.
LEMMA BusyFrame ==
  ASSUME Solo, BaseInv, SoloInv, NEW t \in Handlers, task[t].pc \notin AwayPcs, Step(t)
  PROVE  /\ NoAutoNext /\ NoAutoNext'
         /\ \A h \in Handlers : h = t
         /\ SoloHandler' /\ IdleIsClean' /\ AutoNextIsKnown' /\ AutoAlone'
         /\ task[t].pc \in SoloPcs
  <1>. USE DEF BaseInv, IInv
  <1>0. t \in Tasks /\ (\A h \in Handlers : h = t) /\ r.check \in Checks \cup {NoTask}
    BY Kinds DEF Solo, TypeOK, RendererType
  <1>1. NoAutoNext
    BY DEF SoloInv, AutoAlone, NoAutoNext
  <1>2. Steps(t) /\ task[t].pc \in SoloPcs
    BY <1>0, StepGoes DEF SoloInv, SoloHandler
  <1>3. SoloHandler' /\ IdleIsClean'
    BY <1>0, <1>2, StepStaysSolo
  <1>4. NoAutoNext'
    <2>1. ASSUME NEW a \in Autos PROVE task'[a].pc = "idle"
      <3>1. a # t /\ a \in Tasks /\ a # r.check /\ a \notin Checks
        BY <1>0, Kinds
      <3>2. task[t].pc # "chk_lock"
        BY <1>2 DEF SoloPcs, PlayPcs
      <3>3. task'[a] = task[a]
        BY <1>2, <3>1, <3>2 DEF Steps, Bystander
      <3>. QED BY <1>1, <3>3 DEF NoAutoNext
    <2>. QED BY <2>1 DEF NoAutoNext
  <1>5. AutoNextIsKnown' /\ AutoAlone'
    BY <1>4 DEF NoAutoNext, AutoNextIsKnown, AutoAlone
  <1>. QED BY <1>0, <1>1, <1>2, <1>3, <1>4, <1>5

\* What is left to show of such a step.
LEMMA BusyEnds ==
  ASSUME Solo, BaseInv, SoloInv, NEW t \in Handlers, task[t].pc \notin AwayPcs, Step(t),
         KeepsMonitor(t) \/ DropsMonitor(t) \/ (NoMonitor /\ MakesMonitor(t)),
         task'[t].pc \in PlayInPcs =>
            /\ (KeepsMonitor(t) /\ NoMonitor) \/ DropsMonitor(t)
            /\ r'.uri = task'[t].media
            /\ ~NeedsTranscode =>
                 task'[t].pc # "play_notify" /\ r'.transport = "TRANSITIONING",
         task[t].pc \in {"pause_call", "stop_call"} => DropsMonitor(t),
         task'[t].pc \in WaitPcs => loop' = t
  PROVE  SoloInv'
  <1>0. t \in Tasks /\ MayRun(t)
    BY StepMayRun, Kinds
  <1>1. /\ NoAutoNext /\ NoAutoNext'
        /\ \A h \in Handlers : h = t
        /\ SoloHandler' /\ IdleIsClean' /\ AutoNextIsKnown' /\ AutoAlone'
    BY BusyFrame
  <1>2. /\ OneMonitor'
        /\ DropsMonitor(t) => NoMonitor'
        /\ KeepsMonitor(t) /\ NoMonitor => NoMonitor'
    BY MonitorAfter
  <1>3. PlayAlone'
    BY <1>1, <1>2 DEF PlayAlone
  <1>4. NobodyWaits'
    <2>1. ASSUME NEW y \in Tasks, task'[y].pc \in WaitPcs, y # t PROVE FALSE
      <3>1. "idle" \notin WaitPcs /\ "chk_sleep" \notin WaitPcs /\ Idle.pc = "idle"
            /\ At("chk_sleep").pc = "chk_sleep"
        BY DEF WaitPcs, QueuePcs, Idle, At
      <3>2. y \in Checks
        BY <1>1, <2>1, <3>1, Kinds DEF NoAutoNext
      <3>3. CASE DropsMonitor(t)
        BY <1>2, <2>1, <3>1, <3>2, <3>3 DEF NoMonitor
      <3>4. CASE ~DropsMonitor(t)
        <4>1. task'[y] = task[y] \/ task'[y] = At("chk_sleep") \/ task'[y] = Idle
          BY <1>0, <2>1, <3>2, StepGoes, Kinds DEF BaseInv, IInv, Steps, Bystander
        <4>2. task[y].pc \in WaitPcs
          BY <2>1, <3>1, <4>1
        <4>. QED BY <1>0, <1>1, <2>1, <3>4, <4>2, OthersDoNotWait
      <3>. QED BY <3>3, <3>4
    <2>. QED BY <2>1 DEF NobodyWaits
  <1>. QED BY <1>1, <1>2, <1>3, <1>4 DEF SoloInv

\* The lock has t and the monitor for its only clients.
LEMMA QueueIsShort ==
  ASSUME Solo, BaseInv, SoloInv, NEW t \in Handlers, NoAutoNext
  PROVE  /\ lock.queued \subseteq {t, r.check}
         /\ NoMonitor => lock.queued \subseteq {t}
         /\ NoMonitor /\ task[t].pc \notin QueuePcs => lock.queued = {}
  <1>1. \A y \in lock.queued : y \in Tasks /\ task[y].pc \in QueuePcs
    BY DEF BaseInv, IInv, LockInv, Consistent, TypeOK, LockType
  <1>2. "idle" \notin QueuePcs
    BY DEF QueuePcs
  <1>3. \A y \in lock.queued : y = t \/ (y \in Checks /\ ~NoMonitor /\ y = r.check)
    BY <1>1, <1>2, Kinds DEF Solo, NoAutoNext, NoMonitor, SoloInv, OneMonitor
  <1>. QED BY <1>1, <1>3

\* A step that only moves t within the section or ends it.
LEMMA MovesOnly ==
  ASSUME TypeOK, NEW t \in Handlers, NEW l, NEW lk,
         Suspend(t, l, task, lk) \/ Acquire(t, l, task, lk)
  PROVE  /\ task'[t] = l
         /\ r'.check = r.check => KeepsMonitor(t)
  BY PutAfter, Kinds DEF TypeOK, KeepsMonitor

\* The end of pause(), stop() and reset_to_idle().
LEMMA CancelsMonitor ==
  ASSUME TypeOK, NEW t \in Handlers, FinishAndCancelCheck(t)
  PROVE  task'[t] = Idle /\ DropsMonitor(t)
  <1>1. \A y \in Tasks : task'[y] = IF y = t THEN Idle ELSE Cancelled(r.check)[y]
    BY PutAfter, CancelledType, Kinds DEF FinishAndCancelCheck
  <1>2. \A y \in Tasks : Cancelled(r.check)[y] = IF y = r.check THEN Idle ELSE task[y]
    BY DEF Cancelled
  <1>. QED BY <1>1, <1>2, Kinds DEF DropsMonitor

\* The steps of the handler.
LEMMA BusyStep ==
  ASSUME Solo, BaseInv, SoloInv, NEW t \in Handlers, task[t].pc \notin AwayPcs, Step(t)
  PROVE  SoloInv'
  <1>. USE DEF BaseInv, IInv
  <1>0. t \in Tasks /\ NoAutoNext /\ task[t].pc \in SoloPcs /\ task[t] \in Locals
        /\ t \notin Checks
    BY BusyFrame, Kinds DEF TypeOK
  <1>i. /\ Idle.pc = "idle"
        /\ {"idle", "pause_call", "stop_call"} \cap (PlayInPcs \cup WaitPcs) = {}
    BY DEF Idle, PlayInPcs, WaitPcs, QueuePcs, HeldPcs
  <1>1. CASE SetUriBody(t) \/ PlayNoUri(t) \/ PlayFails(t) \/ PlayRaises(t)
    <2>1. Finish(t, task) /\ r'.check = r.check
      BY <1>1 DEF SetUriBody, PlayNoUri, PlayFails, PlayRaises, TypeOK, RendererType
    <2>2. task'[t] = Idle /\ KeepsMonitor(t)
      BY <2>1, MovesOnly DEF Finish
    <2>3. task[t].pc \notin {"pause_call", "stop_call"}
      BY <1>1, StartsAt
    <2>. QED BY <1>i, <2>2, <2>3, BusyEnds
  <1>2. CASE PauseDone(t) \/ StopDone(t) \/ (ResetBody(t) /\ FinishAndCancelCheck(t))
    <2>1. FinishAndCancelCheck(t)
      BY <1>2 DEF PauseDone, StopDone
    <2>. QED BY <1>i, <2>1, CancelsMonitor, BusyEnds
  <1>3. CASE ResetBody(t) /\ ~FinishAndCancelCheck(t)
    <2>1. Finish(t, task) /\ r'.check = r.check /\ task[t].pc = "reset"
      BY <1>3, StartsAt DEF ResetBody
    <2>2. task'[t] = Idle /\ KeepsMonitor(t)
      BY <2>1, MovesOnly DEF Finish
    <2>. QED BY <1>i, <2>1, <2>2, BusyEnds
  <1>4. CASE PauseCall(t) \/ StopCall(t)
    <2>1. PICK pc \in {"pause_call", "stop_call"} :
            Suspend(t, [task[t] EXCEPT !.pc = pc], task, lock) /\ r' = r
      BY <1>4 DEF PauseCall, StopCall, CallSpeaker
    <2>2. task'[t].pc = pc /\ KeepsMonitor(t)
      BY <1>0, <2>1, MovesOnly DEF Locals
    <2>3. task[t].pc \notin {"pause_call", "stop_call"}
      BY <1>4, StartsAt
    <2>. QED BY <1>i, <2>2, <2>3, BusyEnds
  <1>5. CASE PlaySucceeds(t)
    <2>1. task[t].pc = "play_call"
      BY <1>5, StartsAt
    <2>2. NoMonitor
      BY <2>1 DEF SoloInv, PlayAlone, PlayInPcs
    <2>3. PICK x \in Checks :
            /\ Suspend(t, Idle, Spawned(task, x, At("chk_sleep")), Leave(lock, t))
            /\ r'.check = x
      BY <1>5 DEF PlaySucceeds, Finish, Done, TypeOK, RendererType
    <2>4. task'[t] = Idle /\ \A c \in Checks : c # x => task'[c] = task[c]
      BY <1>0, <2>3, Kinds DEF Suspend, Spawned, TypeOK
    <2>. QED BY <1>i, <2>1, <2>2, <2>3, <2>4, BusyEnds DEF MakesMonitor
  <1>6. CASE PlayBegin(t)
    <2>1. /\ Begun(t, Leave(lock, r.check))
          /\ task'[t].pc = "play_lock" => r'.transport = "TRANSITIONING"
          /\ task'[t].media = r.uri
          /\ \A y \in Tasks \ {t} : task'[y] = IF y = r.check THEN Idle ELSE task[y]
      BY <1>0, <1>6, BeginGoes
    <2>2. r'.uri = r.uri
      BY <1>6 DEF PlayBegin, Announced, TypeOK, RendererType
    <2>3. Leave(Leave(lock, r.check), t).queued = {}
      BY <1>0, QueueIsShort DEF Leave
    <2>4. DropsMonitor(t) /\ task[t].pc = "play"
      BY <1>0, <1>6, <2>1, Kinds, StartsAt DEF DropsMonitor
    <2>. QED BY <2>1, <2>2, <2>3, <2>4, BusyEnds
         DEF Begun, PlayInPcs, WaitPcs, QueuePcs, HeldPcs
  <1>7. CASE PlaySeekReady(t)
    <2>1. /\ Begun(t, lock)
          /\ task'[t].pc = "play_lock" => r'.transport = r.transport
          /\ task'[t].media = task[t].media /\ r'.check = r.check /\ r'.uri = r.uri
          /\ \A y \in Tasks \ {t} : task'[y] = task[y]
      BY <1>0, <1>7, SeekReadyGoes
    <2>2. task[t].pc = "play_seek"
      BY <1>7, StartsAt
    <2>3. /\ NoMonitor /\ r.uri = task[t].media
          /\ ~NeedsTranscode => r.transport = "TRANSITIONING"
      BY <2>2 DEF SoloInv, PlayAlone, PlayInPcs
    <2>4. Leave(lock, t).queued = {}
      BY <1>0, <2>3, QueueIsShort DEF Leave
    <2>5. KeepsMonitor(t)
      BY <1>0, <2>1, Kinds DEF KeepsMonitor
    <2>. QED BY <2>1, <2>2, <2>3, <2>4, <2>5, BusyEnds
         DEF Begun, PlayInPcs, WaitPcs, QueuePcs, HeldPcs
  <1>8. CASE PlayNotified(t) \/ PlayCall(t)
    <2>1. PICK pc \in {"play_lock", "play_call"} :
             /\ \/ pc = "play_lock" /\ Acquire(t, [task[t] EXCEPT !.pc = pc], task, lock)
                                    /\ task[t].pc = "play_notify"
                \/ pc = "play_call" /\ Suspend(t, [task[t] EXCEPT !.pc = pc], task, lock)
                                    /\ task[t].pc = "play_lock"
             /\ r' = r
      BY <1>8, StartsAt DEF PlayNotified, PlayCall
    <2>2. task'[t].pc = pc /\ task'[t].media = task[t].media /\ KeepsMonitor(t)
      BY <1>0, <2>1, MovesOnly DEF Locals
    <2>3. /\ NoMonitor /\ r.uri = task[t].media
          /\ ~NeedsTranscode => r.transport = "TRANSITIONING"
      BY <2>1 DEF SoloInv, PlayAlone, PlayInPcs
    <2>4. pc = "play_lock" => loop' = t
      <3>1. "play_notify" \notin QueuePcs
        BY DEF QueuePcs
      <3>2. pc = "play_lock" => lock.queued = {}
        BY <1>0, <2>1, <2>3, <3>1, QueueIsShort
      <3>. QED BY <2>1, <3>2 DEF Acquire
    <2>. QED BY <2>1, <2>2, <2>3, <2>4, BusyEnds DEF PlayInPcs, WaitPcs, HeldPcs
  <1>. QED BY <1>0, <1>1, <1>2, <1>3, <1>4, <1>5, <1>6, <1>7, <1>8, StepFrom
       DEF SoloPcs, PlayPcs, AwayPcs

-----------------------------------------------------------------------------
(* A step of the automatic next track.                                     *)

\* What a step of next_track() does to the media, the monitor and the lock.
AutoMoves(a) ==
  /\ r'.auto = r.auto
  /\ r'.gen = r.gen \/ task'[a].pc = "next_trans"
  /\ loop' = NoTask \/ loop' = a
  /\ task'[a].pc \in WaitPcs => loop' = a \/ lock.queued # {}
  /\ KeepsMonitor(a) \/ DropsMonitor(a) \/ (MakesMonitor(a) /\ task'[a] = Idle)

\* What the steps of next_track() do.
LEMMA AutoGoes ==
  ASSUME TypeOK, NEW a \in Autos, task[a].pc \in AutoPcs, Step(a)
  PROVE  AutoMoves(a)
  <1>0. /\ a \in Tasks /\ task[a] \in Locals /\ task \in [Tasks -> Locals]
        /\ a \notin Checks
    BY Kinds DEF TypeOK
  <1>i. /\ Idle.pc = "idle"
        /\ {"idle", "next_call", "next_wait", "next_stop", "next_sleep", "end_stop",
            "end_sleep"} \cap WaitPcs = {}
        /\ \A x : [task[a] EXCEPT !.pc = x].pc = x
        /\ \A x, m : [task[a] EXCEPT !.pc = x, !.media = m].pc = x
        /\ \A x, g : [At(x) EXCEPT !.gen = g].pc = x
    BY <1>0 DEF Idle, At, WaitPcs, QueuePcs, HeldPcs, Locals
  <1>1. ASSUME NEW l, NEW lk, l.pc \notin WaitPcs, Suspend(a, l, task, lk),
               r'.check = r.check, r'.auto = r.auto, r'.gen = r.gen
        PROVE  AutoMoves(a)
    <2>1. \A y \in Tasks : task'[y] = IF y = a THEN l ELSE task[y]
      BY <1>0, <1>1, PutAfter
    <2>. QED BY <1>0, <1>1, <2>1, Kinds DEF KeepsMonitor, Suspend, AutoMoves
  <1>2. ASSUME NEW l, Acquire(a, l, task, lock),
               r'.check = r.check, r'.auto = r.auto,
               r'.gen = r.gen \/ l.pc = "next_trans"
        PROVE  AutoMoves(a)
    <2>1. \A y \in Tasks : task'[y] = IF y = a THEN l ELSE task[y]
      BY <1>0, <1>2, PutAfter
    <2>. QED BY <1>0, <1>2, <2>1, Kinds DEF KeepsMonitor, Acquire, AutoMoves
  <1>3. CASE AutoStart(a) \/ NextWakes(a)
    <2>1. r' = r
      BY <1>3, UnseenKeepsFields DEF Unseen
    <2>. DEFINE m == [At("next_stop") EXCEPT !.gen = task[a].gen]
                k == [At("next_mark") EXCEPT !.gen = task[a].gen]
    <2>2. m.pc = "next_stop" /\ k.pc = "next_mark"
      BY <1>i
    <2>3. \/ Suspend(a, Idle, task, lock) \/ Suspend(a, m, task, lock)
          \/ Acquire(a, k, task, lock)
      BY <1>3 DEF AutoStart, NextWakes, NextTrack
    <2>. HIDE DEF m, k
    <2>. QED BY <1>1, <1>2, <1>i, <2>1, <2>2, <2>3
  <1>4. CASE NextStopped(a) \/ NextGivesUp(a) \/ EndStopped(a)
    <2>1. PICK x \in {"next_sleep", "end_stop", "end_sleep"} :
            Suspend(a, [task[a] EXCEPT !.pc = x], task, lock) /\ r' = r
      BY <1>4 DEF NextStopped, NextGivesUp, EndStopped
    <2>. DEFINE l == [task[a] EXCEPT !.pc = x]
    <2>2. l.pc \notin WaitPcs
      BY <1>i
    <2>. HIDE DEF l
    <2>. QED BY <1>1, <2>1, <2>2 DEF l
  <1>5. CASE NextTransitioning(a) \/ NextMark(a)
    <2>1. PICK x \in {"next_call", "next_wait"} :
            Suspend(a, [task[a] EXCEPT !.pc = x], task, Leave(lock, a))
      BY <1>5 DEF NextTransitioning, NextMark
    <2>. DEFINE l == [task[a] EXCEPT !.pc = x]
    <2>2. r'.check = r.check /\ r'.auto = r.auto /\ r'.gen = r.gen
      BY <1>5 DEF NextTransitioning, NextMark, TypeOK, RendererType
    <2>3. l.pc \notin WaitPcs
      BY <1>i
    <2>. HIDE DEF l
    <2>. QED BY <1>1, <2>1, <2>2, <2>3 DEF l
  <1>6. CASE NextFails(a) \/ NextRaises(a)
    <2>1. \E lk : Suspend(a, Idle, task, lk)
      BY <1>6 DEF NextFails, NextRaises, Finish
    <2>2. r'.check = r.check /\ r'.auto = r.auto /\ r'.gen = r.gen
      BY <1>6 DEF NextFails, NextRaises, TypeOK, RendererType
    <2>. QED BY <1>1, <1>i, <2>1, <2>2
  <1>7. CASE NextCalled(a) \/ EndSlept(a)
    <2>1. (\E x : Acquire(a, [task[a] EXCEPT !.pc = x], task, lock)) /\ r' = r
      BY <1>7 DEF NextCalled, EndSlept
    <2>. QED BY <1>2, <2>1
  <1>8. CASE NextSwitch(a)
    <2>. DEFINE l == [task[a] EXCEPT !.pc = "next_trans", !.media = r.next]
    <2>1. l.pc = "next_trans"
      BY <1>i
    <2>2. Acquire(a, l, task, lock)
      BY <1>8 DEF NextSwitch
    <2>3. r'.check = r.check /\ r'.auto = r.auto
      BY <1>8 DEF NextSwitch, TypeOK, RendererType
    <2>. HIDE DEF l
    <2>. QED BY <1>2, <2>1, <2>2, <2>3
  <1>9. CASE NextSucceeds(a)
    <2>1. PICK c \in Checks :
            /\ Suspend(a, Idle, Spawned(Cancelled(r.check), c, At("chk_sleep")),
                       Leave(Leave(lock, r.check), a))
            /\ r'.check = c /\ r'.auto = r.auto /\ r'.gen = r.gen
      BY <1>9 DEF NextSucceeds, Done, TypeOK, RendererType
    <2>2. task'[a] = Idle /\ loop' = NoTask
      BY <1>0, <2>1, Kinds DEF Suspend, Spawned, Cancelled
    <2>3. \A y \in Checks : y # c => task'[y] = IF y = r.check THEN Idle ELSE task[y]
      BY <1>0, <2>1, Kinds DEF Suspend, Spawned, Cancelled
    <2>. QED BY <1>i, <2>1, <2>2, <2>3 DEF MakesMonitor, AutoMoves
  <1>10. CASE EndOfTrack(a)
    <2>1. \A y \in Tasks : task'[y] = IF y = a THEN Idle ELSE Cancelled(r.check)[y]
      BY <1>0, <1>10, PutAfter, CancelledType DEF EndOfTrack, FinishAndCancelCheck
    <2>2. \A y \in Tasks : Cancelled(r.check)[y] = IF y = r.check THEN Idle ELSE task[y]
      BY DEF Cancelled
    <2>3. r'.auto = r.auto /\ r'.gen = r.gen /\ loop' = NoTask
      BY <1>10 DEF EndOfTrack, TypeOK, RendererType, FinishAndCancelCheck, Suspend
    <2>. QED BY <1>0, <1>i, <2>1, <2>2, <2>3, Kinds DEF DropsMonitor, AutoMoves
  <1>. QED BY <1>3, <1>4, <1>5, <1>6, <1>7, <1>8, <1>9, <1>10, StepFrom
       DEF AutoPcs, SwitchPcs, NoNextPcs

\* The automatic next track runs alone and finds the lock free.
LEMMA AutoStep ==
  ASSUME Solo, BaseInv, SoloInv, NEW a \in Autos, Step(a)
  PROVE  SoloInv'
  <1>. USE DEF BaseInv, IInv
  <1>0. /\ a \in Tasks /\ MayRun(a) /\ Steps(a) /\ task[a].pc \in AutoPcs
        /\ r.check \in Checks \cup {NoTask}
    BY StepMayRun, StepGoes, Kinds DEF RoleInv, TypeOK, RendererType
  <1>i. /\ Idle.pc = "idle" /\ "idle" \notin WaitPcs /\ "idle" \notin QueuePcs
        /\ "prev" \in WaitPcs /\ "prev_call" \notin QueuePcs
        /\ "chk_sleep" \notin WaitPcs /\ At("chk_sleep").pc = "chk_sleep"
    BY DEF Idle, At, WaitPcs, QueuePcs, HeldPcs
  <1>1. AutoMoves(a)
    BY <1>0, AutoGoes
  <1>2. /\ NoMonitor /\ r.auto = a
        /\ \A h \in Handlers : task[h].pc \in AwayPcs
        /\ task[a].pc \notin SwitchedPcs => task[a].gen = r.gen
        /\ \A x \in Autos \ {a} : task[x].pc = "idle"
    BY <1>0 DEF SoloInv, AutoAlone, AutoNextIsKnown, Steps
  <1>3. \A h \in Handlers : task[h].pc \in {"idle", "prev_call"}
    <2>1. ASSUME NEW h \in Handlers, task[h].pc = "prev" PROVE FALSE
      BY <1>0, <1>i, <2>1, OthersDoNotWait, Kinds
    <2>. QED BY <1>2, <2>1 DEF AwayPcs
  <1>4. task[a].pc \notin QueuePcs => lock.queued = {}
    BY <1>2, <1>3, <1>i, Kinds DEF NoMonitor, LockInv, Consistent, TypeOK, LockType
  <1>5. SoloHandler' /\ IdleIsClean'
    BY <1>0, StepStaysSolo
  <1>6. \A y \in Handlers \cup (Autos \ {a}) : task'[y] = task[y]
    <2>1. task[a].pc # "chk_lock"
      BY <1>0 DEF AutoPcs, SwitchPcs, NoNextPcs
    <2>. QED BY <1>0, <2>1, Kinds DEF Steps, Bystander
  <1>7. OneMonitor' /\ (task'[a] # Idle => NoMonitor')
    BY <1>1, <1>2, MonitorAfter DEF AutoMoves
  <1>8. AutoNextIsKnown'
    BY <1>1, <1>2, <1>6 DEF AutoMoves, AutoNextIsKnown
  <1>9. AutoAlone'
    <2>1. ASSUME task'[a].pc # "idle"
          PROVE  /\ NoMonitor'
                 /\ task'[a].pc \notin SwitchedPcs => task'[a].gen = r'.gen
      <3>1. NoMonitor' /\ Flow(task[a].pc, task'[a].pc)
        BY <1>0, <1>7, <1>i, <2>1 DEF Steps, Goes
      <3>2. task'[a].gen = task[a].gen
        BY <1>0, <1>i, <2>1 DEF Steps, Goes, AutoPcs, SwitchPcs, NoNextPcs
      <3>3. task'[a].pc \notin SwitchedPcs => task[a].pc \notin SwitchedPcs
        BY <3>1 DEF Flow, SwitchedPcs
      <3>. QED BY <1>1, <1>2, <3>1, <3>2, <3>3 DEF AutoMoves, SwitchedPcs
    <2>. QED BY <1>2, <1>6, <2>1 DEF AutoAlone
  <1>10. PlayAlone'
    BY <1>2, <1>6 DEF PlayAlone, PlayInPcs, AwayPcs
  <1>11. NobodyWaits'
    <2>1. task'[a].pc \in WaitPcs => loop' = a
      <3>1. ASSUME task'[a].pc \in WaitPcs PROVE task[a].pc \notin QueuePcs
        <4>1. Flow(task[a].pc, task'[a].pc)
          BY <1>0, <1>i, <3>1 DEF Steps, Goes
        <4>. QED BY <1>0, <3>1, <4>1
             DEF Flow, QueuePcs, HeldPcs, WaitPcs, AutoPcs, SwitchPcs, NoNextPcs
      <3>. QED BY <1>1, <1>4, <3>1 DEF AutoMoves
    <2>2. ASSUME NEW y \in Tasks, y # a, task'[y].pc \in WaitPcs PROVE FALSE
      <3>1. CASE y \in Checks
        <4>1. task'[y] \in {task[y], Idle, At("chk_sleep")}
          BY <1>0, <2>2, <3>1, Kinds DEF Steps, Bystander
        <4>. QED BY <1>2, <1>i, <2>2, <3>1, <4>1 DEF NoMonitor
      <3>2. CASE y \notin Checks
        BY <1>2, <1>3, <1>6, <1>i, <2>2, <3>2, Kinds DEF WaitPcs
      <3>. QED BY <3>1, <3>2
    <2>. QED BY <2>1, <2>2 DEF NobodyWaits
  <1>. QED BY <1>5, <1>7, <1>8, <1>9, <1>10, <1>11 DEF SoloInv

-----------------------------------------------------------------------------
(* A step of the monitor.                                                  *)

\* The monitor asks for the lock, sleeps, ends, or creates the automatic next
\* track while it owns the lock.
LEMMA CheckGoes ==
  ASSUME TypeOK, NEW c \in Checks, task[c].pc \in {"chk_sleep", "chk_lock"}, Step(c)
  PROVE  \/ /\ Alone(c) /\ r' = r
            /\ \/ task'[c].pc = "chk_lock" /\ (loop' = c \/ lock.queued # {})
               \/ /\ task'[c].pc \in {"idle", "chk_sleep"}
                  /\ task[c].pc = "chk_lock" /\ Owns(lock, c)
         \/ \E a \in Autos :
              /\ task[a].pc = "idle" /\ task[c].pc = "chk_lock" /\ Owns(lock, c)
              /\ r' = [r EXCEPT !.auto = a]
              /\ task'[a].gen = r.gen /\ task'[a].pc = "auto_start"
              /\ task'[c] = Idle
              /\ \A y \in Tasks \ {a, c} : task'[y] = task[y]
  <1>0. /\ c \in Tasks /\ task[c] \in Locals /\ task \in [Tasks -> Locals]
        /\ c \notin Autos
    BY Kinds DEF TypeOK
  <1>i. /\ Idle.pc = "idle" /\ [task[c] EXCEPT !.pc = "chk_lock"].pc = "chk_lock"
        /\ \A b : [At("chk_sleep") EXCEPT !.near = b].pc = "chk_sleep"
        /\ [At("auto_start") EXCEPT !.gen = r.gen].pc = "auto_start"
        /\ [At("auto_start") EXCEPT !.gen = r.gen].gen = r.gen
    BY <1>0 DEF Idle, At, Locals
  <1>1. CASE CheckWakes(c)
    <2>1. Acquire(c, [task[c] EXCEPT !.pc = "chk_lock"], task, lock) /\ r' = r
      BY <1>1 DEF CheckWakes
    <2>2. \A y \in Tasks : task'[y] = IF y = c THEN [task[c] EXCEPT !.pc = "chk_lock"]
                                    ELSE task[y]
      BY <1>0, <2>1, PutAfter
    <2>. QED BY <1>0, <1>i, <2>1, <2>2 DEF Acquire, Alone
  <1>2. CASE CheckEnds(c) \/ CheckAgain(c)
    <2>1. PICK l \in {Idle} \cup {[At("chk_sleep") EXCEPT !.near = b] : b \in BOOLEAN} :
             /\ Suspend(c, l, task, Leave(lock, c)) /\ r' = r
             /\ Owns(lock, c) /\ task[c].pc = "chk_lock"
      BY <1>2 DEF CheckEnds, CheckAgain, Finish, InSection
    <2>2. l.pc \in {"idle", "chk_sleep"}
      BY <1>i
    <2>3. \A y \in Tasks : task'[y] = IF y = c THEN l ELSE task[y]
      BY <1>0, <2>1, PutAfter
    <2>. QED BY <1>0, <2>1, <2>2, <2>3 DEF Alone
  <1>3. CASE CheckSpawnsNext(c)
    <2>1. PICK a \in Autos :
            /\ task[a].pc = "idle"
            /\ Suspend(c, Idle, Spawned(task, a, [At("auto_start") EXCEPT !.gen = r.gen]),
                       Leave(lock, c))
            /\ r' = [r EXCEPT !.auto = a] /\ Owns(lock, c) /\ task[c].pc = "chk_lock"
      BY <1>3 DEF CheckSpawnsNext, Done, Finish, InSection
    <2>2. /\ task'[a] = [At("auto_start") EXCEPT !.gen = r.gen]
          /\ task'[c] = Idle
          /\ \A y \in Tasks \ {a, c} : task'[y] = task[y]
      BY <1>0, <2>1, Kinds DEF Suspend, Spawned
    <2>. QED BY <1>i, <2>1, <2>2
  <1>. QED BY <1>1, <1>2, <1>3, StepFrom

\* A monitor that creates the automatic next track owns the lock, so that no
\* command is under way, and ends.
LEMMA CheckStep ==
  ASSUME Solo, BaseInv, SoloInv, NEW c \in Checks, Step(c)
  PROVE  SoloInv'
  <1>. USE DEF BaseInv, IInv
  <1>0. /\ c \in Tasks /\ MayRun(c) /\ Steps(c)
        /\ task[c].pc \in {"chk_sleep", "chk_lock"}
    BY StepMayRun, StepGoes, Kinds DEF MonitorPcs, Steps
  <1>i. /\ Idle.pc = "idle" /\ "idle" \notin WaitPcs /\ "idle" \notin QueuePcs
        /\ "chk_sleep" \notin WaitPcs /\ "auto_start" \notin WaitPcs
    BY DEF Idle, WaitPcs, QueuePcs, HeldPcs
  <1>1. /\ r.check = c /\ NoAutoNext
        /\ \A h \in Handlers : task[h].pc \notin PlayInPcs \cup WaitPcs
        /\ \A x \in Checks \ {c} : task[x].pc = "idle"
    <2>1. r.check = c /\ \A x \in Checks \ {c} : task[x].pc = "idle"
      BY <1>0 DEF SoloInv, OneMonitor
    <2>2. NoAutoNext
      BY <1>0 DEF SoloInv, AutoAlone, NoMonitor, NoAutoNext
    <2>3. \A h \in Handlers : task[h].pc \notin PlayInPcs
      BY <1>0 DEF SoloInv, PlayAlone, NoMonitor
    <2>4. \A h \in Handlers : task[h].pc \notin WaitPcs
      BY <1>0, OthersDoNotWait, Kinds
    <2>. QED BY <2>1, <2>2, <2>3, <2>4
  <1>2. SoloHandler' /\ IdleIsClean'
    BY <1>0, StepStaysSolo
  <1>3. CASE \E a \in Autos :
              /\ task[a].pc = "idle" /\ task[c].pc = "chk_lock" /\ Owns(lock, c)
              /\ r' = [r EXCEPT !.auto = a]
              /\ task'[a].gen = r.gen /\ task'[a].pc = "auto_start"
              /\ task'[c] = Idle
              /\ \A y \in Tasks \ {a, c} : task'[y] = task[y]
    <2>1. PICK a \in Autos :
              /\ task[c].pc = "chk_lock" /\ Owns(lock, c)
              /\ r' = [r EXCEPT !.auto = a]
              /\ task'[a].gen = r.gen /\ task'[a].pc = "auto_start"
              /\ task'[c] = Idle
              /\ \A y \in Tasks \ {a, c} : task'[y] = task[y]
      BY <1>3
    <2>2. r'.auto = a /\ r'.gen = r.gen
      BY <2>1 DEF TypeOK, RendererType
    <2>3. \A h \in Handlers : task[h].pc \in {"idle", "prev_call"} /\ task'[h] = task[h]
      <3>1. ASSUME NEW h \in Handlers, task[h].pc \in {"pause_call", "stop_call"} PROVE FALSE
        BY <2>1, <3>1, Kinds, OneOwner DEF LockInv, Consistent, HeldPcs
      <3>2. \A h \in Handlers :
              task[h].pc \in SoloPcs /\ task[h].pc \notin PlayInPcs \cup WaitPcs
        BY <1>1 DEF SoloInv, SoloHandler
      <3>. QED BY <2>1, <3>1, <3>2, Kinds
           DEF SoloPcs, PlayPcs, PlayInPcs, WaitPcs, QueuePcs, HeldPcs
    <2>4. NoMonitor'
      BY <1>1, <1>i, <2>1, Kinds DEF NoMonitor
    <2>5. \A x \in Autos \ {a} : task'[x].pc = "idle"
      BY <1>1, <2>1, Kinds DEF NoAutoNext
    <2>6. AutoNextIsKnown' /\ OneMonitor'
      BY <2>2, <2>4, <2>5 DEF AutoNextIsKnown, OneMonitor, NoMonitor
    <2>7. AutoAlone'
      BY <2>1, <2>2, <2>3, <2>4, <2>5 DEF AutoAlone, AwayPcs
    <2>8. PlayAlone'
      BY <2>3 DEF PlayAlone, PlayInPcs
    <2>9. NobodyWaits'
      BY <1>i, <2>1, <2>3, <2>4, <2>5, Kinds DEF NobodyWaits, NoMonitor, WaitPcs, QueuePcs
    <2>. QED BY <1>2, <2>6, <2>7, <2>8, <2>9 DEF SoloInv
  <1>4. CASE /\ Alone(c) /\ r' = r
             /\ \/ task'[c].pc = "chk_lock" /\ (loop' = c \/ lock.queued # {})
                \/ /\ task'[c].pc \in {"idle", "chk_sleep"}
                   /\ task[c].pc = "chk_lock" /\ Owns(lock, c)
    <2>1. \A y \in Tasks \ {c} : task'[y] = task[y]
      BY <1>4 DEF Alone
    <2>2. NoAutoNext' /\ \A x \in Checks \ {c} : task'[x].pc = "idle"
      BY <1>1, <2>1, Kinds DEF NoAutoNext
    <2>3. AutoNextIsKnown' /\ OneMonitor' /\ AutoAlone'
      BY <1>1, <1>4, <2>2 DEF AutoNextIsKnown, OneMonitor, AutoAlone, NoAutoNext
    <2>4. PlayAlone'
      BY <1>1, <2>1, Kinds DEF PlayAlone
    <2>5. NobodyWaits'
      <3>1. ASSUME NEW y \in Tasks, y # c, task'[y].pc \in WaitPcs PROVE FALSE
        BY <1>1, <1>i, <2>1, <2>2, <3>1, Kinds DEF NoAutoNext
      <3>2. ASSUME task'[c].pc \in WaitPcs, loop' # c
            PROVE  \E h \in Handlers : task'[h].pc \in {"pause_call", "stop_call"}
        <4>1. lock.queued # {} /\ task'[c].pc = "chk_lock"
          BY <1>4, <1>i, <3>2
        <4>2. task[c].pc \notin QueuePcs
          <5>1. task[c].pc # "chk_lock"
            BY <1>0, <4>1 DEF Steps, Goes, Flow, Idle
          <5>. QED BY <1>0, <5>1 DEF QueuePcs
        <4>3. PICK y \in lock.queued : y \in Tasks /\ task[y].pc \in QueuePcs
          BY <4>1 DEF LockInv, Consistent, TypeOK, LockType
        <4>4. y \in Handlers
          BY <1>1, <1>i, <4>2, <4>3, Kinds DEF NoAutoNext
        <4>5. task[y].pc \in SoloPcs /\ task[y].pc \notin PlayInPcs \cup WaitPcs
          BY <1>1, <4>4 DEF SoloInv, SoloHandler
        <4>6. task[y].pc \in {"pause_call", "stop_call"}
          BY <4>3, <4>5 DEF SoloPcs, PlayPcs, PlayInPcs, WaitPcs, QueuePcs, HeldPcs
        <4>. QED BY <2>1, <4>4, <4>6, Kinds
      <3>. QED BY <3>1, <3>2 DEF NobodyWaits
    <2>. QED BY <1>2, <2>3, <2>4, <2>5 DEF SoloInv
  <1>. QED BY <1>0, <1>3, <1>4, CheckGoes

-----------------------------------------------------------------------------
(* A command that arrives.                                                 *)

\* A command finds nobody else running, and cancels the automatic next track.
LEMMA CommandSolo ==
  ASSUME Solo, BaseInv, SoloInv, NEW t \in Handlers,
         Command(t) \/ IdleReset(t) \/ AutomaticPlay(t)
  PROVE  SoloInv'
  <1>. USE DEF BaseInv, IInv
  <1>i. /\ Idle.pc = "idle" /\ "idle" \notin WaitPcs /\ "idle" \notin QueuePcs
        /\ "idle" \notin PlayInPcs
        /\ \A pc \in {"set_uri", "play", "pause", "stop", "reset", "prev"} :
              pc \in SoloPcs /\ pc \notin PlayInPcs \cup HeldPcs \cup {"idle"}
    BY DEF Idle, WaitPcs, QueuePcs, HeldPcs, PlayInPcs, SoloPcs, PlayPcs
  <1>1. PICK pc \in {"set_uri", "play", "pause", "stop", "reset", "prev"} :
          \/ EntersCancelling(t, pc)
          \/ pc = "prev" /\ EntersAlone(t, pc)
    BY CommandEnters DEF Solo
  <1>2. /\ Enters(t, pc) /\ t \in Tasks /\ MayRun(t) /\ task[t].pc = "idle"
        /\ task'[t].pc = pc /\ \A h \in Handlers : h = t
    BY <1>1, Kinds DEF EntersAlone, EntersCancelling, Enters, Solo
  <1>3. /\ r'.uri = r.uri /\ r'.gen = r.gen /\ r'.check = r.check
        /\ r'.transport = r.transport
    BY <1>2, CommandLeavesFields
  <1>4. \A c \in Checks : task'[c] = task[c]
    <2>1. r.auto \in Autos \cup {NoTask}
      BY DEF TypeOK, RendererType
    <2>. QED BY <1>2, <2>1, Kinds DEF Enters
  <1>5. SoloHandler'
    BY <1>i, <1>2 DEF SoloHandler
  <1>6. IdleIsClean'
    <2>1. \A y \in Tasks \ {t} : task'[y] \in {task[y], Idle}
      BY <1>2 DEF Enters
    <2>. QED BY <1>i, <1>2, <2>1 DEF SoloInv, IdleIsClean
  <1>7. OneMonitor' /\ PlayAlone'
    BY <1>i, <1>2, <1>3, <1>4 DEF SoloInv, OneMonitor, PlayAlone
  <1>8. AutoNextIsKnown' /\ AutoAlone'
    <2>1. CASE EntersCancelling(t, pc)
      <3>1. \A a \in Autos : task'[a].pc = "idle"
        BY <1>i, <2>1, Kinds DEF EntersCancelling, SoloInv, AutoNextIsKnown
      <3>. QED BY <3>1 DEF AutoNextIsKnown, AutoAlone
    <2>2. CASE pc = "prev" /\ EntersAlone(t, pc)
      <3>1. r' = r /\ \A a \in Autos : task'[a] = task[a]
        BY <2>2, Kinds DEF EntersAlone, Alone
      <3>. QED BY <1>2, <1>4, <2>2, <3>1
           DEF SoloInv, AutoNextIsKnown, AutoAlone, NoMonitor, AwayPcs
    <2>. QED BY <1>1, <2>1, <2>2
  <1>9. NobodyWaits'
    <2>1. ASSUME NEW y \in Tasks, task[y].pc \in WaitPcs PROVE FALSE
      BY <1>i, <1>2, <2>1, OthersDoNotWait
    <2>2. lock.queued = {}
      <3>1. ASSUME NEW y \in lock.queued PROVE FALSE
        <4>1. y \in Tasks /\ task[y].pc \in QueuePcs
          BY <3>1 DEF LockInv, Consistent, TypeOK, LockType
        <4>2. task[y].pc \in HeldPcs
          BY <2>1, <4>1 DEF WaitPcs
        <4>3. y \notin Autos /\ y \notin Checks
          BY <4>1, <4>2, Kinds
          DEF RoleInv, MonitorPcs, AutoPcs, SwitchPcs, NoNextPcs, HeldPcs
        <4>. QED BY <1>i, <1>2, <4>1, <4>3, Kinds
      <3>. QED BY <3>1
    <2>3. loop' = t
      BY <1>i, <1>1, <2>2 DEF EntersCancelling, EntersAlone, Leave
    <2>4. ASSUME NEW y \in Tasks, y # t, task'[y].pc \in WaitPcs PROVE FALSE
      BY <1>i, <1>2, <2>1, <2>4 DEF Enters
    <2>. QED BY <2>3, <2>4 DEF NobodyWaits
  <1>. QED BY <1>5, <1>6, <1>7, <1>8, <1>9 DEF SoloInv

-----------------------------------------------------------------------------
\* Nobody runs at first.
LEMMA InitSolo == Init => SoloInv
  <1>1. Idle.pc = "idle" /\ "idle" \in SoloPcs /\ "idle" \notin PlayInPcs \cup WaitPcs
    BY DEF Idle, SoloPcs, PlayInPcs, WaitPcs, QueuePcs
  <1>2. ASSUME Init PROVE \A t \in Tasks : task[t] = Idle
    BY <1>2 DEF Init
  <1>. QED BY <1>1, <1>2, Kinds
       DEF SoloInv, SoloHandler, IdleIsClean, AutoNextIsKnown, OneMonitor,
           AutoAlone, PlayAlone, NobodyWaits

\* The invariant of a renderer with one handler is inductive.
LEMMA NextSolo ==
  ASSUME Solo, BaseInv, SoloInv, [Next]_vars
  PROVE  SoloInv'
  <1>1. ASSUME NEW t \in Tasks, Step(t) PROVE SoloInv'
    BY <1>1, Kinds, AwayStep, BusyStep, AutoStep, CheckStep
  <1>2. ASSUME NEW t \in Handlers, Command(t) \/ IdleReset(t) \/ AutomaticPlay(t)
        PROVE  SoloInv'
    BY <1>2, CommandSolo
  <1>3. ASSUME NEW u, SetNext(u) PROVE SoloInv'
    BY <1>3, SetNextLeavesFields
    DEF BaseInv, IInv, SoloInv, SoloHandler, IdleIsClean, AutoNextIsKnown, OneMonitor,
        AutoAlone, PlayAlone, NobodyWaits, NoMonitor
  <1>4. CASE UNCHANGED vars
    BY <1>4 DEF vars, SoloInv, SoloHandler, IdleIsClean, AutoNextIsKnown, OneMonitor,
        AutoAlone, PlayAlone, NobodyWaits, NoMonitor
  <1>. QED BY <1>1, <1>2, <1>3, <1>4 DEF Next, SoapStep, AppStep, RunTask, Handlers

\* With one handler, without Seek and Next, an automatic next track that is
\* alive is the recorded one (renderer.py:135, 369-373).
THEOREM AutoNextAlwaysKnown == ASSUME Solo PROVE Spec => []AutoNextIsKnown
  <1>1. BaseInv /\ SoloInv /\ [Next]_vars => SoloInv'
    BY NextSolo
  <1>2. SoloInv => AutoNextIsKnown
    BY DEF SoloInv
  <1>. QED BY <1>1, <1>2, InitSolo, InitBase, NextBase, PTL DEF Spec

\* With one handler, without Seek and Next, a monitor that is alive is the
\* recorded one (renderer.py:135, 330-338).
THEOREM AlwaysOneMonitor == ASSUME Solo PROVE Spec => []OneMonitor
  <1>1. BaseInv /\ SoloInv /\ [Next]_vars => SoloInv'
    BY NextSolo
  <1>2. SoloInv => OneMonitor
    BY DEF SoloInv
  <1>. QED BY <1>1, <1>2, InitSolo, InitBase, NextBase, PTL DEF Spec

\* With one handler, without Seek and Next, play() asks the speaker for the
\* media that is selected when it does (renderer.py:143-201).
THEOREM PlayAlwaysSendsCurrentMedia == ASSUME Solo PROVE Spec => []PlaySendsCurrentMedia
  <1>1. BaseInv /\ SoloInv /\ [Next]_vars => SoloInv'
    BY NextSolo
  <1>2. BaseInv /\ SoloInv => PlaySendsCurrentMedia
    BY Kinds DEF BaseInv, IInv, RoleInv, MonitorPcs, AutoPcs, SwitchPcs, NoNextPcs,
        SoloInv, PlayAlone, PlayInPcs, PlaySendsCurrentMedia
  <1>. QED BY <1>1, <1>2, InitSolo, InitBase, NextBase, PTL DEF Spec

\* When a command has taken effect no automatic next track is left.
LEMMA SoloRetires ==
  ASSUME Solo, BaseInv, SoloInv, [Next]_vars, NEW t \in Soap,
         task[t].pc \in {"set_uri", "pause_call", "stop_call"}, task'[t] = Idle
  PROVE  \A a \in Autos : task'[a] = Idle
  <1>. USE DEF BaseInv, IInv
  <1>0. /\ t \in Handlers /\ t \in Tasks /\ task[t].pc \notin AwayPcs
        /\ (\A h \in Handlers : h = t) /\ task'[t] # task[t]
    BY DEF Handlers, Tasks, AwayPcs, Solo, Idle
  <1>1. CASE Step(t)
    <2>1. NoAutoNext' /\ IdleIsClean'
      BY <1>0, <1>1, BusyFrame
    <2>. QED BY <2>1, Kinds DEF NoAutoNext, IdleIsClean
  <1>2. ASSUME NEW y \in Tasks, y # t, Step(y) PROVE FALSE
    <2>1. Steps(y) /\ r.check \in Checks \cup {NoTask}
      BY <1>2, StepGoes DEF TypeOK, RendererType
    <2>2. task'[t] \in {task[t]} \/ t = r.check \/ t \in Checks \/ t \in Autos
      BY <1>0, <1>2, <2>1 DEF Steps, Bystander
    <2>. QED BY <1>0, <2>1, <2>2, Kinds
  <1>3. ASSUME NEW h \in Handlers, Command(h) \/ IdleReset(h) \/ AutomaticPlay(h)
        PROVE  FALSE
    <2>1. \E pc : Enters(t, pc)
      BY <1>0, <1>3, CommandEnters DEF EntersAlone, EntersCancelling
    <2>. QED BY <2>1 DEF Enters
  <1>4. ASSUME NEW u, SetNext(u) PROVE FALSE
    BY <1>0, <1>4 DEF SetNext
  <1>5. CASE UNCHANGED vars
    BY <1>0, <1>5 DEF vars
  <1>. QED BY <1>1, <1>2, <1>3, <1>4, <1>5 DEF Next, SoapStep, AppStep, RunTask, Handlers

\* With one handler, without Seek and Next, no automatic next track outlives
\* the command that ended its playback (renderer.py:103-106, 233, 260).
THEOREM CommandsAlwaysRetire == ASSUME Solo PROVE Spec => CommandsRetireAutoNext
  <1>1. BaseInv /\ SoloInv /\ [Next]_vars => SoloInv'
    BY NextSolo
  <1>2. BaseInv /\ SoloInv /\ [Next]_vars =>
          [\A t \in Soap :
             task[t].pc \in {"set_uri", "pause_call", "stop_call"} /\ task'[t] = Idle
               => \A a \in Autos : task'[a] = Idle]_vars
    BY SoloRetires
  <1>. QED BY <1>1, <1>2, InitSolo, InitBase, NextBase, PTL DEF Spec, CommandsRetireAutoNext

-----------------------------------------------------------------------------
(* What the speaker plays.                                                 *)

LatePcs == {"next_call", "next_ok", "next_fail", "next_wait", "end_stop",
            "end_sleep", "end_lock"}

\* Somebody is about to settle what the speaker plays, or the state.
Unsettled ==
  \/ \E a \in Autos : task[a].pc \in {"next_sleep", "next_trans"}
  \/ \E h \in Handlers : task[h].pc # "idle" /\ (task[h].pc = "play" => r.uri # NoUri)

OnSpeaker == r.transport = "PLAYING" /\ ~spk.raised => Plays(r.uri) \/ Unsettled

\* Where an automatic next track is, the media and the speaker are known.
AutoTrack(a) ==
  /\ task[a].pc \notin SwitchedPcs \cup {"idle"} => r.uri # NoUri
  /\ task[a].pc \in SwitchedPcs => r.uri = task[a].media
  /\ task[a].pc \in LatePcs => r.transport = "TRANSITIONING"
  /\ task[a].pc = "next_ok" => Plays(r.uri)

NobodyGoesBack == \A h \in Handlers : task[h].pc \notin {"prev", "prev_call"}

TrackInv == /\ DurInv /\ NobodyGoesBack /\ OnSpeaker
            /\ \A a \in Autos : AutoTrack(a)

\* Nobody seeks and nobody goes back, whoever runs.
LEMMA StepTrackFrame ==
  ASSUME TypeOK, TrackInv, NEW t \in Tasks, Step(t)
  PROVE  DurInv' /\ NobodyGoesBack'
  <1>1. Steps(t)
    BY StepGoes
  <1>2. NobodyGoesBack'
    BY <1>1, NobodyGoesTo, Kinds DEF TrackInv, NobodyGoesBack, Flow
  <1>. QED BY <1>2, StepDur DEF TrackInv

\* The handler: play() settles what the speaker plays, the others the state.
LEMMA BusyTrack ==
  ASSUME Solo, BaseInv, SoloInv, TrackInv,
         NEW t \in Handlers, Step(t)
  PROVE  TrackInv'
  <1>. USE DEF BaseInv, IInv
  <1>0. t \in Tasks /\ Steps(t) /\ DurInv' /\ NobodyGoesBack'
    BY StepGoes, StepTrackFrame, Kinds
  <1>1. task[t].pc \notin AwayPcs
    BY <1>0 DEF Steps, TrackInv, NobodyGoesBack, AwayPcs
  <1>2. NoAutoNext /\ NoAutoNext' /\ (\A h \in Handlers : h = t) /\ task[t].pc \in SoloPcs
    BY <1>1, BusyFrame
  <1>3. \A a \in Autos : AutoTrack(a)'
    BY <1>2 DEF NoAutoNext, AutoTrack, SwitchedPcs, LatePcs
  <1>4. OnSpeaker'
    <2>1. CASE task'[t].pc # "idle"
      <3>1. task'[t].pc # "play"
        BY <1>0, <2>1 DEF Steps, Goes, Flow, Idle
      <3>. QED BY <2>1, <3>1 DEF OnSpeaker, Unsettled
    <2>2. CASE SetUriBody(t) \/ PlayFails(t) \/ PauseDone(t) \/ StopDone(t) \/ ResetBody(t)
      <3>1. r'.transport # "PLAYING"
        BY <2>2
        DEF SetUriBody, PlayFails, PauseDone, StopDone, ResetBody, TypeOK, RendererType
      <3>. QED BY <3>1 DEF OnSpeaker
    <2>3. CASE PlayNoUri(t)
      <3>1. r' = r /\ spk' = spk /\ r.uri = NoUri /\ task[t].pc = "play"
        BY <2>3, StartsAt DEF PlayNoUri
      <3>2. ~Unsettled
        BY <1>2, <3>1 DEF Unsettled, NoAutoNext
      <3>. QED BY <3>1, <3>2 DEF TrackInv, OnSpeaker, Plays
    <2>4. CASE PlaySucceeds(t)
      <3>1. r'.uri = r.uri /\ task[t].pc = "play_call"
            /\ spk' = Settled(Speaking(task[t].media)) /\ task[t].media \in Media
        BY <2>4, <1>0, StartsAt DEF PlaySucceeds, TypeOK, RendererType, Locals
      <3>2. r.uri = task[t].media
        BY <3>1 DEF SoloInv, PlayAlone, PlayInPcs
      <3>3. spk'.media = task[t].media /\ spk'.mode = "playing"
        BY <3>1, SpeakerTypes, SpeakerFields
      <3>. QED BY <3>1, <3>2, <3>3 DEF OnSpeaker, Plays
    <2>5. CASE PlayRaises(t)
      BY <1>0, <2>5, StepRaises DEF OnSpeaker
    <2>6. /\ PlayBegin(t) \/ PlaySeekReady(t) \/ PlayNotified(t) \/ PlayCall(t)
             \/ PauseCall(t) \/ StopCall(t) => task'[t].pc # "idle"
      <3>1. PlayBegin(t) \/ PlaySeekReady(t) => task'[t].pc # "idle"
        BY <1>0, BeginGoes, SeekReadyGoes DEF Begun
      <3>2. PlayNotified(t) \/ PlayCall(t) \/ PauseCall(t) \/ StopCall(t)
              => task'[t].pc # "idle"
        BY <1>0, GoesOn
      <3>. QED BY <3>1, <3>2
    <2>. QED BY <1>1, <1>2, <2>1, <2>2, <2>3, <2>4, <2>5, <2>6, StepFrom
         DEF SoloPcs, PlayPcs, AwayPcs
  <1>. QED BY <1>0, <1>3, <1>4 DEF TrackInv

\* The automatic next track: it has the media that it switched to played.
LEMMA AutoTracks ==
  ASSUME Solo, BaseInv, SoloInv, TrackInv,
         NEW a \in Autos, Step(a)
  PROVE  TrackInv'
  <1>. USE DEF BaseInv, IInv
  <1>0. /\ a \in Tasks /\ MayRun(a) /\ Steps(a) /\ task[a].pc \in AutoPcs
        /\ r.check \in Checks \cup {NoTask} /\ task[a] \in Locals
        /\ DurInv' /\ NobodyGoesBack' /\ task \in [Tasks -> Locals]
    BY StepMayRun, StepGoes, StepTrackFrame, Kinds DEF RoleInv, TypeOK, RendererType
  <1>1. /\ \A h \in Handlers : task[h].pc = "idle"
        /\ task[a].pc \notin SwitchedPcs => task[a].gen = r.gen
        /\ \A x \in Autos \ {a} : task[x].pc = "idle"
        /\ AutoTrack(a)
    BY <1>0
    DEF SoloInv, AutoAlone, AutoNextIsKnown, Steps, AwayPcs, TrackInv, NobodyGoesBack
  <1>2. /\ \A h \in Handlers : task'[h].pc = "idle"
        /\ \A x \in Autos \ {a} : task'[x].pc = "idle"
    <2>1. task[a].pc # "chk_lock"
      BY <1>0 DEF AutoPcs, SwitchPcs, NoNextPcs
    <2>. QED BY <1>0, <1>1, <2>1, Kinds DEF Steps, Bystander
  <1>3. r.transport = "PLAYING" /\ ~spk.raised
          => Plays(r.uri) \/ task[a].pc \in {"next_sleep", "next_trans"}
    BY <1>1 DEF TrackInv, OnSpeaker, Unsettled
  <1>4. SUFFICES /\ r'.transport = "PLAYING" /\ ~spk'.raised
                      => Plays(r.uri)' \/ task'[a].pc \in {"next_sleep", "next_trans"}
                 /\ AutoTrack(a)'
    <2>1. \A x \in Autos \ {a} : AutoTrack(x)'
      BY <1>2 DEF AutoTrack, SwitchedPcs, LatePcs
    <2>. QED BY <1>0, <2>1 DEF TrackInv, OnSpeaker, Unsettled
  <1>. USE DEF AutoTrack, SwitchedPcs, LatePcs, Plays
  <1>i. /\ Idle.pc = "idle"
        /\ \A x : /\ [task[a] EXCEPT !.pc = x].pc = x
                  /\ [task[a] EXCEPT !.pc = x].media = task[a].media
    BY <1>0 DEF Idle, Locals
  <1>5. CASE AutoStart(a) \/ NextWakes(a)
    <2>1. r' = r /\ spk' = spk
      BY <1>5 DEF AutoStart, NextWakes
    <2>2. task[a].pc \in {"auto_start", "next_wait"} /\ Flow(task[a].pc, task'[a].pc)
      <3>1. task[a].pc \in {"auto_start", "next_wait"}
        BY <1>5, StartsAt
      <3>2. ~Stale(task[a].gen)
        BY <1>1, <3>1 DEF Stale
      <3>3. task'[a].pc # "idle"
        BY <1>0, <1>5, <3>2, GoesOn
      <3>. QED BY <1>0, <1>i, <3>1, <3>3 DEF Steps, Goes
    <2>3. \/ task'[a].pc \in {"next_stop", "next_mark"}
          \/ task'[a].pc = "end_stop" /\ task[a].pc = "next_wait"
      BY <2>2 DEF Flow
    <2>. QED BY <1>1, <1>3, <2>1, <2>2, <2>3
  \* From one await to the next, with the media at hand.
  <1>6. ASSUME NEW x, NEW lk, Suspend(a, [task[a] EXCEPT !.pc = x], task, lk)
                              \/ Acquire(a, [task[a] EXCEPT !.pc = x], task, lk)
        PROVE  task'[a].pc = x /\ task'[a].media = task[a].media
    <2>. DEFINE l == [task[a] EXCEPT !.pc = x]
    <2>1. l.pc = x /\ l.media = task[a].media
      BY <1>i
    <2>. HIDE DEF l
    <2>2. Suspend(a, l, task, lk) \/ Acquire(a, l, task, lk)
      BY <1>6 DEF l
    <2>. QED BY <1>0, <2>1, <2>2, PutAfter
  <1>7. CASE NextStopped(a)
    <2>1. task'[a].pc = "next_sleep" /\ r' = r /\ task[a].pc = "next_stop"
      BY <1>6, <1>7, StartsAt DEF NextStopped
    <2>. QED BY <1>1, <2>1
  <1>8. CASE NextSwitch(a)
    <2>. DEFINE l == [task[a] EXCEPT !.pc = "next_trans", !.media = r.next]
    <2>1. l.pc = "next_trans" /\ l.media = r.next
      BY <1>0 DEF Locals
    <2>2. Acquire(a, l, task, lock) /\ r'.uri = r.next
      BY <1>8 DEF NextSwitch, TypeOK, RendererType
    <2>. HIDE DEF l
    <2>3. task'[a] = l
      BY <1>0, <2>2 DEF Acquire
    <2>. QED BY <2>1, <2>2, <2>3
  <1>9. CASE NextTransitioning(a)
    <2>1. /\ task'[a].pc = "next_call" /\ task'[a].media = task[a].media
          /\ task[a].pc = "next_trans"
      BY <1>6, <1>9, StartsAt DEF NextTransitioning
    <2>2. r'.uri = r.uri /\ r'.transport = "TRANSITIONING"
      BY <1>9 DEF NextTransitioning, TypeOK, RendererType
    <2>. QED BY <1>1, <2>1, <2>2
  <1>10. CASE NextCalled(a)
    <2>1. /\ task'[a].media = task[a].media /\ task[a].pc = "next_call" /\ r' = r
          /\ \/ task'[a].pc = "next_ok" /\ spk' = Speaking(task[a].media)
             \/ task'[a].pc = "next_fail"
      BY <1>6, <1>10, StartsAt DEF NextCalled
    <2>. QED BY <1>1, <2>1, SpeakerFields
  <1>11. CASE NextSucceeds(a)
    <2>1. task[a].pc = "next_ok" /\ r'.uri = r.uri
          /\ spk'.media = spk.media /\ spk'.mode = spk.mode
      BY <1>11, StartsAt, SpeakerFields DEF NextSucceeds, TypeOK, RendererType
    <2>2. task'[a] = Idle
      BY <1>0, <1>11, Kinds DEF NextSucceeds, Suspend, Spawned, Cancelled, Done
    <2>. QED BY <1>1, <1>i, <2>1, <2>2
  <1>12. CASE NextFails(a) \/ EndOfTrack(a)
    <2>1. r'.transport = "STOPPED"
      BY <1>12 DEF NextFails, EndOfTrack, TypeOK, RendererType
    <2>2. \E ts, lk : Suspend(a, Idle, ts, lk) /\ ts \in [Tasks -> Locals]
      BY <1>0, <1>12, CancelledType DEF NextFails, EndOfTrack, Finish, FinishAndCancelCheck
    <2>3. task'[a] = Idle
      BY <1>0, <2>2 DEF Suspend
    <2>. QED BY <1>i, <2>1, <2>3
  <1>13. CASE NextMark(a)
    <2>1. task'[a].pc = "next_wait" /\ task[a].pc = "next_mark"
      BY <1>6, <1>13, StartsAt DEF NextMark
    <2>2. r'.uri = r.uri /\ r'.transport = "TRANSITIONING"
      BY <1>13 DEF NextMark, TypeOK, RendererType
    <2>. QED BY <1>1, <2>1, <2>2
  <1>14. CASE NextGivesUp(a) \/ EndStopped(a) \/ EndSlept(a)
    <2>1. /\ task[a].pc \in {"next_wait", "end_stop", "end_sleep"}
          /\ task'[a].pc \in {"end_stop", "end_sleep", "end_lock"} /\ r' = r
      BY <1>6, <1>14, StartsAt DEF NextGivesUp, EndStopped, EndSlept
    <2>. QED BY <1>1, <2>1
  <1>15. CASE NextRaises(a)
    <2>1. task'[a] = Idle /\ spk'.raised
      BY <1>0, <1>15, StepRaises DEF NextRaises, Suspend
    <2>. QED BY <1>i, <2>1
  <1>. QED BY <1>0, <1>5, <1>7, <1>8, <1>9, <1>10, <1>11, <1>12, <1>13, <1>14, <1>15,
       StepFrom
       DEF AutoPcs, SwitchPcs, NoNextPcs, Steps

\* The monitor leaves the speaker alone, and acts on a media only.
LEMMA CheckTrack ==
  ASSUME Solo, BaseInv, SoloInv, TrackInv, NEW c \in Checks, Step(c)
  PROVE  TrackInv'
  <1>. USE DEF BaseInv, IInv
  <1>0. /\ c \in Tasks /\ DurInv' /\ NobodyGoesBack'
        /\ task[c].pc \in {"chk_sleep", "chk_lock"}
    BY StepGoes, StepTrackFrame, Kinds DEF MonitorPcs, Steps
  <1>1. spk' = spk
    BY <1>0, StepFrom DEF CheckWakes, CheckEnds, CheckAgain, CheckSpawnsNext
  <1>2. CASE Alone(c) /\ r' = r
    <2>1. /\ \A h \in Handlers : task'[h] = task[h]
          /\ \A a \in Autos : task'[a] = task[a]
      BY <1>2, Kinds DEF Alone
    <2>. QED BY <1>0, <1>1, <1>2, <2>1
         DEF TrackInv, OnSpeaker, Unsettled, AutoTrack, Plays
  <1>3. CASE \E a \in Autos :
              /\ task[a].pc = "idle" /\ r' = [r EXCEPT !.auto = a]
              /\ task'[a].pc = "auto_start" /\ task'[c] = Idle
              /\ \A y \in Tasks \ {a, c} : task'[y] = task[y]
    <2>1. PICK a \in Autos :
              /\ task[a].pc = "idle" /\ r' = [r EXCEPT !.auto = a]
              /\ task'[a].pc = "auto_start" /\ task'[c] = Idle
              /\ \A y \in Tasks \ {a, c} : task'[y] = task[y]
      BY <1>3
    <2>2. r'.uri = r.uri /\ r'.transport = r.transport
      BY <2>1 DEF TypeOK, RendererType
    <2>3. /\ \A h \in Handlers : task'[h] = task[h]
          /\ \A x \in Autos \ {a} : task'[x] = task[x]
      BY <2>1, Kinds
    <2>4. r.uri # NoUri
      <3>1. r.dur
        <4>1. CheckSpawnsNext(c)
          <5>1. task'[a] # task[a]
            BY <2>1
          <5>2. a # c /\ a \in Tasks /\ task \in [Tasks -> Locals]
            BY Kinds DEF TypeOK
          <5>3. ASSUME CheckWakes(c) \/ CheckEnds(c) \/ CheckAgain(c) PROVE task'[a] = task[a]
            BY <5>2, <5>3 DEF CheckWakes, CheckEnds, CheckAgain, Finish, Suspend, Acquire
          <5>. QED BY <1>0, <5>1, <5>3, StepFrom
        <4>. QED BY <4>1 DEF CheckSpawnsNext
      <3>. QED BY <3>1 DEF TrackInv, DurInv
    <2>5. OnSpeaker'
      BY <1>1, <2>1, <2>2, <2>3 DEF TrackInv, OnSpeaker, Unsettled, Plays
    <2>6. \A x \in Autos : AutoTrack(x)'
      BY <1>1, <2>1, <2>2, <2>3, <2>4
      DEF TrackInv, AutoTrack, Plays, SwitchedPcs, LatePcs
    <2>. QED BY <1>0, <2>5, <2>6 DEF TrackInv
  <1>. QED BY <1>0, <1>2, <1>3, CheckGoes

\* A command that arrives leaves the state to settle.
LEMMA CommandTrack ==
  ASSUME Solo, "Previous" \notin Commands, BaseInv, SoloInv, TrackInv,
         NEW t \in Handlers, Command(t) \/ IdleReset(t) \/ AutomaticPlay(t)
  PROVE  TrackInv'
  <1>. USE DEF BaseInv, IInv
  <1>1. PICK pc \in {"set_uri", "play", "pause", "stop", "reset"} : EntersCancelling(t, pc)
    BY CommandEnters DEF Solo
  <1>2. /\ Enters(t, pc) /\ t \in Tasks /\ MayRun(t) /\ task[t].pc = "idle"
        /\ task'[t].pc = pc /\ \A h \in Handlers : h = t
    BY <1>1, Kinds DEF EntersCancelling, Enters, Solo
  <1>3. r'.uri = r.uri /\ r'.transport = r.transport /\ r'.dur = r.dur
    BY <1>2, CommandLeavesFields
  <1>4. spk' \in {spk, Landed(r.auto)}
    BY DEF Command, IdleReset, AutomaticPlay, SetUri, Play, Pause, Stop, Reset, Seek,
       Next_, Previous, CancelAutoNextAndAcquire, Solo
  <1>5. \A a \in Autos : task'[a].pc = "idle"
    BY <1>1, Kinds DEF EntersCancelling, SoloInv, AutoNextIsKnown, Idle
  <1>6. DurInv' /\ NobodyGoesBack'
    <2>1. \A y \in Tasks : task'[y].pc \in {task[y].pc, "idle", pc}
      BY <1>2 DEF Enters, Idle
    <2>. QED BY <1>3, <2>1, Kinds DEF TrackInv, DurInv, NobodyGoesBack, SeekPcs
  <1>7. \A a \in Autos : AutoTrack(a)'
    BY <1>5 DEF AutoTrack, SwitchedPcs, LatePcs
  <1>8. OnSpeaker'
    <2>1. CASE pc # "play" \/ r.uri # NoUri
      BY <1>2, <1>3, <2>1 DEF OnSpeaker, Unsettled
    <2>2. CASE pc = "play" /\ r.uri = NoUri /\ r.transport = "PLAYING"
      <3>1. \A a \in Autos : task[a].pc \in SwitchedPcs \cup {"idle"}
        BY <2>2 DEF TrackInv, AutoTrack
      <3>2. \A a \in Autos : task[a].pc = "idle"
        <4>1. ASSUME NEW a \in Autos, task[a].pc \in SwitchedPcs PROVE FALSE
          <5>1. task[a].pc = "next_trans"
            BY <2>2, <4>1 DEF TrackInv, AutoTrack, SwitchedPcs, LatePcs
          <5>2. a \in Checks
            BY <1>2, <5>1, OthersDoNotWait, Kinds DEF WaitPcs, QueuePcs, HeldPcs
          <5>. QED BY <5>2, Kinds
        <4>. QED BY <3>1, <4>1
      <3>3. ~Unsettled
        BY <1>2, <3>2 DEF Unsettled
      <3>4. Landed(r.auto) = spk
        BY <3>2, Kinds DEF Landed, TypeOK, RendererType
      <3>. QED BY <1>3, <1>4, <3>3, <3>4 DEF TrackInv, OnSpeaker, Plays
    <2>. QED BY <1>3, <2>1, <2>2 DEF OnSpeaker
  <1>. QED BY <1>6, <1>7, <1>8 DEF TrackInv

\* The step of the induction.
LEMMA NextTracks ==
  ASSUME Solo, "Previous" \notin Commands, BaseInv, SoloInv, TrackInv,
         [Next]_vars
  PROVE  TrackInv'
  <1>1. ASSUME NEW t \in Tasks, Step(t) PROVE TrackInv'
    BY <1>1, Kinds, BusyTrack, AutoTracks, CheckTrack
  <1>2. ASSUME NEW t \in Handlers, Command(t) \/ IdleReset(t) \/ AutomaticPlay(t)
        PROVE  TrackInv'
    BY <1>2, CommandTrack
  <1>3. ASSUME NEW u, SetNext(u) PROVE TrackInv'
    BY <1>3, SetNextLeavesFields
    DEF BaseInv, IInv, SetNext, TrackInv, DurInv, NobodyGoesBack, OnSpeaker, Unsettled, AutoTrack, Plays
  <1>4. CASE UNCHANGED vars
    BY <1>4
    DEF vars, TrackInv, DurInv, NobodyGoesBack, OnSpeaker, Unsettled, AutoTrack, Plays
  <1>. QED BY <1>1, <1>2, <1>3, <1>4 DEF Next, SoapStep, AppStep, RunTask, Handlers

\* At rest, PLAYING means that the speaker was told to play the selected media,
\* unless a call of it has raised since the last one that succeeded: with one
\* handler, without Seek, Next and Previous (renderer.py:128-219, 390-446).
THEOREM PlayingAlwaysOnSpeaker ==
  ASSUME Solo, "Previous" \notin Commands
  PROVE  Spec => []PlayingIsOnSpeaker
  <1>1. Init => TrackInv
    BY Kinds DEF Init, TrackInv, DurInv, NobodyGoesBack, OnSpeaker, AutoTrack, Idle,
       SeekPcs, SwitchedPcs, LatePcs
  <1>2. BaseInv /\ SoloInv /\ [Next]_vars => SoloInv'
    BY NextSolo
  <1>3. BaseInv /\ SoloInv /\ TrackInv /\ [Next]_vars => TrackInv'
    BY NextTracks
  <1>4. TrackInv => PlayingIsOnSpeaker
    BY DEF TrackInv, OnSpeaker, Plays, Unsettled, PlayingIsOnSpeaker, Quiet, Handlers
  <1>. QED BY <1>1, <1>2, <1>3, <1>4, InitSolo, InitBase, NextBase, PTL DEF Spec

-----------------------------------------------------------------------------
(* The synchronisation.                                                    *)

\* The renderer's part of a step of the synchronisation.
PollMove ==
  /\ r.transport # "TRANSITIONING"
  /\ r'.transport \in Readings /\ r'.uri = r.uri /\ r'.next = r.next
  /\ r' \in RendererType /\ loop' = loop
  /\ \/ UNCHANGED <<task, lock, spk>>
     \/ /\ task' = Cancelled(resumer) /\ lock' = Leave(lock, resumer)
        /\ spk' \in {spk, Landed(resumer)}

\* The fields that reset_to_idle(), a timer or the speaker touch.
Aside ==
  /\ r' \in {[r EXCEPT !.stuck = FALSE], [r EXCEPT !.grace = FALSE], r}
  /\ UNCHANGED <<task, lock, loop>>
  /\ spk' \in SpeakerType

\* Every step of the synchronisation is one of the renderer, the answer of a
\* poll that is applied, or aside.
LEMMA SyncStep ==
  ASSUME Deployed, SyncTypeOK, SyncNext
  PROVE  \/ Next
         \/ PollMove /\ poll'.pc = "idle"
         \/ Aside
  <1>. USE DEF SyncTypeOK
  <1>1. CASE (SoapStep \/ RunTask)
    BY <1>1 DEF Next
  <1>2. CASE PollResetsIdle
    BY <1>2 DEF PollResetsIdle, Next, AppStep, Deployed
  <1>3. ASSUME NEW x \in Resumers, ResumePlays(x) PROVE Next
    BY <1>3 DEF ResumePlays, Next, AppStep, Deployed
  <1>4. ASSUME NEW x \in Resumers, ResumeEnds(x) PROVE Aside
    BY <1>4 DEF ResumeEnds, Aside, vars, TypeOK
  <1>5. CASE PollAfterReset \/ PollAsks \/ PollFails \/ PollIgnores
    BY <1>5 DEF PollAfterReset, PollAsks, PollFails, PollIgnores, Aside, vars, TypeOK
  <1>6. CASE GraceExpires
    BY <1>6 DEF GraceExpires, Aside, TypeOK
  <1>7. CASE SpeakerChanges
    BY <1>7 DEF SpeakerChanges, Aside, TypeOK, SpeakerType
  <1>8. CASE PollApplies
    <2>1. poll.reading \in Readings /\ ~Ignored(poll.reading) /\ loop' = loop
          /\ poll' = NotPolling
      BY <1>8 DEF PollApplies
    <2>2. r.transport # "TRANSITIONING"
      BY <2>1 DEF Ignored
    <2>3. /\ r'.transport \in Readings /\ r'.uri = r.uri /\ r'.next = r.next
          /\ r' \in RendererType
      <3>1. CASE HoldPosition
        BY <3>1 DEF HoldPosition, TypeOK, RendererType, Readings, States
      <3>2. CASE Adopt(poll.reading)
        <4>. DEFINE new == poll.reading
                    rr  == [r EXCEPT !.transport = new]
        <4>1. /\ rr \in RendererType /\ rr.transport \in Readings
              /\ rr.uri = r.uri /\ rr.next = r.next
          BY <2>1 DEF TypeOK, RendererType, Readings, States
        <4>2. r' \in {rr, [rr EXCEPT !.acc = @ \/ r.start, !.start = FALSE],
                     [rr EXCEPT !.acc = @ \/ r.stuck, !.stuck = FALSE, !.start = TRUE],
                     [rr EXCEPT !.acc = FALSE, !.start = FALSE]}
          BY <3>2 DEF Adopt
        <4>3. r.start \in BOOLEAN /\ r.stuck \in BOOLEAN
          BY DEF TypeOK, RendererType
        <4>. DEFINE Goal(q) == /\ q.transport \in Readings /\ q.uri = r.uri
                               /\ q.next = r.next /\ q \in RendererType
        <4>. HIDE DEF rr
        <4>4. Goal(rr)
          BY <4>1
        <4>5. Goal([rr EXCEPT !.acc = @ \/ r.start, !.start = FALSE])
          BY <4>1, <4>3 DEF RendererType
        <4>6. Goal([rr EXCEPT !.acc = @ \/ r.stuck, !.stuck = FALSE, !.start = TRUE])
          BY <4>1, <4>3 DEF RendererType
        <4>7. Goal([rr EXCEPT !.acc = FALSE, !.start = FALSE])
          BY <4>1 DEF RendererType
        <4>. HIDE DEF Goal
        <4>8. Goal(r')
          BY <4>2, <4>4, <4>5, <4>6, <4>7
        <4>. QED BY <4>8 DEF Goal
      <3>. QED BY <1>8, <3>1, <3>2 DEF PollApplies, Synchronise
    <2>4. \/ UNCHANGED <<task, lock, spk>>
          \/ /\ task' = Cancelled(resumer) /\ lock' = Leave(lock, resumer)
             /\ spk' \in {spk, Landed(resumer)}
      BY <1>8 DEF PollApplies, Synchronise, HoldPosition, NoResume, StartResume
    <2>. QED BY <2>1, <2>2, <2>3, <2>4 DEF PollMove, NotPolling
  <1>. QED BY <1>1, <1>2, <1>3, <1>4, <1>5, <1>6, <1>7, <1>8 DEF SyncNext, Poll

\* What else moves.
LEMMA SyncVarsType ==
  ASSUME Deployed, SyncTypeOK, SyncNext
  PROVE  /\ poll' \in [pc : {"idle", "status", "resetting"}, reading : Readings]
         /\ resume' \in [Resumers -> {"idle", "delay", "play"}]
         /\ resumer' \in Resumers \cup {NoTask}
  <1>. USE DEF SyncTypeOK
  <1>1. CASE (SoapStep \/ RunTask) /\ UNCHANGED syncVars
    BY <1>1 DEF syncVars
  <1>2. CASE PollResetsIdle \/ PollAfterReset \/ PollAsks \/ PollFails \/ PollIgnores
    BY <1>2 DEF PollResetsIdle, PollAfterReset, PollAsks, PollFails, PollIgnores,
                NotPolling, Readable, Readings
  <1>3. CASE PollApplies
    <2>1. poll' = NotPolling /\ (NoResume \/ StartResume)
      BY <1>3 DEF PollApplies, Synchronise, HoldPosition
    <2>2. CASE NoResume
      BY <2>1, <2>2 DEF NoResume, NotPolling, Readings
    <2>3. CASE StartResume
      BY <2>1, <2>3 DEF StartResume, NotPolling, Readings
    <2>. QED BY <2>1, <2>2, <2>3
  <1>4. ASSUME NEW x \in Resumers, ResumePlays(x) \/ ResumeEnds(x)
        PROVE  /\ UNCHANGED poll
               /\ resume' \in [Resumers -> {"idle", "delay", "play"}]
               /\ resumer' \in Resumers \cup {NoTask}
    BY <1>4 DEF ResumePlays, ResumeEnds
  <1>5. CASE GraceExpires \/ SpeakerChanges
    BY <1>5 DEF GraceExpires, SpeakerChanges, syncVars
  <1>. QED BY <1>1, <1>2, <1>3, <1>4, <1>5 DEF SyncNext, Poll

\* The type invariant with the lock discipline, for the composition.
SyncInv == SyncTypeOK /\ IInv

\* The answer of a poll is not applied while the renderer is TRANSITIONING, and
\* cancelling a resume task, inside play() too, leaves the lock to its queue.
LEMMA SyncKeeps ==
  ASSUME Deployed, SyncInv, [SyncNext]_allVars
  PROVE  SyncInv'
  <1>. USE DEF SyncInv, SyncTypeOK, IInv
  <1>1. CASE UNCHANGED allVars
    BY <1>1 DEF allVars, vars, syncVars, TypeOK, LockInv, MonitorPcs, TransitioningHeld
  <1>2. CASE SyncNext
    <2>1. /\ poll' \in [pc : {"idle", "status", "resetting"}, reading : Readings]
          /\ resume' \in [Resumers -> {"idle", "delay", "play"}]
          /\ resumer' \in Resumers \cup {NoTask}
      BY <1>2, SyncVarsType
    <2>2. CASE Next
      BY <2>1, <2>2, NextKeeps
    <2>3. CASE Aside
      <3>1. TypeOK'
        <4>1. r' \in RendererType
          <5>1. r \in RendererType
            BY DEF TypeOK
          <5>2. [r EXCEPT !.stuck = FALSE] \in RendererType
            BY <5>1 DEF RendererType
          <5>3. [r EXCEPT !.grace = FALSE] \in RendererType
            BY <5>1 DEF RendererType
          <5>. QED BY <2>3, <5>1, <5>2, <5>3 DEF Aside
        <4>. QED BY <2>3, <4>1 DEF Aside, TypeOK
      <3>2. r'.transport = r.transport
        BY <2>3 DEF Aside, TypeOK, RendererType
      <3>. QED BY <2>1, <2>3, <3>1, <3>2 DEF Aside, LockInv, MonitorPcs, TransitioningHeld
    <2>4. CASE PollMove
      <3>1. Base(Cancelled(resumer), Leave(lock, resumer))
        BY BaseCancelled
      <3>2. /\ task' \in [Tasks -> Locals] /\ Consistent(task', lock')
            /\ \A y \in Tasks : task'[y] = task[y] \/ task'[y].pc \notin QueuePcs
            /\ \A c \in Checks : task'[c].pc \in CheckPcs
        BY <2>4, <3>1, BaseTask DEF PollMove, Base
      <3>3. spk' \in SpeakerType
        BY <2>4, SpeakerTypes DEF PollMove, TypeOK
      <3>4. TypeOK'
        BY <2>4, <3>2, <3>3 DEF PollMove, TypeOK, Consistent, Queue
      <3>5. LockInv' /\ MonitorPcs'
        BY <3>2 DEF LockInv, MonitorPcs, CheckPcs
      <3>6. TransitioningHeld'
        <4>1. ASSUME NEW y \in Tasks, task'[y].pc \in TransPcs PROVE FALSE
          <5>1. task[y].pc \in TransPcs
            BY <3>2, <4>1 DEF TransPcs, QueuePcs
          <5>. QED BY <2>4, <5>1 DEF PollMove, TransitioningHeld, TransPcs
        <4>. QED BY <4>1 DEF TransitioningHeld, TransPcs
      <3>. QED BY <2>1, <3>4, <3>5, <3>6
    <2>. QED BY <1>2, <2>2, <2>3, <2>4, SyncStep
  <1>. QED BY <1>1, <1>2

\* The invariant holds at first.
LEMMA InitSync == SyncInit => SyncInv
  BY InitIInv DEF SyncInit, SyncInv, SyncTypeOK, IInv, NotPolling, Readings

\* The poll and the resume tasks write the fields of the renderer without its
\* lock, and leave every variable in its type (app.py:431-569).
THEOREM SyncTypeCorrect ==
  ASSUME Deployed PROVE SyncSpec => []SyncTypeOK
  <1>1. SyncInv => SyncTypeOK
    BY DEF SyncInv
  <1>. QED BY <1>1, InitSync, SyncKeeps, PTL DEF SyncSpec

\* Beside the poll and the resume tasks the lock discipline holds on, and the
\* TRANSITIONING state announced by play() and seek() is theirs until they
\* return (app.py:431-569).
THEOREM SyncKeepsLock ==
  ASSUME Deployed PROVE SyncSpec => [](LockInv /\ TransitioningHeld)
  <1>1. SyncInv => LockInv /\ TransitioningHeld
    BY DEF SyncInv, IInv
  <1>. QED BY <1>1, InitSync, SyncKeeps, PTL DEF SyncSpec

-----------------------------------------------------------------------------
\* The step of the induction.
LEMMA NextResumeKnown ==
  ASSUME SyncTypeOK, ResumeIsKnown, [SyncNext]_allVars
  PROVE  ResumeIsKnown'
  <1>. USE DEF SyncTypeOK, ResumeIsKnown
  <1>1. CASE UNCHANGED <<resume, resumer>>
    BY <1>1
  <1>2. CASE PollApplies
    <2>1. NoResume \/ StartResume
      BY <1>2 DEF PollApplies, Synchronise, HoldPosition
    <2>. QED BY <1>1, <2>1 DEF NoResume, StartResume
  <1>3. ASSUME NEW x \in Resumers, ResumePlays(x) \/ ResumeEnds(x) PROVE ResumeIsKnown'
    BY <1>3 DEF ResumePlays, ResumeEnds
  <1>4. CASE (SoapStep \/ RunTask) /\ UNCHANGED syncVars
    BY <1>1, <1>4 DEF syncVars
  <1>5. CASE PollResetsIdle \/ PollAfterReset \/ PollAsks \/ PollFails \/ PollIgnores
    BY <1>1, <1>5 DEF PollResetsIdle, PollAfterReset, PollAsks, PollFails, PollIgnores
  <1>6. CASE GraceExpires \/ SpeakerChanges
    BY <1>1, <1>6 DEF GraceExpires, SpeakerChanges, syncVars
  <1>7. CASE UNCHANGED allVars
    BY <1>1, <1>7 DEF allVars, syncVars
  <1>. QED BY <1>2, <1>3, <1>4, <1>5, <1>6, <1>7 DEF SyncNext, Poll

\* A resume task that waits or plays is the recorded one, for any number of
\* interruptions (app.py:537-542, 564-565).
THEOREM ResumeAlwaysKnown ==
  ASSUME Deployed PROVE SyncSpec => []ResumeIsKnown
  <1>1. SyncInit => ResumeIsKnown
    BY DEF SyncInit, ResumeIsKnown
  <1>2. SyncInv => SyncTypeOK
    BY DEF SyncInv
  <1>. QED BY <1>1, <1>2, InitSync, SyncKeeps, NextResumeKnown, PTL DEF SyncSpec

=============================================================================
