---------------------------- MODULE PlaySessions ----------------------------
(***************************************************************************)
(* What the AirPlay server promises to the bridge that plays its sessions  *)
(* on the speaker: sessions come one after the other; on_play_start comes  *)
(* once at most in each, with the URL of that session, after RECORD and    *)
(* before on_play_stop; on_play_stop ends each that ends.  AirplaySession  *)
(* is shown to keep it, AirplaySpeaker is built on it.                     *)
(***************************************************************************)
EXTENDS Naturals

CONSTANT MaxSid  \* bound: sessions

ASSUME MaxSidAssumption == MaxSid \in Nat

VARIABLES
  cur,   \* the sessions that have begun: the last one is number cur
  phase  \* "none", "begun" or "heard" (on_play_start has been called)

sessions == <<cur, phase>>

SessionsInit == cur = 0 /\ phase = "none"

Begin == phase = "none" /\ cur < MaxSid /\ cur' = cur + 1 /\ phase' = "begun"

Hear == phase = "begun" /\ phase' = "heard" /\ UNCHANGED cur

Finish == phase # "none" /\ phase' = "none" /\ UNCHANGED cur

SessionsNext == Begin \/ Hear \/ Finish

SessionsSpec == SessionsInit /\ [][SessionsNext]_sessions
=============================================================================
