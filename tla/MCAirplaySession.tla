-------------------------- MODULE MCAirplaySession --------------------------
(* Model values of the instance of AirplaySession. *)
EXTENDS AirplaySession

CONSTANTS c1, c2, r1
=============================================================================
