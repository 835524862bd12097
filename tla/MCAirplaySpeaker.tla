-------------------------- MODULE MCAirplaySpeaker --------------------------
(* AirplaySpeaker over two sessions. *)
EXTENDS AirplaySpeaker

=============================================================================
