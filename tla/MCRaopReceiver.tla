--------------------------- MODULE MCRaopReceiver ---------------------------
(* RaopReceiver on small instances. *)
EXTENDS RaopReceiver

=============================================================================
