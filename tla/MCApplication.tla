--------------------------- MODULE MCApplication ---------------------------
(* Model values of the instance of Application. *)
EXTENDS Application

CONSTANTS h1, h2
=============================================================================
