----------------------------- MODULE MCEventing -----------------------------
(* Model values of the instance of Eventing. *)
EXTENDS Eventing

CONSTANTS s1, s2, k1, k2
=============================================================================
