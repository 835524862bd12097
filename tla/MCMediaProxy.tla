---------------------------- MODULE MCMediaProxy ----------------------------
(* MediaProxy on small instances. *)
EXTENDS MediaProxy, TLC

Symmetry == Permutations(Tokens) \cup Permutations(Requests)
            \cup Permutations(Urls) \cup Permutations(Buffers)

=============================================================================
