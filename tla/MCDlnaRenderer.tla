--------------------------- MODULE MCDlnaRenderer ---------------------------
(* DlnaRenderer on small instances. *)
EXTENDS DlnaRenderer, TLC

Symmetry == Permutations(Soap) \cup Permutations(Checks) \cup Permutations(Autos)
            \cup Permutations(Background)

\* raised is history: no guard reads it, nor do the invariants of the run that
\* takes this view.
WithoutHistory == <<r, task, lock, loop, spk.media, spk.mode>>

=============================================================================
