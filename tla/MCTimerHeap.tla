---------------------------- MODULE MCTimerHeap -----------------------------
(* TimerHeap with interchangeable entries, for TLC.                        *)
EXTENDS TimerHeap, TLC

Symmetry == Permutations(Entries)

=============================================================================
