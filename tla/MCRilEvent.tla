----------------------------- MODULE MCRilEvent -----------------------------
(***************************************************************************)
(* Small instances of RilEvent.                                            *)
(***************************************************************************)
EXTENDS RilEvent, TLC

Symmetry == Permutations(TimerEvents) \cup Permutations(Threads)
=============================================================================
