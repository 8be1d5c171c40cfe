----------------------------- MODULE MCRilUnsol -----------------------------
(***************************************************************************)
(* Instances of RilUnsol for TLC.  Every message takes the same path but   *)
(* for its kind, so each run has the kinds its properties tell apart.      *)
(***************************************************************************)
EXTENDS RilUnsol, TLC

RaceKinds == {"nitz", "radio"}
LockKinds == {"wake", "quiet"}
NitzKinds == {"nitz"}

\* A bound: three messages and connections in all.
ThreeInAll == msgLeft + connLeft >= 1

\* Vendor threads are interchangeable, and so are addresses.
Symmetry == Permutations(Vendors) \cup Permutations(Addrs)
=============================================================================
