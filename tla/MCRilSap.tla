------------------------------ MODULE MCRilSap ------------------------------
(***************************************************************************)
(* RilSap alone, for a client that numbers its requests from 1 on in every *)
(* connection.                                                             *)
(***************************************************************************)
EXTENDS RilSap, TLC

SapSpec == SapInit /\ [][SapNext]_sapVars

SapSymmetry == Permutations(SapFds) \union Permutations(SapVendors)
=============================================================================
