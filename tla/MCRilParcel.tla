---------------------------- MODULE MCRilParcel ----------------------------
(***************************************************************************)
(* Constants for model checking the dispatch and response functions.       *)
(***************************************************************************)
EXTENDS RilDispatch

MCVersions == {2, 3, 4, 6, 7, 8}
=============================================================================
