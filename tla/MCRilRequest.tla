---------------------------- MODULE MCRilRequest ----------------------------
(***************************************************************************)
(* RilRequest with what TLC needs: addresses and vendor threads are        *)
(* interchangeable.                                                        *)
(***************************************************************************)
EXTENDS RilRequest, TLC

Symmetry == Permutations(Addrs) \cup Permutations(Vendors)

\* Bound: all requests but one are the vendor library's to answer.
OneOdd == Cardinality({r \in Reqs : kind[r] # "forward"}) <= 1

\* Bound: four in all of connections, requests of the phone, requests of another kind
\* than "forward" (once more) and connections to the debug socket (which count as two).
\* These are steps that nobody has to take.
FourInAll ==
    Cardinality({c \in Conns : client[c] # "new"})
        + Cardinality({r \in Reqs : from[r] \in Conns})
        + Cardinality({r \in Reqs : kind[r] # "forward"}) + 2 * (MaxDebug - dbgLeft) <= 4
=============================================================================
