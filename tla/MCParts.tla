------------------------------ MODULE MCParts -------------------------------
(***************************************************************************)
(* The parts of the device that share no state with the radio daemon's     *)
(* event loop, checked side by side: in each behaviour one of them moves   *)
(* and the others stay as they began.                                      *)
(***************************************************************************)
EXTENDS RefBase, RilSap, VectorImpl, SortedVector, PmemHeap, Lights, BootSelect, TLC

VARIABLE part

RestOf(name) ==
    /\ part = name /\ UNCHANGED part
    /\ name # "references" => UNCHANGED refVars
    /\ name # "sap" => UNCHANGED sapVars
    /\ name # "vectors" => UNCHANGED vecVars
    /\ name # "sorted" => UNCHANGED sortVars
    /\ name # "pmem" => UNCHANGED pmemVars
    /\ name # "lights" => UNCHANGED lightVars
    /\ name # "boot" => UNCHANGED bootVars

\* A part that stays as it began begins in one way.
PartsInit ==
    /\ part \in {"references", "sap", "vectors", "sorted", "pmem", "lights", "boot"}
    /\ RefInit /\ (part = "references" \/ mFlags = "STRONG")
    /\ SapInit
    /\ VecInit /\ (part = "vectors" \/ trivial)
    /\ SortInit
    /\ PmemInit /\ (part = "pmem" \/ heapOpen)
    /\ LightsInit
    /\ BootInit /\ (part = "boot" \/ warmboot = "none")

PartsNext ==
    \/ RestOf("references") /\ RefNext
    \/ RestOf("sap") /\ SapNext
    \/ RestOf("vectors") /\ VecNext
    \/ RestOf("sorted") /\ SortNext
    \/ RestOf("pmem") /\ PmemNext
    \/ RestOf("lights") /\ LightsNext
    \/ RestOf("boot") /\ BootNext

PartsSpec == PartsInit /\ [][PartsNext]_<<part, refVars, sapVars, vecVars, sortVars,
                                          pmemVars, lightVars, bootVars>>

\* Descriptors, vectors and callers are interchangeable, and so are vendor threads and
\* items; the instance has one set of values for the former and one for the latter, as only
\* one part moves.
PartsSymmetry == Permutations(SapFds) \union Permutations(SapVendors)

MCColor(r, g, b) == [alpha |-> 255, red |-> r, green |-> g, blue |-> b]

\* Dark, steady, flashing, and flashing for a millisecond, which means steady.
MCLightStates ==
    {[color |-> MCColor(0, 0, 0), flashMode |-> "NONE", flashOnMS |-> 0, flashOffMS |-> 0],
     [color |-> MCColor(255, 0, 0), flashMode |-> "NONE", flashOnMS |-> 0, flashOffMS |-> 0],
     [color |-> MCColor(0, 0, 9), flashMode |-> "TIMED", flashOnMS |-> 500, flashOffMS |-> 100],
     [color |-> MCColor(0, 1, 0), flashMode |-> "HARDWARE", flashOnMS |-> 1, flashOffMS |-> 100]}

\* The exponent 2.2 rounded.
MCGamma(b) == (b * b) \div 255
=============================================================================
