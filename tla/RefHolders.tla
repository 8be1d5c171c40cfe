----------------------------- MODULE RefHolders -----------------------------
(***************************************************************************)
(* What the reference counts of libshims promise to the holders of sp<>    *)
(* and wp<>: an object lives as long as it is held, it is destroyed once,  *)
(* and its control block (weakref_impl) is freed once, after everything    *)
(* else.  RefBase implements this with two counters that threads change    *)
(* one atomic operation at a time.                                         *)
(***************************************************************************)
CONSTANTS Handles, Lifetimes

VARIABLES
    lifetime,   \* "STRONG": dies with the last sp<>; "WEAK": with the last wp<>
    object,     \* the object: "live", "dead", or "twice" when destroyed again
    block,      \* the control block, in the same way
    strongs,    \* the handles that hold the object
    weaks       \* the handles that hold the block, those of strongs included

holderVars == <<lifetime, object, block, strongs, weaks>>

Init ==
    /\ lifetime \in Lifetimes
    /\ object = "live" /\ block = "live"
    /\ strongs = {} /\ weaks = {}

TakeWeak(h) ==
    /\ block = "live" /\ h \notin weaks
    /\ weaks' = weaks \union {h}
    /\ UNCHANGED <<lifetime, object, block, strongs>>

\* A dead object is never taken.
TakeStrong(h) ==
    /\ object = "live" /\ h \in weaks \ strongs
    /\ strongs' = strongs \union {h}
    /\ UNCHANGED <<lifetime, object, block, weaks>>

DropStrong(h) ==
    /\ h \in strongs
    /\ strongs' = strongs \ {h}
    /\ UNCHANGED <<lifetime, object, block, weaks>>

DropWeak(h) ==
    /\ h \in weaks \ strongs
    /\ weaks' = weaks \ {h}
    /\ UNCHANGED <<lifetime, object, block, strongs>>

\* The object goes first when only its strong references count.
Destroy ==
    /\ object = "live" /\ lifetime = "STRONG" /\ strongs = {}
    /\ object' = "dead"
    /\ UNCHANGED <<lifetime, block, strongs, weaks>>

Free ==
    /\ object = "dead" /\ block = "live" /\ weaks = {}
    /\ block' = "dead"
    /\ UNCHANGED <<lifetime, object, strongs, weaks>>

DestroyAndFree ==
    /\ object = "live" /\ block = "live" /\ weaks = {}
    /\ object' = "dead" /\ block' = "dead"
    /\ UNCHANGED <<lifetime, strongs, weaks>>

Next ==
    \/ \E h \in Handles : TakeWeak(h) \/ TakeStrong(h) \/ DropStrong(h) \/ DropWeak(h)
    \/ Destroy \/ Free \/ DestroyAndFree

Spec == Init /\ [][Next]_holderVars
=============================================================================
