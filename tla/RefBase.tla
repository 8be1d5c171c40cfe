------------------------------ MODULE RefBase -------------------------------
(***************************************************************************)
(* The reference counts of libshims (RefBase.cpp, RefBase.h): one object,  *)
(* its control block weakref_impl with the counters mStrong and mWeak, and *)
(* the handles, the sp<> and wp<> that threads make, promote and clear.    *)
(* A handle is worked on by one thread at a time, so each handle is a      *)
(* process; a step is one atomic operation on a counter, or one            *)
(* destructor.                                                             *)
(*                                                                         *)
(* The counters are changed by android_atomic_inc, _dec, _add and by loops *)
(* around android_atomic_cmpxchg.  A failed exchange changes nothing and   *)
(* reads again, so a loop is one step at its last read or exchange.        *)
(***************************************************************************)
EXTENDS Integers, FiniteSets

CONSTANTS
    Handles,
    INITIAL_STRONG_VALUE,
    FirstRefShared  \* whether a first strong reference may be made while other handles exist

Raw == "raw"    \* the pointer that new returned

ASSUME RefAssumption ==
    /\ IsFiniteSet(Handles) /\ Raw \notin Handles
    /\ INITIAL_STRONG_VALUE \in Nat /\ INITIAL_STRONG_VALUE > Cardinality(Handles)
    /\ FirstRefShared \in BOOLEAN

Lifetimes == {"STRONG", "WEAK"}

VARIABLES
    mStrong, mWeak, mFlags,
    object,     \* "live", "dead", or "twice" when its destructor ran again
    refs,       \* the weakref_impl, in the same way
    raw,        \* whether the raw pointer of the creator is still in use
    at,         \* where each handle is: Holding, or inside a call
    src         \* the handle, or Raw, that a call in progress works from

refVars == <<mStrong, mWeak, mFlags, object, refs, raw, at, src>>

\* Inside incStrong and forceIncStrong after incWeak, inside attemptIncStrong.
Taking == {"incStrong", "forceIncStrong", "attempt", "attemptInitial", "attemptExtended"}

\* Counted in mStrong; the first two have still to take INITIAL_STRONG_VALUE off.
Strong == {"first", "fixup", "sp"}

\* Counted in mWeak.
Weak == Strong \union Taking \union {"wp", "lastStrong", "decWeak"}

Places == Weak \union {"none", "lastWeak"}

\* Every variable has its type.
RefTypeOK ==
    /\ mStrong \in Int /\ mWeak \in Int /\ mFlags \in Lifetimes
    /\ object \in {"live", "dead", "twice"} /\ refs \in {"live", "dead", "twice"}
    /\ raw \in BOOLEAN
    /\ at \in [Handles -> Places] /\ src \in [Handles -> Handles \union {Raw}]

\* The constructors of RefBase and weakref_impl; extendObjectLifetime is called by
\* the constructor of a class.
RefInit ==
    /\ mStrong = INITIAL_STRONG_VALUE /\ mWeak = 0 /\ mFlags \in Lifetimes
    /\ object = "live" /\ refs = "live" /\ raw = TRUE
    /\ at = [h \in Handles |-> "none"] /\ src = [h \in Handles |-> Raw]

\* A call works from a reference of its caller's until it returns.
Calling == Taking \union {"first", "fixup"}

Calls(h, p, g) == at' = [at EXCEPT ![h] = p] /\ src' = [src EXCEPT ![h] = g]
Moves(h, p) == Calls(h, p, IF p \in Calling THEN src[h] ELSE Raw)
Lives == UNCHANGED <<mFlags, object, refs>>
Deleted(x) == IF x = "live" THEN "dead" ELSE "twice"

\* A caller keeps the reference it works from until the call returns.
InUse(g) == \E h \in Handles : src[h] = g

\* A raw pointer is good for one reference: with FirstRefShared the creator makes a
\* strong reference of it although a constructor has already handed out a weak one.
RawUsed == raw' = FALSE

\* sp<T>(T*) and the copy of an sp<>: incStrong, as far as incWeak.
StartIncStrong(h) ==
    /\ at[h] = "none"
    /\ \/ raw /\ RawUsed /\ Calls(h, "incStrong", Raw)
       \/ \E g \in Handles : at[g] = "sp" /\ Calls(h, "incStrong", g) /\ UNCHANGED raw
    /\ mWeak' = mWeak + 1
    /\ Lives /\ UNCHANGED mStrong

\* incStrong: the count, and whether it was the first one.
IncStrong(h) ==
    /\ at[h] = "incStrong"
    /\ mStrong' = mStrong + 1
    /\ Moves(h, IF mStrong = INITIAL_STRONG_VALUE THEN "first" ELSE "sp")
    /\ Lives /\ UNCHANGED <<mWeak, raw>>

\* incStrong, forceIncStrong: the first reference takes the initial value off;
\* onFirstRef is a hook of subclasses.
FirstRef(h) ==
    /\ at[h] = "first"
    /\ mStrong' = mStrong - INITIAL_STRONG_VALUE
    /\ Moves(h, "sp")
    /\ Lives /\ UNCHANGED <<mWeak, raw>>

\* The callers of forceIncStrong and attemptIncWeak know the object from a reference
\* that was complete.
Referenced == FirstRefShared \/ mStrong < INITIAL_STRONG_VALUE

\* forceIncStrong is for holders of a wp<> whose object outlives its strong references.
StartForceIncStrong(h) ==
    /\ at[h] = "none" /\ mFlags = "WEAK" /\ Referenced
    /\ \E g \in Handles : at[g] = "wp" /\ Calls(h, "forceIncStrong", g)
    /\ mWeak' = mWeak + 1
    /\ Lives /\ UNCHANGED <<mStrong, raw>>

ForceIncStrong(h) ==
    /\ at[h] = "forceIncStrong"
    /\ mStrong' = mStrong + 1
    /\ Moves(h, IF mStrong = INITIAL_STRONG_VALUE THEN "first" ELSE "sp")
    /\ Lives /\ UNCHANGED <<mWeak, raw>>

\* Mutant: whether others are left is not looked at.
DecStrongLast(h) ==
    /\ at[h] = "sp" /\ ~InUse(h)
    /\ mStrong' = mStrong - 1
    /\ Moves(h, "lastStrong")
    /\ Lives /\ UNCHANGED <<mWeak, raw>>

\* sp<>::clear: decStrong, the count.
DecStrong(h) ==
    /\ at[h] = "sp" /\ ~InUse(h)
    /\ mStrong' = mStrong - 1
    /\ Moves(h, IF mStrong = 1 THEN "lastStrong" ELSE "decWeak")
    /\ Lives /\ UNCHANGED <<mWeak, raw>>

\* ~RefBase frees the block when there never was a strong reference, or when it does
\* not outlive the object.
FreesRefs == mStrong = INITIAL_STRONG_VALUE \/ (mFlags # "STRONG" /\ mWeak = 0)

DeleteObject ==
    /\ object' = Deleted(object)
    /\ refs' = IF FreesRefs THEN Deleted(refs) ELSE refs

\* Mutant: the lifetime is not looked at.
LastStrongDeletes(h) ==
    /\ at[h] = "lastStrong"
    /\ DeleteObject
    /\ Moves(h, "decWeak")
    /\ UNCHANGED <<mStrong, mWeak, mFlags, raw>>

\* decStrong: onLastStrongRef, then delete this.
LastStrong(h) ==
    /\ at[h] = "lastStrong"
    /\ IF mFlags = "STRONG" THEN DeleteObject ELSE UNCHANGED <<object, refs>>
    /\ Moves(h, "decWeak")
    /\ UNCHANGED <<mStrong, mWeak, mFlags, raw>>

\* decWeak: at the end of decStrong, of a failed promotion, and in wp<>::clear.
DecWeak(h) ==
    /\ at[h] = "decWeak" \/ (at[h] = "wp" /\ ~InUse(h))
    /\ mWeak' = mWeak - 1
    /\ Moves(h, IF mWeak = 1 THEN "lastWeak" ELSE "none")
    /\ Lives /\ UNCHANGED <<mStrong, raw>>

\* Mutant: an object that never had a strong reference is forgotten.
LastWeakBlock(h) ==
    /\ at[h] = "lastWeak"
    /\ IF mFlags = "STRONG"
         THEN refs' = Deleted(refs) /\ UNCHANGED object
         ELSE DeleteObject
    /\ Moves(h, "none")
    /\ UNCHANGED <<mStrong, mWeak, mFlags, raw>>

\* decWeak by the last one: the block, or the object, whose destructor frees the block.
LastWeak(h) ==
    /\ at[h] = "lastWeak"
    /\ IF mFlags = "STRONG" /\ mStrong # INITIAL_STRONG_VALUE
         THEN refs' = Deleted(refs) /\ UNCHANGED object
         ELSE DeleteObject
    /\ Moves(h, "none")
    /\ UNCHANGED <<mStrong, mWeak, mFlags, raw>>

\* createWeak for wp<T>(T*) and wp<T>(sp<T>); incWeak for the copy of a wp<>.
CreateWeak(h) ==
    /\ at[h] = "none"
    /\ \/ raw /\ (IF FirstRefShared THEN UNCHANGED raw ELSE RawUsed)
       \/ (\E g \in Handles : at[g] \in {"sp", "wp"}) /\ UNCHANGED raw
    /\ mWeak' = mWeak + 1 /\ Moves(h, "wp")
    /\ Lives /\ UNCHANGED mStrong

\* wp<>::promote: attemptIncStrong, as far as incWeak.
StartAttempt(h) ==
    /\ at[h] = "none"
    /\ \E g \in Handles : at[g] = "wp" /\ Calls(h, "attempt", g)
    /\ mWeak' = mWeak + 1
    /\ Lives /\ UNCHANGED <<mStrong, raw>>

\* The common case: there is a strong reference, take another.
AttemptCommon(h) ==
    /\ at[h] = "attempt" /\ mStrong > 0 /\ mStrong # INITIAL_STRONG_VALUE
    /\ mStrong' = mStrong + 1 /\ Moves(h, "fixup")
    /\ Lives /\ UNCHANGED <<mWeak, raw>>

\* There never was one, or the last one is gone.  onIncStrongAttempted lets the class
\* refuse to revive an object of extended lifetime.
AttemptHard(h) ==
    /\ at[h] = "attempt" /\ (mStrong <= 0 \/ mStrong = INITIAL_STRONG_VALUE)
    /\ IF mFlags = "STRONG"
         THEN Moves(h, IF mStrong <= 0 THEN "decWeak" ELSE "attemptInitial")
         ELSE \E p \in {"decWeak", "attemptExtended"} : Moves(h, p)
    /\ Lives /\ UNCHANGED <<mStrong, mWeak, raw>>

\* Mutant: the exchange is tried once.
AttemptInitialOnce(h) ==
    /\ at[h] = "attemptInitial"
    /\ \/ mStrong = INITIAL_STRONG_VALUE /\ mStrong' = mStrong + 1 /\ Moves(h, "fixup")
       \/ mStrong # INITIAL_STRONG_VALUE /\ UNCHANGED mStrong /\ Moves(h, "decWeak")
    /\ Lives /\ UNCHANGED <<mWeak, raw>>

\* Normal lifetime, no reference yet: another thread may make it and drop it meanwhile.
AttemptInitial(h) ==
    /\ at[h] = "attemptInitial"
    /\ \/ mStrong > 0 /\ mStrong' = mStrong + 1 /\ Moves(h, "fixup")
       \/ mStrong <= 0 /\ UNCHANGED mStrong /\ Moves(h, "decWeak")
    /\ Lives /\ UNCHANGED <<mWeak, raw>>

AttemptExtended(h) ==
    /\ at[h] = "attemptExtended"
    /\ mStrong' = mStrong + 1 /\ Moves(h, "fixup")
    /\ Lives /\ UNCHANGED <<mWeak, raw>>

\* attemptIncStrong: whoever sees the initial value in the count takes it off.
Fixup(h) ==
    /\ at[h] = "fixup"
    /\ mStrong' = IF mStrong >= INITIAL_STRONG_VALUE
                    THEN mStrong - INITIAL_STRONG_VALUE ELSE mStrong
    /\ Moves(h, "sp")
    /\ Lives /\ UNCHANGED <<mWeak, raw>>

\* attemptIncWeak is for callers that keep the block from being freed by other means
\* (a table whose entry the destructor of the object removes).
AttemptIncWeak(h) ==
    /\ at[h] = "none" /\ mFlags = "WEAK" /\ Referenced /\ refs = "live" /\ mWeak > 0
    /\ mWeak' = mWeak + 1 /\ Moves(h, "wp")
    /\ Lives /\ UNCHANGED <<mStrong, raw>>

\* An object on the stack, or deleted by its creator, that nobody ever referred to.
DeleteRaw ==
    /\ raw /\ \A h \in Handles : at[h] = "none"
    /\ DeleteObject /\ RawUsed
    /\ UNCHANGED <<mStrong, mWeak, mFlags, at, src>>

RefStep(h) ==
    \/ IncStrong(h) \/ FirstRef(h) \/ ForceIncStrong(h) \/ LastStrong(h) \/ LastWeak(h)
    \/ AttemptCommon(h) \/ AttemptHard(h) \/ AttemptInitial(h) \/ AttemptExtended(h)
    \/ Fixup(h)

RefNext ==
    \/ \E h \in Handles :
          \/ StartIncStrong(h) \/ StartForceIncStrong(h) \/ StartAttempt(h)
          \/ CreateWeak(h) \/ AttemptIncWeak(h) \/ DecStrong(h) \/ DecWeak(h)
          \/ RefStep(h)
    \/ DeleteRaw

RefSpec == RefInit /\ [][RefNext]_refVars

-----------------------------------------------------------------------------
(* Properties.                                                             *)

\* Whatever the order of increments, promotions and decrements: an object that a
\* completed sp<> points to is not destroyed, and no thread inside a call, and no wp<>,
\* is left with a freed weakref_impl (decStrong, decWeak, ~RefBase).
HeldIsLive ==
    /\ \A h \in Handles : at[h] = "sp" => object = "live"
    /\ \A h \in Handles : at[h] # "none" => refs = "live"

\* When the last handle is gone the object has been destroyed and its weakref_impl
\* freed, each exactly once (decStrong, decWeak, ~RefBase).
NothingLeaks ==
    ~raw /\ (\A h \in Handles : at[h] = "none") => object = "dead" /\ refs = "dead"

\* attemptIncStrong "acquires a strong reference if there is already one": a promotion
\* of an object with normal lifetime fails only when no sp<> to it is left.
PromotionFails ==
    [][\A h \in Handles :
         /\ mFlags = "STRONG" /\ at[h] \in {"attempt", "attemptInitial"}
         /\ at'[h] = "decWeak"
         => \A g \in Handles : at[g] # "sp"]_refVars

Holders == INSTANCE RefHolders
    WITH lifetime <- mFlags, block <- refs,
         strongs <- {h \in Handles : at[h] \in Strong},
         weaks <- {h \in Handles : at[h] \in Weak}

\* The counters implement RefHolders: every atomic operation is a step of a holder, the
\* destruction of an object nobody holds, or invisible (RefBase, weakref_type).
KeepsPromise == Holders!Spec
=============================================================================
