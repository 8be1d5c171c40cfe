----------------------------- MODULE VectorImpl -----------------------------
(***************************************************************************)
(* The vectors of libshims (VectorImpl.cpp) on reference-counted storage   *)
(* (SharedBuffer.cpp).  Copies of a vector share a buffer until one of     *)
(* them is changed.  Each vector belongs to a thread, so each is a process;*)
(* threads meet only in the reference count of a buffer they share.        *)
(*                                                                         *)
(* A step is one access to mRefs, with the work on memory of its own that  *)
(* the thread does before the next one.  Arguments come from outside the   *)
(* vector.  Allocations succeed.                                           *)
(***************************************************************************)
EXTENDS Integers, Sequences, FiniteSets

CONSTANTS
    Vectors, VecItems,
    Buffers,        \* a set of positive numbers
    kMinVectorCapacity,
    MaxItems        \* bound: items of a vector

\* Buffers are found by address; a vector is neither a buffer nor NULL.
ASSUME VectorAssumption ==
    /\ kMinVectorCapacity \in Nat \ {0} /\ MaxItems \in Nat
    /\ Buffers \subseteq Nat \ {0}
    /\ IsFiniteSet(Vectors) /\ \A p \in Vectors : p \notin Buffers /\ p # 0

VARIABLES
    mStorage, mCount,
    trivial,        \* HAS_TRIVIAL_COPY and HAS_TRIVIAL_DTOR
    mRefs,          \* of each buffer; 0 when it is not allocated
    cells,          \* what each buffer holds, from index 0 on
    vecAt,          \* where the call on a vector is
    vecNew,         \* the storage it will have, and the number of items
    wanted          \* what the calls on a vector should have made of it

vecVars == <<mStorage, mCount, trivial, mRefs, cells, vecAt, vecNew, wanted>>

None == 0
Junk == "junk"
Nothing == [storage |-> None, count |-> 0]

Blank(n) == [i \in 0 .. n - 1 |-> Junk]
Capacity(cs) == Cardinality(DOMAIN cs)
MaxOf(a, b) == IF a > b THEN a ELSE b

VecInit ==
    /\ mStorage = [p \in Vectors |-> None] /\ mCount = [p \in Vectors |-> 0]
    /\ trivial \in BOOLEAN
    /\ mRefs = [b \in Buffers |-> 0] /\ cells = [b \in Buffers |-> Blank(0)]
    /\ vecAt = [p \in Vectors |-> "idle"] /\ vecNew = [p \in Vectors |-> Nothing]
    /\ wanted = [p \in Vectors |-> <<>>]

-----------------------------------------------------------------------------
(* What a call makes of the cells of a vector.                             *)

Array(p) == IF mStorage[p] = None THEN Blank(0) ELSE cells[mStorage[p]]

\* Beyond the items of a vector, and in a freed buffer, there is nothing to read.
Destroyed(cs, count) == [i \in DOMAIN cs |-> IF i < count THEN cs[i] ELSE Junk]
Freed(b) == cells' = [cells EXCEPT ![b] = Blank(0)]

\* _do_copy and the two moves: n cells of src from index f on, to index t of dst.
Copied(dst, t, src, f, n) ==
    [i \in DOMAIN dst |-> IF t <= i /\ i < t + n THEN src[f + i - t] ELSE dst[i]]

\* SharedBuffer::editResize: as many cells as fit.
Resized(cs, n) == [i \in 0 .. n - 1 |-> IF i \in DOMAIN cs THEN cs[i] ELSE Junk]

\* _grow, _shrink: how storage is found.  "edit" is editArrayImpl, "resize" editResize,
\* "fresh" a buffer into which the items are copied in two parts.
Plan(how, n) == [how |-> how, capacity |-> n]

\* Mutant: the place of the new items is not looked at.
GrowPlanAnywhere(p, where, amount) ==
    LET size == mCount[p] + amount
    IN  IF Capacity(Array(p)) >= size THEN Plan("edit", Capacity(Array(p)))
        ELSE Plan(IF mStorage[p] # None /\ trivial THEN "resize" ELSE "fresh",
                  MaxOf(kMinVectorCapacity, size + size \div 2 + 1))

GrowPlan(p, where, amount) ==
    LET size == mCount[p] + amount
    IN  IF Capacity(Array(p)) >= size THEN Plan("edit", Capacity(Array(p)))
        ELSE Plan(IF mStorage[p] # None /\ where = mCount[p] /\ trivial THEN "resize" ELSE "fresh",
                  MaxOf(kMinVectorCapacity, size + size \div 2 + 1))

ShrinkPlan(p, where, amount) ==
    LET size == mCount[p] - amount
    IN  IF size >= Capacity(Array(p)) \div 2 THEN Plan("edit", Capacity(Array(p)))
        ELSE Plan(IF where = size /\ trivial THEN "resize" ELSE "fresh",
                  MaxOf(kMinVectorCapacity, size * 2))

\* Both leave a gap of the wanted width, from f to t, among the items of a vector.
Moved(p, plan, where, f, t) ==
    LET old == Array(p)
        rest == mCount[p] - f
    IN  CASE plan.how = "edit"   -> Copied(old, t, old, f, rest)
          [] plan.how = "resize" -> Resized(old, plan.capacity)
          [] plan.how = "fresh"  -> Copied(Copied(Blank(plan.capacity), 0, old, 0, where),
                                           t, old, f, rest)

Grown(p, plan, where, items) ==
    LET arg == [i \in 0 .. Len(items) - 1 |-> items[i + 1]]
        gap == Moved(p, plan, where, where, where + Len(items))
    IN  Copied(gap, where, arg, 0, Len(items))

Shrunk(p, plan, where, amount) == Moved(p, plan, where, where + amount, where)

-----------------------------------------------------------------------------
(* Storage.                                                                *)

Idle(p) == vecAt[p] = "idle"

\* A vector that another one is being assigned from is not changed meanwhile.
Unread(p) == \A q \in Vectors : vecNew[q].storage # p

Finish(p, storage, count) ==
    /\ mStorage' = [mStorage EXCEPT ![p] = storage]
    /\ mCount' = [mCount EXCEPT ![p] = count]
    /\ vecAt' = [vecAt EXCEPT ![p] = "idle"]
    /\ vecNew' = [vecNew EXCEPT ![p] = Nothing]

\* SharedBuffer::alloc; which free buffer it is makes no difference.
Alloc(p, cs, count) ==
    \E b \in Buffers :
        /\ mRefs[b] = 0 /\ \A a \in Buffers : mRefs[a] = 0 => b <= a
        /\ mRefs' = [mRefs EXCEPT ![b] = 1]
        /\ cells' = [cells EXCEPT ![b] = Destroyed(cs, count)]
        /\ IF mStorage[p] = None
             THEN Finish(p, b, count)
             ELSE /\ vecAt' = [vecAt EXCEPT ![p] = "release"]
                  /\ vecNew' = [vecNew EXCEPT ![p] = [storage |-> b, count |-> count]]
                  /\ UNCHANGED <<mStorage, mCount>>

OnlyOwner(b) == mRefs[b] = 1

\* attemptEdit, editResize: the only owner of a buffer works in it; others work in a copy.
Change(p, plan, cs, count) ==
    IF plan.how # "fresh" /\ OnlyOwner(mStorage[p])
      THEN /\ cells' = [cells EXCEPT ![mStorage[p]] = Destroyed(cs, count)]
           /\ Finish(p, mStorage[p], count)
           /\ UNCHANGED mRefs
      ELSE Alloc(p, cs, count)

\* SharedBuffer::release: the only owner frees the buffer without an atomic operation.
Released(p) ==
    IF vecNew[p].storage \in Vectors
      THEN /\ vecAt' = [vecAt EXCEPT ![p] = "acquire"]
           /\ mStorage' = [mStorage EXCEPT ![p] = None]
           /\ UNCHANGED <<mCount, vecNew>>
      ELSE Finish(p, vecNew[p].storage, vecNew[p].count)

Release(p) ==
    /\ vecAt[p] = "release"
    /\ IF OnlyOwner(mStorage[p])
         THEN /\ mRefs' = [mRefs EXCEPT ![mStorage[p]] = 0] /\ Freed(mStorage[p])
              /\ Released(p)
         ELSE /\ vecAt' = [vecAt EXCEPT ![p] = "dec"]
              /\ UNCHANGED <<mStorage, mCount, mRefs, cells, vecNew>>
    /\ UNCHANGED <<trivial, wanted>>

\* Its atomic decrement; whoever brings it to nothing frees the buffer.
DecRefs(p) ==
    /\ vecAt[p] = "dec"
    /\ mRefs' = [mRefs EXCEPT ![mStorage[p]] = @ - 1]
    /\ IF OnlyOwner(mStorage[p]) THEN Freed(mStorage[p]) ELSE UNCHANGED cells
    /\ Released(p)
    /\ UNCHANGED <<trivial, wanted>>

-----------------------------------------------------------------------------
(* Calls on a vector.                                                      *)

\* insertAt, insertArrayAt, and with them push, add, appendArray, appendVector.
InsertArrayAt(p) ==
    /\ Idle(p) /\ Unread(p)
    /\ \E where \in 0 .. mCount[p], n \in 1 .. MaxItems - mCount[p] :
       \E items \in [1 .. n -> VecItems] :
          LET plan == GrowPlan(p, where, n)
          IN  /\ Change(p, plan, Grown(p, plan, where, items), mCount[p] + n)
              /\ wanted' = [wanted EXCEPT ![p] = SubSeq(@, 1, where) \o items
                                                 \o SubSeq(@, where + 1, Len(@))]
    /\ UNCHANGED trivial

\* removeItemsAt, and with it pop, clear, resize.
RemoveItemsAt(p) ==
    /\ Idle(p) /\ Unread(p) /\ mStorage[p] # None
    /\ \E where \in 0 .. mCount[p] : \E n \in 0 .. mCount[p] - where :
          LET plan == ShrinkPlan(p, where, n)
          IN  /\ Change(p, plan, Shrunk(p, plan, where, n), mCount[p] - n)
              /\ wanted' = [wanted EXCEPT ![p] = SubSeq(@, 1, where)
                                                 \o SubSeq(@, where + n + 1, Len(@))]
    /\ UNCHANGED trivial

ReplaceItemAt(p) ==
    /\ Idle(p) /\ Unread(p)
    /\ \E i \in 0 .. mCount[p] - 1, x \in VecItems :
          /\ Change(p, Plan("edit", Capacity(Array(p))), [Array(p) EXCEPT ![i] = x], mCount[p])
          /\ wanted' = [wanted EXCEPT ![p][i + 1] = x]
    /\ UNCHANGED trivial

SetCapacity(p) ==
    /\ Idle(p) /\ Unread(p)
    /\ \E n \in mCount[p] + 1 .. MaxItems + 1 :
          Alloc(p, Copied(Blank(n), 0, Array(p), 0, mCount[p]), mCount[p])
    /\ UNCHANGED <<trivial, wanted>>

\* VectorImpl(rhs): the storage is shared, that of an empty vector too.
CopyConstruct(p) ==
    /\ Idle(p) /\ Unread(p) /\ mStorage[p] = None
    /\ \E q \in Vectors \ {p} :
          /\ Idle(q)
          /\ Finish(p, mStorage[q], mCount[q])
          /\ mRefs' = IF mStorage[q] = None THEN mRefs ELSE [mRefs EXCEPT ![mStorage[q]] = @ + 1]
          /\ wanted' = [wanted EXCEPT ![p] = wanted[q]]
    /\ UNCHANGED <<trivial, cells>>

\* operator=, and finish_vector in a destructor, which wants nothing of another vector.
Assign(p) ==
    /\ Idle(p) /\ Unread(p) /\ mStorage[p] # None
    /\ \/ /\ vecNew' = vecNew /\ wanted' = [wanted EXCEPT ![p] = <<>>]
       \/ \E q \in Vectors \ {p} :
             /\ Idle(q)
             /\ vecNew' = [vecNew EXCEPT ![p] = IF mCount[q] = 0 THEN Nothing
                                                ELSE [storage |-> q, count |-> mCount[q]]]
             /\ wanted' = [wanted EXCEPT ![p] = wanted[q]]
    /\ vecAt' = [vecAt EXCEPT ![p] = "release"]
    /\ UNCHANGED <<mStorage, mCount, trivial, mRefs, cells>>

\* Mutant: the storage is taken over.
AcquireUncounted(p) ==
    /\ vecAt[p] = "acquire"
    /\ Finish(p, mStorage[vecNew[p].storage], vecNew[p].count)
    /\ UNCHANGED <<trivial, mRefs, cells, wanted>>

\* operator=: acquire, after the old storage has been released.
Acquire(p) ==
    /\ vecAt[p] = "acquire"
    /\ LET b == mStorage[vecNew[p].storage]
       IN  /\ mRefs' = [mRefs EXCEPT ![b] = @ + 1]
           /\ Finish(p, b, vecNew[p].count)
    /\ UNCHANGED <<trivial, cells, wanted>>

VecNext ==
    \E p \in Vectors :
        \/ InsertArrayAt(p) \/ RemoveItemsAt(p) \/ ReplaceItemAt(p) \/ SetCapacity(p)
        \/ CopyConstruct(p) \/ Assign(p) \/ Acquire(p) \/ Release(p) \/ DecRefs(p)

-----------------------------------------------------------------------------
(* Properties.                                                             *)

\* Each vector holds what the calls made on it, and on no other vector, should have made
\* of it (editArrayImpl, _grow, _shrink, operator=).
VecValues ==
    \A p \in Vectors : Idle(p) =>
        /\ mCount[p] = Len(wanted[p])
        /\ \A i \in 1 .. mCount[p] : Array(p)[i - 1] = wanted[p][i]

VecHolders(b) ==
    {p \in Vectors : mStorage[p] = b} \union {p \in Vectors : vecNew[p].storage = b}

\* A buffer counts the vectors that hold it: it is freed when the last one lets go of it,
\* neither earlier nor never (SharedBuffer::acquire, release).
VecRefs == \A b \in Buffers : mRefs[b] = Cardinality(VecHolders(b))
=============================================================================
