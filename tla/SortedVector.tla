---------------------------- MODULE SortedVector ----------------------------
(***************************************************************************)
(* The two ordered containers of VectorImpl.cpp: SortedVectorImpl, kept    *)
(* in the order of its keys by a binary search, and VectorImpl::sort, an   *)
(* insertion sort.  An item is a key, which the comparison looks at, and a *)
(* tag, which it does not: the tag tells equal items apart, so that what   *)
(* replaces what, and whether the sort is stable, can be seen.  How the    *)
(* storage under the items is shared and copied is module VectorImpl.      *)
(* Positions count from 1, where the code's count from 0.                  *)
(***************************************************************************)
EXTENDS Integers, Sequences, SequencesExt

CONSTANTS
    SortKeys,       \* the keys, some natural numbers
    SortTags,       \* what tells items of one key apart
    MaxSorted,      \* bound: items in the sorted vector
    MaxPlain        \* bound: items in the other vector

ASSUME SortAssumption ==
    /\ SortKeys \subseteq Nat
    /\ MaxSorted \in Nat /\ MaxPlain \in Nat

VARIABLES
    keyed,          \* a SortedVector
    plain,          \* a Vector, merged into the other and sorted
    inOrder         \* the plain one is (also) a SortedVector: nothing was
                    \* pushed to it since it was sorted

sortVars == <<keyed, plain, inOrder>>

SortItem == [key : SortKeys, tag : SortTags]

(* do_compare: negative, zero or positive. *)
Compare(a, b) == a.key - b.key

-----------------------------------------------------------------------------
(* The search. *)

(* Mutant: the upper half is searched without its last position. *)
IndexOrderOfShort(s, item) ==
    LET search[l \in 1 .. Len(s) + 1, h \in 0 .. Len(s)] ==
            LET mid == l + (h - l) \div 2
            IN  IF l >= h THEN [index |-> 0, order |-> l]
                ELSE IF Compare(s[mid], item) = 0
                    THEN [index |-> mid, order |-> mid]
                ELSE IF Compare(s[mid], item) < 0
                    THEN search[mid + 1, h]
                ELSE search[l, mid - 1]
    IN  search[1, Len(s)]

(* The loop of _indexOrderOf on positions l to h: where the item is (0 for *)
(* NAME_NOT_FOUND) and where it belongs.                                   *)
IndexOrderOf(s, item) ==
    LET search[l \in 1 .. Len(s) + 1, h \in 0 .. Len(s)] ==
            LET mid == l + (h - l) \div 2
            IN  IF l > h THEN [index |-> 0, order |-> l]
                ELSE IF Compare(s[mid], item) = 0
                    THEN [index |-> mid, order |-> mid]
                ELSE IF Compare(s[mid], item) < 0
                    THEN search[mid + 1, h]
                ELSE search[l, mid - 1]
    IN  search[1, Len(s)]

(* SortedVectorImpl::add: the item goes where it belongs, or takes the     *)
(* place of the one found.                                                 *)
AddSorted(s, item) ==
    LET found == IndexOrderOf(s, item)
    IN  IF found.index = 0 THEN InsertAt(s, found.order, item)
        ELSE [s EXCEPT ![found.index] = item]

(* merge of a plain vector: one add after the other. *)
MergeVector(s, v) == FoldLeft(AddSorted, s, v)

(* merge of a sorted vector: in front or behind, when the two are sorted   *)
(* together, and item by item otherwise.                                   *)
MergeSorted(s, v) ==
    IF v = <<>> THEN s
    ELSE IF Compare(Last(v), Head(s)) <= 0 THEN v \o s
    ELSE IF Compare(Head(v), Last(s)) >= 0 THEN s \o v
    ELSE MergeVector(s, v)

(* SortedVectorImpl::remove: the item found, if one is. *)
RemoveSorted(s, item) ==
    LET found == IndexOrderOf(s, item)
    IN  IF found.index = 0 THEN s ELSE RemoveAt(s, found.index)

-----------------------------------------------------------------------------
(* The sort. *)

(* Mutant: equal items are moved past each other. *)
SortRoundEqual(s, i) ==
    LET item == s[i]
        sink[j \in 0 .. i - 1] ==
            IF j >= 1 /\ Compare(s[j], item) >= 0 THEN sink[j - 1] ELSE j + 1
        next == sink[i - 1]
    IN  [k \in DOMAIN s |->
            IF k = next THEN item
            ELSE IF k > next /\ k <= i THEN s[k - 1]
            ELSE s[k]]

(* Round i of the outer loop: while the item before is larger it moves up, *)
(* and the item of position i takes the place that is left.                *)
SortRound(s, i) ==
    LET item == s[i]
        sink[j \in 0 .. i - 1] ==
            IF j >= 1 /\ Compare(s[j], item) > 0 THEN sink[j - 1] ELSE j + 1
        next == sink[i - 1]
    IN  [k \in DOMAIN s |->
            IF k = next THEN item
            ELSE IF k > next /\ k <= i THEN s[k - 1]
            ELSE s[k]]

InsertionSort(s) == FoldLeft(SortRound, s, [i \in 1 .. Len(s) - 1 |-> i + 1])

-----------------------------------------------------------------------------
(* The calls a program makes of the two vectors. *)

SortInit ==
    /\ keyed = <<>>
    /\ plain = <<>>
    /\ inOrder = TRUE

(* Vector::push. *)
PushPlain ==
    /\ Len(plain) < MaxPlain
    /\ \E x \in SortItem : plain' = Append(plain, x)
    /\ inOrder' = FALSE
    /\ UNCHANGED keyed

(* Vector::sort; a vector whose keys are in order may serve as a           *)
(* SortedVector.                                                           *)
SortPlain ==
    /\ plain' = InsertionSort(plain)
    /\ inOrder' = TRUE
    /\ UNCHANGED keyed

AddKeyed ==
    /\ Len(keyed) < MaxSorted
    /\ \E x \in SortItem : keyed' = AddSorted(keyed, x)
    /\ UNCHANGED <<plain, inOrder>>

RemoveKeyed ==
    /\ \E x \in SortItem : keyed' = RemoveSorted(keyed, x)
    /\ UNCHANGED <<plain, inOrder>>

MergePlain ==
    /\ Len(keyed) + Len(plain) <= MaxSorted
    /\ keyed' = MergeVector(keyed, plain)
    /\ UNCHANGED <<plain, inOrder>>

(* A sorted vector is merged.  The code compares with the first and the    *)
(* last item of its own before it looks whether there is one: without, it  *)
(* reads what is no item, and takes any of the three ways, or the process  *)
(* ends there.                                                             *)
MergeKeyed ==
    /\ inOrder
    /\ Len(keyed) + Len(plain) <= MaxSorted
    /\ \/ keyed # <<>> /\ keyed' = MergeSorted(keyed, plain)
       \/ keyed = <<>> /\ keyed' \in {plain, MergeVector(keyed, plain)}
    /\ UNCHANGED <<plain, inOrder>>

SortNext ==
    \/ PushPlain \/ SortPlain
    \/ AddKeyed \/ RemoveKeyed
    \/ MergePlain \/ MergeKeyed

-----------------------------------------------------------------------------
(* What the containers promise. *)

(* The places of the keys below, and not above, the one of x. *)
Below(s, x) == {i \in DOMAIN s : s[i].key < x.key}
UpTo(s, x) == {i \in DOMAIN s : s[i].key <= x.key}

(* _indexOrderOf finds an item whenever one with its key is there, and the *)
(* place it gives is after all smaller and before all larger keys: every   *)
(* search of every vector that adds, removals and merges can build (the    *)
(* merge of vectors that touch leaves equal keys side by side).            *)
SearchFinds ==
    \A x \in SortItem :
        LET found == IndexOrderOf(keyed, x)
        IN  /\ (found.index # 0) <=> (Below(keyed, x) # UpTo(keyed, x))
            /\ found.index # 0 => keyed[found.index].key = x.key
            /\ \A i \in Below(keyed, x) : i < found.order
            /\ \A i \in DOMAIN keyed \ UpTo(keyed, x) : found.order <= i

(* The items of s in the order of their keys, equal ones as they stood. *)
StableOf(s) ==
    LET before(i) == {j \in DOMAIN s : \/ s[j].key < s[i].key
                                       \/ s[j].key = s[i].key /\ j < i}
    IN  [k \in DOMAIN s |->
            s[CHOOSE i \in DOMAIN s : Cardinality(before(i)) = k - 1]]

(* VectorImpl::sort is stable ("the sort must be stable"): each item goes  *)
(* to the place given by how many have a smaller key, or the same key and  *)
(* stood before it.                                                        *)
SortStable == InsertionSort(plain) = StableOf(plain)
=============================================================================
