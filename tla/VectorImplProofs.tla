-------------------------- MODULE VectorImplProofs --------------------------
(***************************************************************************)
(* Proofs about VectorImpl: the count of a storage is the number of its    *)
(* vectors, and the items of a vector are what its own operations made of  *)
(* them, whatever the other vectors that share its storage do meanwhile.   *)
(* First what the operators on arrays compute, then the inductive          *)
(* invariant, action by action.                                            *)
(***************************************************************************)
EXTENDS VectorImpl, FiniteSetTheorems, TLAPS

USE SMTT(20), ZenonT(20)

(* The vectors alone: the parts run steps them beside other components. *)
VecSpec == VecInit /\ [][VecNext]_vecVars

\* The cells of a buffer of n items, and a buffer of any size.
Cells(n) == [0 .. n - 1 -> VecItems \union {Junk}]
CellArrays == UNION {Cells(n) : n \in Nat}

\* An array begins with the items of a sequence.
Begins(cs, w) == \A i \in 1 .. Len(w) : i - 1 \in DOMAIN cs /\ cs[i - 1] = w[i]

Coming == [storage : Buffers \union Vectors \union {None}, count : Nat]

(* What the variables hold. *)
VecTypeOK ==
    /\ mStorage \in [Vectors -> Buffers \union {None}]
    /\ mCount \in [Vectors -> Nat]
    /\ trivial \in BOOLEAN
    /\ mRefs \in [Buffers -> Nat]
    /\ cells \in [Buffers -> CellArrays]
    /\ vecAt \in [Vectors -> {"idle", "release", "dec", "acquire"}]
    /\ vecNew \in [Vectors -> Coming]
    /\ wanted \in [Vectors -> Seq(VecItems)]

\* What the storage of a vector, and the storage it is to have, may be at each place; the
\* vector that another is assigned from is left alone until it is acquired from.
PlacedAt(p) ==
    /\ vecAt[p] = "idle" => vecNew[p] = Nothing
    /\ vecAt[p] \in {"release", "dec"} => /\ mStorage[p] \in Buffers
                                          /\ vecNew[p].storage # mStorage[p]
    /\ vecAt[p] = "acquire" => mStorage[p] = None /\ vecNew[p].storage \in Vectors
    /\ vecNew[p].storage \in Vectors => /\ vecAt[vecNew[p].storage] = "idle"
                                        /\ mStorage[vecNew[p].storage] \in Buffers

(* Every vector is at one of its places with the storage that goes with    *)
(* it.                                                                     *)
VecPlaced == \A p \in Vectors : PlacedAt(p)

\* The storage that a vector has, or is to have, holds what it should.
Holds(storage, count, w) ==
    /\ count = Len(w)
    /\ storage = None => w = <<>>
    /\ storage \in Buffers => Begins(cells[storage], w)

(* A vector that is not in a call has what it should hold; in a call it is *)
(* what it is to have that does, and a vector it is assigned from holds    *)
(* the same.                                                               *)
HeldBy(p) ==
    /\ vecAt[p] = "idle" => Holds(mStorage[p], mCount[p], wanted[p])
    /\ vecAt[p] # "idle" => Holds(vecNew[p].storage, vecNew[p].count, wanted[p])
    /\ vecNew[p].storage \in Vectors => wanted[p] = wanted[vecNew[p].storage]

(* Every vector does. *)
VecHeld == \A p \in Vectors : HeldBy(p)

(* The inductive invariant. *)
VecIInv == VecTypeOK /\ VecPlaced /\ VecHeld /\ VecRefs

-----------------------------------------------------------------------------
\* An array has as many cells as its capacity says.
LEMMA CellsLaw ==
    ASSUME NEW cs \in CellArrays
    PROVE  /\ Capacity(cs) \in Nat /\ DOMAIN cs = 0 .. Capacity(cs) - 1
           /\ cs \in Cells(Capacity(cs))
  <1>1. PICK n \in Nat : cs \in Cells(n)
    BY Zenon DEF CellArrays
  <1>2. DOMAIN cs = 0 .. n - 1
    BY <1>1 DEF Cells
  <1>3. Cardinality(0 .. n - 1) = n
    <2>1. 0 \in Int /\ n - 1 \in Int
      OBVIOUS
    <2>2. Cardinality(0 .. n - 1) = IF 0 > n - 1 THEN 0 ELSE (n - 1) - 0 + 1
      BY Zenon, <2>1, FS_Interval
    <2> QED
      BY <2>2
  <1>4. Capacity(cs) = n
    BY Zenon, <1>2, <1>3 DEF Capacity
  <1> QED
    BY <1>1, <1>2, <1>4

(* An array of n cells is an array, and its capacity is n. *)
LEMMA CellsAre ==
    ASSUME NEW n \in Nat, NEW cs \in Cells(n)
    PROVE  cs \in CellArrays /\ DOMAIN cs = 0 .. n - 1 /\ Capacity(cs) = n
  <1>1. cs \in CellArrays
    BY Zenon DEF CellArrays
  <1>2. DOMAIN cs = 0 .. n - 1
    BY DEF Cells
  <1>3. Capacity(cs) \in Nat /\ 0 .. Capacity(cs) - 1 = 0 .. n - 1
    BY Zenon, <1>1, <1>2, CellsLaw
  <1>4. ASSUME NEW m \in Nat, 0 .. m - 1 = 0 .. n - 1 PROVE m = n
    <2>1. CASE m < n
      <3>1. m \in 0 .. n - 1 /\ m \notin 0 .. m - 1
        BY <2>1
      <3> QED
        BY Zenon, <1>4, <3>1
    <2>2. CASE n < m
      <3>1. n \in 0 .. m - 1 /\ n \notin 0 .. n - 1
        BY <2>2
      <3> QED
        BY Zenon, <1>4, <3>1
    <2> QED
      BY <2>1, <2>2
  <1> QED
    BY Zenon, <1>1, <1>2, <1>3, <1>4

(* A buffer that was just allocated has its cells. *)
LEMMA BlankLaw == ASSUME NEW n \in Nat PROVE Blank(n) \in Cells(n)
  BY DEF Blank, Cells

(* n cells from index f on are there to be read. *)
Readable(src, f, n) == \A j \in f .. f + n - 1 : src[j] \in VecItems \union {Junk}
(* What a copy of n cells leaves in an array of m. *)
CopyOf(cs, m, dst, t, src, f, n) ==
    /\ cs \in Cells(m)
    /\ \A i \in 0 .. m - 1 : cs[i] = IF t <= i /\ i < t + n THEN src[f + i - t] ELSE dst[i]

(* _do_copy writes the cells of its range and no others. *)
LEMMA CopiedLaw ==
    ASSUME NEW m \in Nat, NEW dst \in Cells(m), NEW t \in Nat, NEW src, NEW f \in Nat,
           NEW n \in Nat, Readable(src, f, n)
    PROVE  CopyOf(Copied(dst, t, src, f, n), m, dst, t, src, f, n)
  <1>1. DOMAIN dst = 0 .. m - 1 /\ \A i \in 0 .. m - 1 : dst[i] \in VecItems \union {Junk}
    BY DEF Cells
  <1>2. \A i \in 0 .. m - 1 : Copied(dst, t, src, f, n)[i] =
            IF t <= i /\ i < t + n THEN src[f + i - t] ELSE dst[i]
    BY <1>1 DEF Copied
  <1>3. \A i \in 0 .. m - 1 : t <= i /\ i < t + n => f + i - t \in f .. f + n - 1
    OBVIOUS
  <1>4. \A i \in 0 .. m - 1 : Copied(dst, t, src, f, n)[i] \in VecItems \union {Junk}
    BY <1>1, <1>2, <1>3 DEF Readable
  <1>5. Copied(dst, t, src, f, n) = [i \in 0 .. m - 1 |-> Copied(dst, t, src, f, n)[i]]
    BY Zenon, <1>1 DEF Copied
  <1> QED
    BY Zenon, <1>2, <1>4, <1>5 DEF Cells, CopyOf

(* editResize keeps the cells that fit. *)
LEMMA ResizedLaw ==
    ASSUME NEW m \in Nat, NEW cs \in Cells(m), NEW n \in Nat
    PROVE  /\ Resized(cs, n) \in Cells(n)
           /\ \A i \in 0 .. n - 1 : i < m => Resized(cs, n)[i] = cs[i]
  BY DEF Resized, Cells

(* Destroying what is beyond the items leaves the items. *)
LEMMA DestroyedLaw ==
    ASSUME NEW cs \in CellArrays, NEW w \in Seq(VecItems), Begins(cs, w)
    PROVE  Destroyed(cs, Len(w)) \in CellArrays /\ Begins(Destroyed(cs, Len(w)), w)
  <1>1. PICK n \in Nat : cs \in Cells(n)
    BY Zenon DEF CellArrays
  <1>2. DOMAIN cs = 0 .. n - 1 /\ Len(w) \in Nat
    BY <1>1 DEF Cells
  <1>3. Destroyed(cs, Len(w)) \in Cells(n)
    BY <1>1, <1>2 DEF Destroyed, Cells
  <1>4. Begins(Destroyed(cs, Len(w)), w)
    BY <1>2 DEF Destroyed, Begins
  <1> QED
    BY Zenon, <1>3, <1>4 DEF CellArrays

-----------------------------------------------------------------------------
\* What SubSeq and \o make of the items that a call inserts or removes.
SplicedOf(v, w, k, items, j) ==
    /\ v \in Seq(VecItems) /\ Len(v) = k + Len(items) + (Len(w) - j)
    /\ \A i \in 1 .. k : v[i] = w[i]
    /\ \A i \in 1 .. Len(items) : v[k + i] = items[i]
    /\ \A i \in 1 .. Len(w) - j : v[k + Len(items) + i] = w[j + i]

(* Items 1 to k, then the new ones, then those after j. *)
LEMMA SplicedLaw ==
    ASSUME NEW w \in Seq(VecItems), NEW items \in Seq(VecItems), NEW k \in Nat, NEW j \in Nat,
           k <= j, j <= Len(w)
    PROVE  SplicedOf(SubSeq(w, 1, k) \o items \o SubSeq(w, j + 1, Len(w)), w, k, items, j)
  <1> DEFINE a == SubSeq(w, 1, k)
             b == SubSeq(w, j + 1, Len(w))
             c == a \o items
             v == c \o b
  <1>1. Len(w) \in Nat /\ Len(items) \in Nat /\ \A i \in 1 .. Len(w) : w[i] \in VecItems
    OBVIOUS
  <1>2. /\ a \in Seq(VecItems) /\ Len(a) = k /\ \A i \in 1 .. k : a[i] = w[i]
    BY <1>1
  <1>3. /\ b \in Seq(VecItems) /\ Len(b) = Len(w) - j
        /\ \A i \in 1 .. Len(w) - j : b[i] = w[j + i]
    BY <1>1
  <1>4. a \in Seq(VecItems) /\ b \in Seq(VecItems)
    BY <1>2, <1>3
  <1> HIDE DEF a, b
  <1>5. /\ c \in Seq(VecItems) /\ Len(c) = Len(a) + Len(items)
        /\ \A i \in 1 .. Len(a) : c[i] = a[i]
        /\ \A i \in 1 .. Len(items) : c[Len(a) + i] = items[i]
    BY <1>4
  <1>6. c \in Seq(VecItems)
    BY <1>5
  <1> HIDE DEF c
  <1>7. /\ v \in Seq(VecItems) /\ Len(v) = Len(c) + Len(b)
        /\ \A i \in 1 .. Len(c) : v[i] = c[i]
        /\ \A i \in 1 .. Len(b) : v[Len(c) + i] = b[i]
    BY <1>4, <1>6
  <1> HIDE DEF v
  <1>8. Len(c) = k + Len(items)
    BY Zenon, <1>2, <1>5
  <1>9. /\ \A i \in 1 .. k : i \in 1 .. Len(c)
        /\ \A i \in 1 .. Len(items) : k + i \in 1 .. Len(c)
    BY <1>1, <1>8
  <1>10. /\ v \in Seq(VecItems) /\ Len(v) = k + Len(items) + (Len(w) - j)
         /\ \A i \in 1 .. k : v[i] = w[i]
         /\ \A i \in 1 .. Len(items) : v[k + i] = items[i]
         /\ \A i \in 1 .. Len(w) - j : v[k + Len(items) + i] = w[j + i]
    BY Zenon, <1>2, <1>3, <1>5, <1>7, <1>8, <1>9
  <1> QED
    BY Zenon, <1>10 DEF SplicedOf, v, c, a, b

-----------------------------------------------------------------------------
\* An array that begins with N items has room for them.
LEMMA BeginsLaw ==
    ASSUME NEW C \in Nat, NEW cs \in Cells(C), NEW w \in Seq(VecItems), Begins(cs, w)
    PROVE  Len(w) \in Nat /\ Len(w) <= C /\ \A i \in 0 .. Len(w) - 1 : cs[i] = w[i + 1]
  <1>1. Len(w) \in Nat /\ DOMAIN cs = 0 .. C - 1
    BY DEF Cells
  <1>2. Len(w) <= C
    <2>1. CASE Len(w) = 0
      BY <2>1
    <2>2. CASE Len(w) > 0
      <3>1. Len(w) \in 1 .. Len(w)
        BY <1>1, <2>2
      <3>2. Len(w) - 1 \in 0 .. C - 1
        BY Zenon, <1>1, <3>1 DEF Begins
      <3> QED
        BY <1>1, <3>2
    <2> QED
      BY <1>1, <2>1, <2>2
  <1>3. ASSUME NEW i \in 0 .. Len(w) - 1 PROVE cs[i] = w[i + 1]
    <2>1. i + 1 \in 1 .. Len(w) /\ (i + 1) - 1 = i
      BY <1>1
    <2>2. cs[(i + 1) - 1] = w[i + 1]
      BY Zenon, <2>1 DEF Begins
    <2> QED
      BY <2>1, <2>2
  <1> QED
    BY <1>1, <1>2, <1>3

\* _grow and _shrink make or close a gap between f and t and keep the items on both sides.
Gapped(gap, old, K, where, f, t, rest) ==
    /\ gap \in Cells(K)
    /\ \A i \in 0 .. where - 1 : gap[i] = old[i]
    /\ \A i \in t .. t + rest - 1 : gap[i] = old[f + i - t]

(* One move behind the gap keeps the items before it, ... *)
LEMMA OneCopy ==
    ASSUME NEW C \in Nat, NEW old \in Cells(C), NEW f \in Nat, NEW t \in Nat, NEW rest \in Nat,
           NEW where \in Nat, NEW K \in Nat, NEW dst \in Cells(K),
           f + rest <= C, t + rest <= K, where <= t,
           \A i \in 0 .. where - 1 : dst[i] = old[i]
    PROVE  Gapped(Copied(dst, t, old, f, rest), old, K, where, f, t, rest)
  <1>1. Readable(old, f, rest)
    BY DEF Cells, Readable
  <1>2. CopyOf(Copied(dst, t, old, f, rest), K, dst, t, old, f, rest)
    BY Zenon, <1>1, CopiedLaw
  <1>3. /\ \A i \in 0 .. where - 1 : i \in 0 .. K - 1 /\ ~(t <= i)
        /\ \A i \in t .. t + rest - 1 : i \in 0 .. K - 1 /\ t <= i /\ i < t + rest
    OBVIOUS
  <1> QED
    BY Zenon, <1>2, <1>3 DEF Gapped, CopyOf

(* ... so do the two copies into a fresh buffer, ... *)
LEMMA TwoCopies ==
    ASSUME NEW C \in Nat, NEW old \in Cells(C), NEW f \in Nat, NEW t \in Nat, NEW rest \in Nat,
           NEW where \in Nat, NEW K \in Nat,
           f + rest <= C, t + rest <= K, where <= t, where <= C
    PROVE  Gapped(Copied(Copied(Blank(K), 0, old, 0, where), t, old, f, rest),
                  old, K, where, f, t, rest)
  <1> DEFINE first == Copied(Blank(K), 0, old, 0, where)
  <1>1. /\ 0 \in Nat /\ Blank(K) \in Cells(K)
        /\ Readable(old, 0, where)
    BY BlankLaw DEF Cells, Readable
  <1>2. CopyOf(first, K, Blank(K), 0, old, 0, where)
    BY Zenon, <1>1, CopiedLaw
  <1> HIDE DEF first
  <1>3. \A i \in 0 .. where - 1 : i \in 0 .. K - 1 /\ 0 <= i /\ i < 0 + where /\ 0 + i - 0 = i
    OBVIOUS
  <1>4. first \in Cells(K) /\ \A i \in 0 .. where - 1 : first[i] = old[i]
    BY Zenon, <1>2, <1>3 DEF CopyOf
  <1> QED
    BY Zenon, <1>4, OneCopy DEF first

(* ... and so does editResize, when there is nothing behind the gap. *)
LEMMA OneResize ==
    ASSUME NEW C \in Nat, NEW old \in Cells(C), NEW f \in Nat, NEW t \in Nat,
           NEW where \in Nat, NEW K \in Nat, where <= C, where <= K
    PROVE  Gapped(Resized(old, K), old, K, where, f, t, 0)
  <1>1. /\ Resized(old, K) \in Cells(K)
        /\ \A i \in 0 .. K - 1 : i < C => Resized(old, K)[i] = old[i]
    BY ZenonT(30), ResizedLaw
  <1>2. \A i \in 0 .. where - 1 : i \in 0 .. K - 1 /\ i < C
    OBVIOUS
  <1>3. \A i \in t .. t + 0 - 1 : FALSE
    OBVIOUS
  <1> QED
    BY Zenon, <1>1, <1>2, <1>3 DEF Gapped

(* Whichever way _grow or _shrink finds storage, it has room for the items *)
(* and the gap, and the items on both sides are where they should be.      *)
LEMMA MovedLaw ==
    ASSUME NEW p \in Vectors, NEW C \in Nat, NEW old \in Cells(C), Array(p) = old,
           NEW N \in Nat, mCount[p] = N, N <= C,
           NEW where \in Nat, NEW f \in Nat, NEW t \in Nat, where <= f, where <= t, f <= N,
           NEW plan, plan.how \in {"edit", "resize", "fresh"},
           plan.how = "edit" => t + (N - f) <= C,
           plan.how = "resize" => f = N,
           plan.how # "edit" => plan.capacity \in Nat /\ t + (N - f) <= plan.capacity
    PROVE  \E K \in Nat : /\ t + (N - f) <= K
                          /\ Gapped(Moved(p, plan, where, f, t), old, K, where, f, t, N - f)
  <1>1. N - f \in Nat /\ f + (N - f) <= C /\ where <= C
    OBVIOUS
  <1>2. CASE plan.how = "edit"
    <2>1. Moved(p, plan, where, f, t) = Copied(old, t, old, f, N - f)
      BY <1>2 DEF Moved
    <2>2. Gapped(Copied(old, t, old, f, N - f), old, C, where, f, t, N - f)
      BY <1>1, <1>2, OneCopy
    <2> QED
      BY <1>2, <2>1, <2>2
  <1>3. CASE plan.how = "resize"
    <2>1. Moved(p, plan, where, f, t) = Resized(old, plan.capacity) /\ N - f = 0
      BY <1>3 DEF Moved
    <2>2. plan.capacity \in Nat /\ where <= plan.capacity
      BY <1>3
    <2>3. Gapped(Resized(old, plan.capacity), old, plan.capacity, where, f, t, 0)
      BY <1>1, <2>2, OneResize
    <2> QED
      BY <1>3, <2>1, <2>2, <2>3
  <1>4. CASE plan.how = "fresh"
    <2> DEFINE K == plan.capacity
    <2>1. Moved(p, plan, where, f, t) =
            Copied(Copied(Blank(K), 0, old, 0, where), t, old, f, N - f)
      BY <1>4 DEF Moved
    <2>2. K \in Nat /\ t + (N - f) <= K
      BY <1>4
    <2> HIDE DEF K
    <2>3. Gapped(Copied(Copied(Blank(K), 0, old, 0, where), t, old, f, N - f),
                 old, K, where, f, t, N - f)
      BY <1>1, <2>2, TwoCopies
    <2> QED
      BY <1>4, <2>1, <2>2, <2>3
  <1> QED
    BY <1>2, <1>3, <1>4

(* _grow edits only where there is room, resizes only at the end, and a    *)
(* new capacity is enough for all items.                                   *)
LEMMA GrowPlanLaw ==
    ASSUME NEW p \in Vectors, NEW C \in Nat, Capacity(Array(p)) = C,
           NEW N \in Nat, mCount[p] = N, N <= C, NEW where \in 0 .. N, NEW n \in Nat \ {0}
    PROVE  LET plan == GrowPlan(p, where, n)
           IN  /\ plan.how \in {"edit", "resize", "fresh"}
               /\ plan.how = "edit" => N + n <= C
               /\ plan.how = "resize" => where = N /\ mStorage[p] # None
               /\ plan.how # "edit" => plan.capacity \in Nat /\ N + n <= plan.capacity
  <1> DEFINE size == N + n
             cap == MaxOf(kMinVectorCapacity, size + size \div 2 + 1)
  <1>1. size \in Nat /\ size \div 2 \in Nat
    OBVIOUS
  <1>2. cap \in Nat /\ size <= cap
    <2> HIDE DEF size
    <2> QED
      BY <1>1, VectorAssumption DEF MaxOf
  <1>3. GrowPlan(p, where, n) =
            IF C >= size THEN Plan("edit", C)
            ELSE Plan(IF mStorage[p] # None /\ where = N /\ trivial THEN "resize" ELSE "fresh", cap)
    BY Zenon DEF GrowPlan
  <1> HIDE DEF size, cap
  <1>4. CASE C >= size
    <2>1. GrowPlan(p, where, n) = [how |-> "edit", capacity |-> C]
      BY Zenon, <1>3, <1>4 DEF Plan
    <2> QED
      BY <1>1, <1>4, <2>1 DEF size
  <1>5. CASE ~(C >= size) /\ mStorage[p] # None /\ where = N /\ trivial
    <2>1. GrowPlan(p, where, n) = [how |-> "resize", capacity |-> cap]
      BY Zenon, <1>3, <1>5 DEF Plan
    <2> QED
      BY <1>2, <1>5, <2>1 DEF size
  <1>6. CASE ~(C >= size) /\ ~(mStorage[p] # None /\ where = N /\ trivial)
    <2>1. GrowPlan(p, where, n) = [how |-> "fresh", capacity |-> cap]
      BY Zenon, <1>3, <1>6 DEF Plan
    <2> QED
      BY <1>2, <2>1 DEF size
  <1> QED
    BY Zenon, <1>4, <1>5, <1>6

(* _shrink resizes only when it removes the last items, and the new        *)
(* capacity is enough for those that stay.                                 *)
LEMMA ShrinkPlanLaw ==
    ASSUME NEW p \in Vectors, NEW C \in Nat, Capacity(Array(p)) = C,
           NEW N \in Nat, mCount[p] = N, N <= C, NEW where \in 0 .. N, NEW n \in 0 .. N - where
    PROVE  LET plan == ShrinkPlan(p, where, n)
           IN  /\ plan.how \in {"edit", "resize", "fresh"}
               /\ plan.how = "resize" => where + n = N
               /\ plan.how # "edit" => plan.capacity \in Nat /\ N - n <= plan.capacity
  <1> DEFINE size == N - n
             cap == MaxOf(kMinVectorCapacity, size * 2)
  <1>1. size \in Nat
    OBVIOUS
  <1>2. cap \in Nat /\ size <= cap
    <2> HIDE DEF size
    <2> QED
      BY <1>1, VectorAssumption DEF MaxOf
  <1>3. ShrinkPlan(p, where, n) =
            IF size >= C \div 2 THEN Plan("edit", C)
            ELSE Plan(IF where = size /\ trivial THEN "resize" ELSE "fresh", cap)
    BY Zenon DEF ShrinkPlan
  <1> HIDE DEF size, cap
  <1>4. CASE size >= C \div 2
    <2>1. ShrinkPlan(p, where, n) = [how |-> "edit", capacity |-> C]
      BY Zenon, <1>3, <1>4 DEF Plan
    <2> QED
      BY <2>1
  <1>5. CASE ~(size >= C \div 2) /\ where = size /\ trivial
    <2>1. ShrinkPlan(p, where, n) = [how |-> "resize", capacity |-> cap]
      BY Zenon, <1>3, <1>5 DEF Plan
    <2> QED
      BY <1>2, <1>5, <2>1 DEF size
  <1>6. CASE ~(size >= C \div 2) /\ ~(where = size /\ trivial)
    <2>1. ShrinkPlan(p, where, n) = [how |-> "fresh", capacity |-> cap]
      BY Zenon, <1>3, <1>6 DEF Plan
    <2> QED
      BY <1>2, <2>1 DEF size
  <1> QED
    BY Zenon, <1>4, <1>5, <1>6

\* What an insertion makes of the cells is what it makes of the items.
LEMMA InsertedLaw ==
    ASSUME NEW C \in Nat, NEW old \in Cells(C), NEW w \in Seq(VecItems), Begins(old, w),
           NEW where \in 0 .. Len(w), NEW n \in Nat \ {0}, NEW items \in [1 .. n -> VecItems],
           NEW K \in Nat, Len(w) + n <= K, NEW gap,
           Gapped(gap, old, K, where, where, where + n, Len(w) - where)
    PROVE  LET arg == [i \in 0 .. Len(items) - 1 |-> items[i + 1]]
               cs == Copied(gap, where, arg, 0, Len(items))
               v == SubSeq(w, 1, where) \o items \o SubSeq(w, where + 1, Len(w))
           IN  /\ cs \in CellArrays /\ v \in Seq(VecItems) /\ Len(v) = Len(w) + n
               /\ Begins(cs, v)
  <1> DEFINE arg == [i \in 0 .. Len(items) - 1 |-> items[i + 1]]
             cs == Copied(gap, where, arg, 0, Len(items))
             v == SubSeq(w, 1, where) \o items \o SubSeq(w, where + 1, Len(w))
             N == Len(w)
  <1>1. N \in Nat /\ N <= C /\ \A i \in 0 .. N - 1 : old[i] = w[i + 1]
    BY Zenon, BeginsLaw
  <1>2. items \in Seq(VecItems) /\ Len(items) = n
    OBVIOUS
  <1>3. where \in Nat /\ where <= where /\ where <= Len(w)
    BY <1>1
  <1>4. /\ v \in Seq(VecItems) /\ Len(v) = where + Len(items) + (Len(w) - where)
        /\ \A i \in 1 .. where : v[i] = w[i]
        /\ \A i \in 1 .. Len(items) : v[where + i] = items[i]
        /\ \A i \in 1 .. Len(w) - where : v[where + Len(items) + i] = w[where + i]
    <2>1. SplicedOf(v, w, where, items, where)
      BY Zenon, <1>2, <1>3, SplicedLaw
    <2> HIDE DEF v
    <2> QED
      BY Zenon, <2>1 DEF SplicedOf
  <1>5. /\ DOMAIN arg = 0 .. n - 1 /\ \A i \in 0 .. n - 1 : arg[i] = items[i + 1]
        /\ Readable(arg, 0, n)
    BY <1>2 DEF Readable
  <1>6. cs = Copied(gap, where, arg, 0, n)
    BY Zenon, <1>2
  <1> HIDE DEF arg, cs, v, N
  <1>7. /\ gap \in Cells(K)
        /\ \A i \in 0 .. where - 1 : gap[i] = old[i]
        /\ \A i \in where + n .. (where + n) + (Len(w) - where) - 1 : gap[i] = old[where + i - (where + n)]
    BY Zenon DEF Gapped
  <1>8. CopyOf(cs, K, gap, where, arg, 0, n)
    <2>1. 0 \in Nat /\ n \in Nat
      OBVIOUS
    <2> QED
      BY Zenon, <1>3, <1>5, <1>6, <1>7, <2>1, CopiedLaw
  <1>9. cs \in Cells(K) /\ cs \in CellArrays /\ DOMAIN cs = 0 .. K - 1
    BY Zenon, <1>8, CellsAre DEF CopyOf
  <1>10. Len(v) = N + n
    BY <1>1, <1>2, <1>3, <1>4 DEF N
  <1>11. ASSUME NEW i \in 1 .. N + n PROVE cs[i - 1] = v[i]
    <2> DEFINE k == i - 1
    <2>1. k \in 0 .. K - 1 /\ k + 1 = i
      BY <1>1 DEF N
    <2>2. cs[k] = IF where <= k /\ k < where + n THEN arg[0 + k - where] ELSE gap[k]
      BY Zenon, <1>8, <2>1 DEF CopyOf
    <2>3. CASE k < where
      <3>1. cs[k] = gap[k] /\ gap[k] = old[k] /\ old[k] = w[k + 1]
        <4>1. ~(where <= k) /\ k \in 0 .. where - 1 /\ k \in 0 .. N - 1
          BY <1>3, <2>1, <2>3 DEF N
        <4> QED
          BY Zenon, <1>1, <1>7, <2>2, <4>1
      <3>2. i \in 1 .. where
        BY <1>3, <2>1, <2>3
      <3> QED
        BY Zenon, <1>4, <2>1, <3>1, <3>2
    <2>4. CASE where <= k /\ k < where + n
      <3> DEFINE x == k - where
      <3>1. /\ 0 + k - where = x /\ x \in 0 .. n - 1 /\ x + 1 \in 1 .. n
            /\ where + (x + 1) = i
        BY <1>3, <2>1, <2>4
      <3>2. cs[k] = arg[x] /\ arg[x] = items[x + 1]
        BY Zenon, <1>5, <2>2, <2>4, <3>1
      <3>3. v[where + (x + 1)] = items[x + 1]
        BY Zenon, <1>2, <1>4, <3>1
      <3> QED
        BY Zenon, <2>1, <3>1, <3>2, <3>3
    <2>5. CASE where + n <= k
      <3> DEFINE x == k - (where + n)
      <3>1. /\ k \in where + n .. (where + n) + (Len(w) - where) - 1
            /\ where + k - (where + n) = where + x
            /\ where + x \in 0 .. N - 1
            /\ x + 1 \in 1 .. Len(w) - where
            /\ where + n + (x + 1) = i
            /\ (where + x) + 1 = where + (x + 1)
            /\ ~(k < where + n)
        BY <1>1, <1>3, <2>1, <2>5 DEF N
      <3>2. cs[k] = gap[k] /\ gap[k] = old[where + x] /\ old[where + x] = w[where + (x + 1)]
        BY Zenon, <1>1, <1>7, <2>2, <3>1
      <3>3. v[where + n + (x + 1)] = w[where + (x + 1)]
        BY Zenon, <1>2, <1>4, <3>1
      <3> QED
        BY Zenon, <2>1, <3>1, <3>2, <3>3
    <2> QED
      BY <1>3, <2>1, <2>3, <2>4, <2>5
  <1>12. Begins(cs, v)
    <2>1. \A i \in 1 .. N + n : i - 1 \in 0 .. K - 1
      BY <1>1 DEF N
    <2> QED
      BY Zenon, <1>9, <1>10, <1>11, <2>1 DEF Begins
  <1> QED
    BY Zenon, <1>4, <1>9, <1>10, <1>12 DEF cs, arg, v, N

(* insertArrayAt makes of a vector's array what it should make of its      *)
(* items.                                                                  *)
LEMMA GrownLaw ==
    ASSUME NEW p \in Vectors, Array(p) \in CellArrays, NEW w \in Seq(VecItems),
           mCount[p] = Len(w), Begins(Array(p), w),
           NEW where \in 0 .. Len(w), NEW n \in Nat \ {0}, NEW items \in [1 .. n -> VecItems]
    PROVE  LET plan == GrowPlan(p, where, n)
               cs == Grown(p, plan, where, items)
               v == SubSeq(w, 1, where) \o items \o SubSeq(w, where + 1, Len(w))
           IN  /\ cs \in CellArrays /\ v \in Seq(VecItems) /\ Len(v) = Len(w) + n
               /\ Begins(cs, v)
               /\ plan.how # "fresh" => mStorage[p] # None
  <1> DEFINE plan == GrowPlan(p, where, n)
             old == Array(p)
             C == Capacity(old)
             N == Len(w)
             gap == Moved(p, plan, where, where, where + n)
  <1>1. C \in Nat /\ old \in Cells(C) /\ DOMAIN old = 0 .. C - 1
    BY Zenon, CellsLaw
  <1>2. N \in Nat /\ N <= C
    <2> HIDE DEF C, old
    <2> QED
      BY Zenon, <1>1, BeginsLaw DEF old
  <1>3. Len(items) = n
    OBVIOUS
  <1>4. /\ plan.how \in {"edit", "resize", "fresh"}
        /\ plan.how = "edit" => N + n <= C
        /\ plan.how = "resize" => where = N /\ mStorage[p] # None
        /\ plan.how # "edit" => plan.capacity \in Nat /\ N + n <= plan.capacity
    BY Zenon, <1>1, <1>2, GrowPlanLaw
  <1>5. /\ where \in Nat /\ where + n \in Nat /\ where <= where /\ where <= where + n
        /\ where <= N /\ (where + n) + (N - where) = N + n
    BY <1>2
  <1>6. PICK K \in Nat : N + n <= K /\ Gapped(gap, old, K, where, where, where + n, N - where)
    <2>1. Array(p) = old /\ mCount[p] = N
      OBVIOUS
    <2> HIDE DEF plan, old, C, N
    <2>2. /\ plan.how = "edit" => (where + n) + (N - where) <= C
          /\ plan.how = "resize" => where = N
          /\ plan.how # "edit" =>
               plan.capacity \in Nat /\ (where + n) + (N - where) <= plan.capacity
      BY Zenon, <1>4, <1>5
    <2>3. \E K \in Nat : /\ (where + n) + (N - where) <= K
                         /\ Gapped(gap, old, K, where, where, where + n, N - where)
      BY <1>1, <1>2, <1>4, <1>5, <2>1, <2>2, MovedLaw
    <2> QED
      BY Zenon, <1>5, <2>3
  <1>7. plan.how # "fresh" => mStorage[p] # None
    <2>1. CASE plan.how = "edit"
      <3>1. C > 0
        BY <1>1, <1>2, <1>4, <2>1
      <3>2. ASSUME mStorage[p] = None PROVE FALSE
        <4>1. old = Blank(0)
          BY Zenon, <3>2 DEF Array
        <4>2. Blank(0) \in Cells(0) /\ 0 \in Nat
          BY BlankLaw
        <4>3. C = 0
          BY Zenon, <4>1, <4>2, CellsAre
        <4> QED
          BY <3>1, <4>3
      <3> QED
        BY <3>2
    <2> QED
      BY Zenon, <1>4, <2>1
  <1>8. LET arg == [i \in 0 .. Len(items) - 1 |-> items[i + 1]]
            cs == Copied(gap, where, arg, 0, Len(items))
            v == SubSeq(w, 1, where) \o items \o SubSeq(w, where + 1, Len(w))
        IN  /\ cs \in CellArrays /\ v \in Seq(VecItems) /\ Len(v) = Len(w) + n
            /\ Begins(cs, v)
    <2> HIDE DEF gap, C
    <2> QED
      BY Zenon, <1>1, <1>6, InsertedLaw
  <1>9. Grown(p, plan, where, items) =
            LET arg == [i \in 0 .. Len(items) - 1 |-> items[i + 1]]
            IN  Copied(gap, where, arg, 0, Len(items))
    BY Zenon, <1>3 DEF Grown
  <1> QED
    BY Zenon, <1>7, <1>8, <1>9

(* What a removal makes of the cells is what it makes of the items. *)
LEMMA RemovedLaw ==
    ASSUME NEW C \in Nat, NEW old \in Cells(C), NEW w \in Seq(VecItems), Begins(old, w),
           NEW where \in 0 .. Len(w), NEW n \in 0 .. Len(w) - where,
           NEW K \in Nat, Len(w) - n <= K, NEW gap,
           Gapped(gap, old, K, where, where + n, where, Len(w) - (where + n))
    PROVE  LET v == SubSeq(w, 1, where) \o SubSeq(w, where + n + 1, Len(w))
           IN  /\ gap \in CellArrays /\ v \in Seq(VecItems) /\ Len(v) = Len(w) - n
               /\ Begins(gap, v)
  <1> DEFINE a == SubSeq(w, 1, where)
             b == SubSeq(w, where + n + 1, Len(w))
             v == a \o b
             N == Len(w)
  <1>1. N \in Nat /\ N <= C /\ \A i \in 0 .. N - 1 : old[i] = w[i + 1]
    BY Zenon, BeginsLaw
  <1>2. \A i \in 1 .. Len(w) : w[i] \in VecItems
    OBVIOUS
  <1>3. /\ a \in Seq(VecItems) /\ Len(a) = where /\ \A i \in 1 .. where : a[i] = w[i]
    BY <1>1, <1>2
  <1>4. /\ b \in Seq(VecItems) /\ Len(b) = N - (where + n)
        /\ \A i \in 1 .. N - (where + n) : b[i] = w[where + n + i]
    BY <1>1, <1>2
  <1>5. a \in Seq(VecItems) /\ b \in Seq(VecItems)
    BY <1>3, <1>4
  <1> HIDE DEF a, b
  <1>6. /\ v \in Seq(VecItems) /\ Len(v) = Len(a) + Len(b)
        /\ \A i \in 1 .. Len(a) : v[i] = a[i]
        /\ \A i \in 1 .. Len(b) : v[Len(a) + i] = b[i]
    BY ONLY <1>5
  <1> HIDE DEF v, N
  <1>7. Len(v) = N - n /\ Len(w) = N
    BY <1>1, <1>3, <1>4, <1>6 DEF N
  <1>8. /\ gap \in Cells(K)
        /\ \A i \in 0 .. where - 1 : gap[i] = old[i]
        /\ \A i \in where .. where + (N - (where + n)) - 1 : gap[i] = old[(where + n) + i - where]
    BY Zenon, <1>7 DEF Gapped
  <1>9. gap \in CellArrays /\ DOMAIN gap = 0 .. K - 1
    BY Zenon, <1>8, CellsAre
  <1>10. ASSUME NEW i \in 1 .. N - n PROVE gap[i - 1] = v[i] /\ i - 1 \in 0 .. K - 1
    <2> DEFINE k == i - 1
    <2>1. k \in 0 .. K - 1 /\ k + 1 = i
      BY <1>1, <1>7
    <2>2. CASE k < where
      <3>1. k \in 0 .. where - 1 /\ k \in 0 .. N - 1 /\ i \in 1 .. where
        BY <1>1, <1>7, <2>1, <2>2
      <3>2. gap[k] = old[k] /\ old[k] = w[k + 1]
        BY Zenon, <1>1, <1>8, <3>1
      <3>3. v[i] = w[i]
        BY Zenon, <1>3, <1>6, <3>1
      <3> QED
        BY Zenon, <2>1, <3>2, <3>3
    <2>3. CASE where <= k
      <3> DEFINE x == k - where
      <3>1. /\ k \in where .. where + (N - (where + n)) - 1
            /\ (where + n) + k - where = where + n + x
            /\ where + n + x \in 0 .. N - 1
            /\ x + 1 \in 1 .. N - (where + n)
            /\ where + (x + 1) = i
            /\ (where + n + x) + 1 = where + n + (x + 1)
        BY <1>1, <1>7, <2>1, <2>3
      <3>2. gap[k] = old[where + n + x] /\ old[where + n + x] = w[where + n + (x + 1)]
        BY Zenon, <1>1, <1>8, <3>1
      <3>3. v[where + (x + 1)] = b[x + 1] /\ b[x + 1] = w[where + n + (x + 1)]
        BY Zenon, <1>3, <1>4, <1>6, <3>1
      <3> QED
        BY Zenon, <2>1, <3>1, <3>2, <3>3
    <2> QED
      BY <2>1, <2>2, <2>3
  <1>11. Begins(gap, v)
    BY Zenon, <1>7, <1>9, <1>10 DEF Begins
  <1> QED
    BY Zenon, <1>6, <1>7, <1>9, <1>11 DEF a, b, v

(* removeItemsAt makes of a vector's array what it should make of its      *)
(* items.                                                                  *)
LEMMA ShrunkLaw ==
    ASSUME NEW p \in Vectors, Array(p) \in CellArrays, NEW w \in Seq(VecItems),
           mCount[p] = Len(w), Begins(Array(p), w),
           NEW where \in 0 .. Len(w), NEW n \in 0 .. Len(w) - where
    PROVE  LET plan == ShrinkPlan(p, where, n)
               cs == Shrunk(p, plan, where, n)
               v == SubSeq(w, 1, where) \o SubSeq(w, where + n + 1, Len(w))
           IN  /\ cs \in CellArrays /\ v \in Seq(VecItems) /\ Len(v) = Len(w) - n
               /\ Begins(cs, v)
  <1> DEFINE plan == ShrinkPlan(p, where, n)
             old == Array(p)
             C == Capacity(old)
             N == Len(w)
             gap == Moved(p, plan, where, where + n, where)
  <1>1. C \in Nat /\ old \in Cells(C) /\ DOMAIN old = 0 .. C - 1
    BY Zenon, CellsLaw
  <1>2. N \in Nat /\ N <= C
    <2> HIDE DEF C, old
    <2> QED
      BY Zenon, <1>1, BeginsLaw DEF old
  <1>3. /\ plan.how \in {"edit", "resize", "fresh"}
        /\ plan.how = "resize" => where + n = N
        /\ plan.how # "edit" => plan.capacity \in Nat /\ N - n <= plan.capacity
    BY Zenon, <1>1, <1>2, ShrinkPlanLaw
  <1>4. /\ where \in Nat /\ where + n \in Nat /\ where <= where + n /\ where <= where
        /\ where + n <= N /\ where + (N - (where + n)) = N - n /\ N - n <= C
    BY <1>1, <1>2
  <1>5. PICK K \in Nat : N - n <= K /\ Gapped(gap, old, K, where, where + n, where, N - (where + n))
    <2>1. Array(p) = old /\ mCount[p] = N
      OBVIOUS
    <2> HIDE DEF plan, old, C, N
    <2>2. /\ plan.how = "edit" => where + (N - (where + n)) <= C
          /\ plan.how # "edit" =>
               plan.capacity \in Nat /\ where + (N - (where + n)) <= plan.capacity
      BY Zenon, <1>3, <1>4
    <2>3. \E K \in Nat : /\ where + (N - (where + n)) <= K
                         /\ Gapped(gap, old, K, where, where + n, where, N - (where + n))
      <3> DEFINE f == where + n
      <3>1. /\ where \in Nat /\ f \in Nat /\ where <= f /\ where <= where /\ f <= N
            /\ plan.how \in {"edit", "resize", "fresh"} /\ (plan.how = "resize" => f = N)
            /\ plan.how = "edit" => where + (N - f) <= C
            /\ plan.how # "edit" =>
                 plan.capacity \in Nat /\ where + (N - f) <= plan.capacity
        BY Zenon, <1>3, <1>4, <2>2
      <3> HIDE DEF f
      <3>2. \E K \in Nat :
                /\ where + (N - f) <= K
                /\ Gapped(Moved(p, plan, where, f, where), old, K, where, f, where, N - f)
        BY <1>1, <1>2, <2>1, <3>1, MovedLaw
      <3> QED
        BY Zenon, <3>2 DEF f
    <2> QED
      BY Zenon, <1>4, <2>3
  <1>6. LET v == SubSeq(w, 1, where) \o SubSeq(w, where + n + 1, Len(w))
        IN  /\ gap \in CellArrays /\ v \in Seq(VecItems) /\ Len(v) = Len(w) - n
            /\ Begins(gap, v)
    <2> HIDE DEF gap, C
    <2> QED
      BY Zenon, <1>1, <1>5, RemovedLaw
  <1> QED
    BY Zenon, <1>6 DEF Shrunk

-----------------------------------------------------------------------------
(* Counting the vectors that hold a buffer.                                *)

(* Finitely many vectors hold a buffer. *)
LEMMA HoldersLaw ==
    ASSUME NEW b
    PROVE  /\ IsFiniteSet(VecHolders(b))
           /\ \A x : x \in VecHolders(b) <=>
                x \in Vectors /\ (mStorage[x] = b \/ vecNew[x].storage = b)
  <1>1. VecHolders(b) \in SUBSET Vectors
    BY Zenon DEF VecHolders
  <1>2. IsFiniteSet(VecHolders(b))
    BY Zenon, <1>1, FS_Subset, VectorAssumption
  <1> QED
    BY Zenon, <1>2 DEF VecHolders

\* A buffer that nobody counts is held by nobody, one counted once by one vector.
LEMMA CountedLaw ==
    ASSUME VecRefs, NEW b \in Buffers
    PROVE  /\ mRefs[b] = 0 => VecHolders(b) = {}
           /\ mRefs[b] = 1 => \A x, y \in VecHolders(b) : x = y
           /\ \A x \in VecHolders(b) : mRefs[b] # 0
  <1>1. IsFiniteSet(VecHolders(b)) /\ mRefs[b] = Cardinality(VecHolders(b))
    BY Zenon, HoldersLaw DEF VecRefs
  <1>2. Cardinality(VecHolders(b)) = 0 <=> VecHolders(b) = {}
    BY Zenon, <1>1, FS_EmptySet
  <1>3. Cardinality(VecHolders(b)) = 1 <=> \E x : VecHolders(b) = {x}
    BY Zenon, <1>1, FS_Singleton
  <1> QED
    BY <1>1, <1>2, <1>3

\* A step that makes p one more holder of b, or one less.
LEMMA HolderMore ==
    ASSUME VecRefs, NEW b \in Buffers, NEW p, p \notin VecHolders(b),
           mRefs \in [Buffers -> Nat],
           mRefs' = [mRefs EXCEPT ![b] = @ + 1],
           VecHolders(b)' = VecHolders(b) \union {p},
           \A a \in Buffers \ {b} : VecHolders(a)' = VecHolders(a)
    PROVE  VecRefs' /\ mRefs' \in [Buffers -> Nat]
  <1>1. Cardinality(VecHolders(b) \union {p}) = Cardinality(VecHolders(b)) + 1
    BY Zenon, HoldersLaw, FS_AddElement
  <1>2. mRefs'[b] = Cardinality(VecHolders(b)')
    BY <1>1 DEF VecRefs
  <1>3. \A a \in Buffers \ {b} : mRefs'[a] = Cardinality(VecHolders(a)')
    BY DEF VecRefs
  <1>4. VecRefs'
    BY Zenon, <1>2, <1>3 DEF VecRefs
  <1> QED
    BY <1>4

(* The other way round. *)
LEMMA HolderLess ==
    ASSUME VecRefs, NEW b \in Buffers, NEW p \in VecHolders(b),
           mRefs \in [Buffers -> Nat],
           mRefs' = [mRefs EXCEPT ![b] = @ - 1],
           VecHolders(b)' = VecHolders(b) \ {p},
           \A a \in Buffers \ {b} : VecHolders(a)' = VecHolders(a)
    PROVE  VecRefs' /\ mRefs' \in [Buffers -> Nat]
  <1>1. Cardinality(VecHolders(b) \ {p}) = Cardinality(VecHolders(b)) - 1
    BY Zenon, HoldersLaw, FS_RemoveElement
  <1>2. mRefs[b] # 0
    BY Zenon, CountedLaw
  <1>3. mRefs'[b] = Cardinality(VecHolders(b)')
    BY <1>1 DEF VecRefs
  <1>4. \A a \in Buffers \ {b} : mRefs'[a] = Cardinality(VecHolders(a)')
    BY DEF VecRefs
  <1>5. VecRefs'
    BY Zenon, <1>3, <1>4 DEF VecRefs
  <1> QED
    BY <1>2, <1>5

(* A vector, a buffer and NULL are different things. *)
LEMMA Apart == None \notin Buffers /\ None \notin Vectors /\ \A p \in Vectors : p \notin Buffers
  BY VectorAssumption DEF None

\* A step of p leaves the other vectors alone; S are buffers that none of them holds.
Aside(p, S) ==
    \A q \in Vectors \ {p} :
        /\ mStorage'[q] = mStorage[q] /\ mCount'[q] = mCount[q] /\ vecAt'[q] = vecAt[q]
        /\ vecNew'[q] = vecNew[q] /\ wanted'[q] = wanted[q]
        /\ mStorage[q] \notin S /\ vecNew[q].storage \notin S

(* What a step of p does to buffers no other vector holds leaves the       *)
(* others what they hold, ...                                              *)
LEMMA OthersHeld ==
    ASSUME VecIInv, NEW p \in Vectors, Unread(p), NEW S, Aside(p, S),
           \A a \in Buffers \ S : cells'[a] = cells[a], NEW q \in Vectors \ {p}
    PROVE  HeldBy(q)'
  <1>1. HeldBy(q)
    BY Zenon DEF VecIInv, VecHeld
  <1>2. /\ mStorage'[q] = mStorage[q] /\ mCount'[q] = mCount[q] /\ vecAt'[q] = vecAt[q]
        /\ vecNew'[q] = vecNew[q] /\ wanted'[q] = wanted[q]
        /\ mStorage[q] \notin S /\ vecNew[q].storage \notin S
    BY Zenon DEF Aside
  <1>3. vecNew[q].storage # p
    BY Zenon DEF Unread
  <1>4. vecNew[q].storage \in Vectors => wanted'[vecNew[q].storage] = wanted[vecNew[q].storage]
    BY Zenon, <1>3 DEF Aside
  <1>5. mStorage[q] \in Buffers => cells'[mStorage[q]] = cells[mStorage[q]]
    BY Zenon, <1>2
  <1>6. vecNew[q].storage \in Buffers => cells'[vecNew[q].storage] = cells[vecNew[q].storage]
    BY Zenon, <1>2
  <1> QED
    BY Zenon, <1>1, <1>2, <1>4, <1>5, <1>6 DEF HeldBy, Holds

(* ... and where they are. *)
LEMMA OthersPlaced ==
    ASSUME VecIInv, NEW p \in Vectors, Unread(p), NEW S, Aside(p, S), NEW q \in Vectors \ {p}
    PROVE  PlacedAt(q)'
  <1>1. /\ mStorage'[q] = mStorage[q] /\ vecAt'[q] = vecAt[q] /\ vecNew'[q] = vecNew[q]
    BY Zenon DEF Aside
  <1>2. vecNew[q].storage # p
    BY Zenon DEF Unread
  <1>3. vecNew[q].storage \in Vectors =>
            /\ vecAt'[vecNew[q].storage] = vecAt[vecNew[q].storage]
            /\ mStorage'[vecNew[q].storage] = mStorage[vecNew[q].storage]
    BY Zenon, <1>2 DEF Aside
  <1>4. PlacedAt(q)
    BY Zenon DEF VecIInv, VecPlaced
  <1> QED
    BY <1>1, <1>3, <1>4 DEF PlacedAt

\* A call that is done: its vector has its storage and waits for nothing.
LEMMA FinishLaw ==
    ASSUME VecTypeOK, NEW p \in Vectors, NEW storage \in Buffers \union {None},
           NEW count \in Nat, Finish(p, storage, count)
    PROVE  /\ mStorage' \in [Vectors -> Buffers \union {None}]
           /\ mCount' \in [Vectors -> Nat]
           /\ vecAt' \in [Vectors -> {"idle", "release", "dec", "acquire"}]
           /\ vecNew' \in [Vectors -> Coming]
           /\ \A q \in Vectors \ {p} :
               /\ mStorage'[q] = mStorage[q] /\ mCount'[q] = mCount[q]
               /\ vecAt'[q] = vecAt[q] /\ vecNew'[q] = vecNew[q]
           /\ mStorage'[p] = storage /\ mCount'[p] = count
           /\ vecAt'[p] = "idle" /\ vecNew'[p] = Nothing
  <1>1. Nothing \in Coming
    BY DEF Nothing, Coming
  <1>2. /\ mStorage' \in [Vectors -> Buffers \union {None}] /\ mStorage'[p] = storage
        /\ \A q \in Vectors \ {p} : mStorage'[q] = mStorage[q]
    BY DEF VecTypeOK, Finish
  <1>3. /\ mCount' \in [Vectors -> Nat] /\ mCount'[p] = count
        /\ \A q \in Vectors \ {p} : mCount'[q] = mCount[q]
    BY DEF VecTypeOK, Finish
  <1>4. /\ vecAt' \in [Vectors -> {"idle", "release", "dec", "acquire"}] /\ vecAt'[p] = "idle"
        /\ \A q \in Vectors \ {p} : vecAt'[q] = vecAt[q]
    BY DEF VecTypeOK, Finish
  <1>5. /\ vecNew' \in [Vectors -> Coming] /\ vecNew'[p] = Nothing
        /\ \A q \in Vectors \ {p} : vecNew'[q] = vecNew[q]
    BY <1>1 DEF VecTypeOK, Finish
  <1> QED
    BY Zenon, <1>2, <1>3, <1>4, <1>5

(* A call that allocates: the new buffer is nobody else's. *)
LEMMA AllocKeeps ==
    ASSUME VecIInv, NEW p \in Vectors, Idle(p), Unread(p), NEW cs \in CellArrays,
           NEW w \in Seq(VecItems), Begins(cs, w), Alloc(p, cs, Len(w)),
           wanted' = [wanted EXCEPT ![p] = w], trivial' = trivial
    PROVE  VecIInv'
  <1> DEFINE D == Destroyed(cs, Len(w))
  <1>1. D \in CellArrays /\ Begins(D, w) /\ Len(w) \in Nat
    BY DestroyedLaw
  <1>2. PICK b \in Buffers :
            /\ mRefs[b] = 0
            /\ mRefs' = [mRefs EXCEPT ![b] = 1]
            /\ cells' = [cells EXCEPT ![b] = D]
            /\ IF mStorage[p] = None
                 THEN Finish(p, b, Len(w))
                 ELSE /\ vecAt' = [vecAt EXCEPT ![p] = "release"]
                      /\ vecNew' = [vecNew EXCEPT ![p] = [storage |-> b, count |-> Len(w)]]
                      /\ UNCHANGED <<mStorage, mCount>>
    BY Zenon DEF Alloc
  <1> HIDE DEF D
  <1>3. vecNew[p] = Nothing /\ vecNew[p].storage = None
    BY DEF VecIInv, VecPlaced, PlacedAt, Idle, Nothing
  <1>4. VecHolders(b) = {} /\ \A q \in Vectors : mStorage[q] # b /\ vecNew[q].storage # b
    <2>1. VecHolders(b) = {}
      BY Zenon, <1>2, CountedLaw DEF VecIInv
    <2> QED
      BY Zenon, <2>1, HoldersLaw
  <1>5. b # None /\ b \notin Vectors
    BY Zenon, Apart
  <1>6. /\ cells' \in [Buffers -> CellArrays] /\ cells'[b] = D
        /\ \A a \in Buffers \ {b} : cells'[a] = cells[a]
    BY <1>1, <1>2 DEF VecIInv, VecTypeOK
  <1>7. /\ wanted' \in [Vectors -> Seq(VecItems)] /\ wanted'[p] = w
        /\ \A q \in Vectors \ {p} : wanted'[q] = wanted[q]
    BY DEF VecIInv, VecTypeOK
  <1>8. mRefs' = [mRefs EXCEPT ![b] = @ + 1]
    BY <1>2 DEF VecIInv, VecTypeOK
  <1>9. /\ mStorage' \in [Vectors -> Buffers \union {None}]
        /\ mCount' \in [Vectors -> Nat]
        /\ vecAt' \in [Vectors -> {"idle", "release", "dec", "acquire"}]
        /\ vecNew' \in [Vectors -> Coming]
        /\ \A q \in Vectors \ {p} :
            /\ mStorage'[q] = mStorage[q] /\ mCount'[q] = mCount[q]
            /\ vecAt'[q] = vecAt[q] /\ vecNew'[q] = vecNew[q]
        /\ \/ /\ mStorage[p] = None /\ mStorage'[p] = b /\ mCount'[p] = Len(w)
              /\ vecAt'[p] = "idle" /\ vecNew'[p] = Nothing
           \/ /\ mStorage[p] # None /\ mStorage'[p] = mStorage[p] /\ vecAt'[p] = "release"
              /\ vecNew'[p] = [storage |-> b, count |-> Len(w)]
    <2>1. CASE mStorage[p] = None
      <3>1. Finish(p, b, Len(w)) /\ b \in Buffers \union {None} /\ VecTypeOK
        BY Zenon, <1>2, <2>1 DEF VecIInv
      <3> QED
        BY Zenon, <1>1, <2>1, <3>1, FinishLaw
    <2>2. CASE mStorage[p] # None
      <3>1. /\ vecAt' = [vecAt EXCEPT ![p] = "release"]
            /\ vecNew' = [vecNew EXCEPT ![p] = [storage |-> b, count |-> Len(w)]]
            /\ mStorage' = mStorage /\ mCount' = mCount
        BY Zenon, <1>2, <2>2
      <3>2. [storage |-> b, count |-> Len(w)] \in Coming
        BY <1>1 DEF Coming
      <3>3. /\ vecAt' \in [Vectors -> {"idle", "release", "dec", "acquire"}]
            /\ vecAt'[p] = "release" /\ \A q \in Vectors \ {p} : vecAt'[q] = vecAt[q]
        BY <3>1 DEF VecIInv, VecTypeOK
      <3>4. /\ vecNew' \in [Vectors -> Coming]
            /\ vecNew'[p] = [storage |-> b, count |-> Len(w)]
            /\ \A q \in Vectors \ {p} : vecNew'[q] = vecNew[q]
        BY <3>1, <3>2 DEF VecIInv, VecTypeOK
      <3> QED
        BY Zenon, <2>2, <3>1, <3>3, <3>4 DEF VecIInv, VecTypeOK
    <2> QED
      BY <2>1, <2>2
  <1>10. Aside(p, {b})
    BY Zenon, <1>4, <1>7, <1>9 DEF Aside
  <1>11. vecNew'[p].storage \notin Vectors
    BY <1>5, <1>9, Apart DEF Nothing
  <1>12. VecHeld'
    <2>1. HeldBy(p)'
      BY <1>1, <1>5, <1>6, <1>7, <1>9, <1>11 DEF HeldBy, Holds, Nothing
    <2> QED
      BY Zenon, <1>6, <1>10, <2>1, OthersHeld DEF VecHeld
  <1>13. VecPlaced'
    <2>1. mStorage[p] # None => mStorage[p] \in Buffers /\ mStorage[p] # b
      BY <1>4 DEF VecIInv, VecTypeOK
    <2>2. PlacedAt(p)'
      BY <1>9, <1>11, <2>1 DEF PlacedAt
    <2> QED
      BY Zenon, <1>10, <2>2, OthersPlaced DEF VecPlaced
  <1>14. VecRefs' /\ mRefs' \in [Buffers -> Nat]
    <2>1. VecHolders(b)' = VecHolders(b) \union {p}
      BY <1>4, <1>9, <1>10 DEF VecHolders, Aside
    <2>2. \A a \in Buffers \ {b} : VecHolders(a)' = VecHolders(a)
      BY <1>3, <1>9, <1>10, Apart DEF VecHolders, Aside, Nothing
    <2> QED
      BY Zenon, <1>4, <1>8, <2>1, <2>2, HolderMore DEF VecIInv, VecTypeOK
  <1> QED
    BY <1>6, <1>7, <1>9, <1>12, <1>13, <1>14 DEF VecIInv, VecTypeOK

\* A vector that is not in a call holds its items, and so does its array.
LEMMA IdleLaw ==
    ASSUME VecIInv, NEW p \in Vectors, Idle(p)
    PROVE  /\ Array(p) \in CellArrays /\ wanted[p] \in Seq(VecItems)
           /\ mCount[p] = Len(wanted[p]) /\ Begins(Array(p), wanted[p])
           /\ vecNew[p] = Nothing
           /\ mStorage[p] = None => wanted[p] = <<>>
           /\ mStorage[p] # None => mStorage[p] \in Buffers /\ Array(p) = cells[mStorage[p]]
  <1>1. wanted[p] \in Seq(VecItems) /\ mStorage[p] \in Buffers \union {None}
    BY DEF VecIInv, VecTypeOK
  <1>2. Holds(mStorage[p], mCount[p], wanted[p]) /\ vecNew[p] = Nothing
    BY Zenon DEF VecIInv, VecHeld, HeldBy, VecPlaced, PlacedAt, Idle
  <1>3. CASE mStorage[p] = None
    <2>1. Array(p) = Blank(0) /\ Blank(0) \in Cells(0) /\ 0 \in Nat
      BY <1>3, BlankLaw DEF Array
    <2>2. Array(p) \in CellArrays
      BY Zenon, <2>1, CellsAre
    <2>3. wanted[p] = <<>> /\ Begins(Array(p), wanted[p])
      BY <1>2, <1>3 DEF Holds, Begins
    <2> QED
      BY Zenon, <1>1, <1>2, <1>3, <2>2, <2>3 DEF Holds
  <1>4. CASE mStorage[p] # None
    <2>1. mStorage[p] \in Buffers /\ Array(p) = cells[mStorage[p]]
      BY Zenon, <1>1, <1>4 DEF Array
    <2>2. Array(p) \in CellArrays
      BY <2>1 DEF VecIInv, VecTypeOK
    <2> QED
      BY Zenon, <1>1, <1>2, <1>4, <2>1, <2>2 DEF Holds
  <1> QED
    BY <1>3, <1>4

(* A call that changes its vector in place or in a copy: in place only     *)
(* when nobody else holds the buffer (attemptEdit, editResize).            *)
LEMMA ChangeKeeps ==
    ASSUME VecIInv, NEW p \in Vectors, Idle(p), Unread(p), NEW cs \in CellArrays,
           NEW w \in Seq(VecItems), Begins(cs, w), NEW plan, Change(p, plan, cs, Len(w)),
           plan.how # "fresh" => mStorage[p] # None,
           wanted' = [wanted EXCEPT ![p] = w], trivial' = trivial
    PROVE  VecIInv'
  <1>1. CASE Alloc(p, cs, Len(w))
    BY Zenon, <1>1, AllocKeeps
  <1>2. CASE /\ plan.how # "fresh" /\ OnlyOwner(mStorage[p])
             /\ cells' = [cells EXCEPT ![mStorage[p]] = Destroyed(cs, Len(w))]
             /\ Finish(p, mStorage[p], Len(w)) /\ mRefs' = mRefs
    <2> DEFINE b == mStorage[p]
               D == Destroyed(cs, Len(w))
    <2>1. b \in Buffers /\ b # None /\ vecNew[p] = Nothing
      BY Zenon, <1>2, IdleLaw
    <2>2. D \in CellArrays /\ Begins(D, w) /\ Len(w) \in Nat
      BY DestroyedLaw
    <2> HIDE DEF D
    <2>3. \A q \in Vectors \ {p} : mStorage[q] # b /\ vecNew[q].storage # b
      <3>1. p \in VecHolders(b)
        BY Zenon, HoldersLaw
      <3>2. \A x, y \in VecHolders(b) : x = y
        BY Zenon, <1>2, <2>1, CountedLaw DEF VecIInv, OnlyOwner
      <3> QED
        BY Zenon, <3>1, <3>2, HoldersLaw
    <2>4. /\ mStorage' \in [Vectors -> Buffers \union {None}]
          /\ mCount' \in [Vectors -> Nat]
          /\ vecAt' \in [Vectors -> {"idle", "release", "dec", "acquire"}]
          /\ vecNew' \in [Vectors -> Coming]
          /\ \A q \in Vectors \ {p} :
              /\ mStorage'[q] = mStorage[q] /\ mCount'[q] = mCount[q]
              /\ vecAt'[q] = vecAt[q] /\ vecNew'[q] = vecNew[q]
          /\ mStorage'[p] = b /\ mCount'[p] = Len(w)
          /\ vecAt'[p] = "idle" /\ vecNew'[p] = Nothing
      <3>1. Finish(p, b, Len(w)) /\ b \in Buffers \union {None} /\ VecTypeOK
        BY Zenon, <1>2, <2>1 DEF VecIInv
      <3> QED
        BY Zenon, <2>2, <3>1, FinishLaw
    <2>5. /\ cells' \in [Buffers -> CellArrays] /\ cells'[b] = D
          /\ \A a \in Buffers \ {b} : cells'[a] = cells[a]
      BY <1>2, <2>1, <2>2 DEF VecIInv, VecTypeOK, D
    <2>6. /\ wanted' \in [Vectors -> Seq(VecItems)] /\ wanted'[p] = w
          /\ \A q \in Vectors \ {p} : wanted'[q] = wanted[q]
      BY DEF VecIInv, VecTypeOK
    <2> HIDE DEF b
    <2>7. Aside(p, {b})
      BY Zenon, <2>3, <2>4, <2>6 DEF Aside
    <2>8. vecNew'[p].storage \notin Vectors
      BY <2>4, Apart DEF Nothing
    <2>9. VecHeld'
      <3>1. HeldBy(p)'
        BY <2>1, <2>2, <2>4, <2>5, <2>6, <2>8 DEF HeldBy, Holds
      <3> QED
        BY ZenonT(30), <2>5, <2>7, <3>1, OthersHeld DEF VecHeld
    <2>10. VecPlaced'
      <3>1. PlacedAt(p)'
        BY <2>4, <2>8 DEF PlacedAt
      <3> QED
        BY ZenonT(30), <2>7, <3>1, OthersPlaced DEF VecPlaced
    <2>11. VecRefs'
      <3>1. \A q \in Vectors : mStorage'[q] = mStorage[q] /\ vecNew'[q] = vecNew[q]
        BY Zenon, <2>1, <2>4 DEF b
      <3>2. \A a \in Buffers : VecHolders(a)' = VecHolders(a)
        BY Zenon, <3>1 DEF VecHolders
      <3> QED
        BY <1>2, <3>2 DEF VecIInv, VecRefs
    <2> QED
      BY <1>2, <2>4, <2>5, <2>6, <2>9, <2>10, <2>11 DEF VecIInv, VecTypeOK
  <1> QED
    BY Zenon, <1>1, <1>2 DEF Change

(* insertArrayAt keeps the invariant, ... *)
LEMMA InsertArrayAtKeeps ==
    ASSUME VecIInv, NEW p \in Vectors, InsertArrayAt(p)
    PROVE  VecIInv'
  <1>1. Idle(p) /\ Unread(p) /\ trivial' = trivial
    BY Zenon DEF InsertArrayAt
  <1> DEFINE w == wanted[p]
  <1>2. /\ Array(p) \in CellArrays /\ w \in Seq(VecItems)
        /\ mCount[p] = Len(w) /\ Begins(Array(p), w)
    BY Zenon, <1>1, IdleLaw
  <1>3. PICK where \in 0 .. mCount[p], n \in 1 .. MaxItems - mCount[p] :
        \E items \in [1 .. n -> VecItems] :
          LET plan == GrowPlan(p, where, n)
          IN  /\ Change(p, plan, Grown(p, plan, where, items), mCount[p] + n)
              /\ wanted' = [wanted EXCEPT ![p] = SubSeq(@, 1, where) \o items
                                                 \o SubSeq(@, where + 1, Len(@))]
    BY Zenon DEF InsertArrayAt
  <1>4. PICK items \in [1 .. n -> VecItems] :
          LET plan == GrowPlan(p, where, n)
          IN  /\ Change(p, plan, Grown(p, plan, where, items), mCount[p] + n)
              /\ wanted' = [wanted EXCEPT ![p] = SubSeq(@, 1, where) \o items
                                                 \o SubSeq(@, where + 1, Len(@))]
    BY Zenon, <1>3
  <1> DEFINE plan == GrowPlan(p, where, n)
             cs == Grown(p, plan, where, items)
             v == SubSeq(w, 1, where) \o items \o SubSeq(w, where + 1, Len(w))
  <1>5. wanted' = [wanted EXCEPT ![p] = v] /\ Change(p, plan, cs, Len(w) + n)
    BY Zenon, <1>2, <1>4 DEF VecIInv, VecTypeOK
  <1>6. n \in Nat \ {0} /\ where \in 0 .. Len(w)
    BY <1>2, VectorAssumption
  <1>7. /\ cs \in CellArrays /\ v \in Seq(VecItems) /\ Len(v) = Len(w) + n
        /\ Begins(cs, v)
        /\ plan.how # "fresh" => mStorage[p] # None
    <2> HIDE DEF w
    <2> QED
      BY Zenon, <1>2, <1>6, GrownLaw
  <1> HIDE DEF plan, cs, v, w
  <1> QED
    BY Zenon, <1>1, <1>5, <1>7, ChangeKeeps

(* ... removeItemsAt, ... *)
LEMMA RemoveItemsAtKeeps ==
    ASSUME VecIInv, NEW p \in Vectors, RemoveItemsAt(p)
    PROVE  VecIInv'
  <1>1. Idle(p) /\ Unread(p) /\ mStorage[p] # None /\ trivial' = trivial
    BY Zenon DEF RemoveItemsAt
  <1> DEFINE w == wanted[p]
  <1>2. /\ Array(p) \in CellArrays /\ w \in Seq(VecItems)
        /\ mCount[p] = Len(w) /\ Begins(Array(p), w)
    BY Zenon, <1>1, IdleLaw
  <1>3. PICK where \in 0 .. mCount[p] : \E n \in 0 .. mCount[p] - where :
          LET plan == ShrinkPlan(p, where, n)
          IN  /\ Change(p, plan, Shrunk(p, plan, where, n), mCount[p] - n)
              /\ wanted' = [wanted EXCEPT ![p] = SubSeq(@, 1, where)
                                                 \o SubSeq(@, where + n + 1, Len(@))]
    BY Zenon DEF RemoveItemsAt
  <1>4. PICK n \in 0 .. mCount[p] - where :
          LET plan == ShrinkPlan(p, where, n)
          IN  /\ Change(p, plan, Shrunk(p, plan, where, n), mCount[p] - n)
              /\ wanted' = [wanted EXCEPT ![p] = SubSeq(@, 1, where)
                                                 \o SubSeq(@, where + n + 1, Len(@))]
    BY Zenon, <1>3
  <1> DEFINE plan == ShrinkPlan(p, where, n)
             cs == Shrunk(p, plan, where, n)
             v == SubSeq(w, 1, where) \o SubSeq(w, where + n + 1, Len(w))
  <1>5. wanted' = [wanted EXCEPT ![p] = v] /\ Change(p, plan, cs, Len(w) - n)
    BY Zenon, <1>2, <1>4 DEF VecIInv, VecTypeOK
  <1>6. where \in 0 .. Len(w) /\ n \in 0 .. Len(w) - where
    BY Zenon, <1>2
  <1>7. /\ cs \in CellArrays /\ v \in Seq(VecItems) /\ Len(v) = Len(w) - n
        /\ Begins(cs, v)
    <2> HIDE DEF w
    <2> QED
      BY Zenon, <1>2, <1>6, ShrunkLaw
  <1> HIDE DEF plan, cs, v, w
  <1> QED
    BY Zenon, <1>1, <1>5, <1>7, ChangeKeeps

(* ... editItemLocation and replaceAt, ... *)
LEMMA ReplaceItemAtKeeps ==
    ASSUME VecIInv, NEW p \in Vectors, ReplaceItemAt(p)
    PROVE  VecIInv'
  <1>1. Idle(p) /\ Unread(p) /\ trivial' = trivial
    BY Zenon DEF ReplaceItemAt
  <1> DEFINE w == wanted[p]
             old == Array(p)
             C == Capacity(old)
  <1>2. /\ old \in CellArrays /\ w \in Seq(VecItems)
        /\ mCount[p] = Len(w) /\ Begins(old, w)
        /\ mStorage[p] = None => w = <<>>
    BY Zenon, <1>1, IdleLaw
  <1>3. PICK i \in 0 .. mCount[p] - 1, x \in VecItems :
          /\ Change(p, Plan("edit", C), [old EXCEPT ![i] = x], mCount[p])
          /\ wanted' = [wanted EXCEPT ![p][i + 1] = x]
    BY Zenon DEF ReplaceItemAt
  <1> DEFINE cs == [old EXCEPT ![i] = x]
             v == [w EXCEPT ![i + 1] = x]
             plan == Plan("edit", C)
  <1>4. wanted' = [wanted EXCEPT ![p] = v]
    BY Zenon, <1>3
  <1>5. C \in Nat /\ old \in Cells(C) /\ DOMAIN old = 0 .. C - 1
    BY Zenon, <1>2, CellsLaw
  <1> HIDE DEF C, old
  <1>6. Len(w) \in Nat /\ Len(w) <= C
    BY Zenon, <1>2, <1>5, BeginsLaw
  <1>7. v \in Seq(VecItems) /\ Len(v) = Len(w)
    BY <1>2
  <1>8. cs \in Cells(C) /\ cs \in CellArrays /\ DOMAIN cs = 0 .. C - 1
    <2>1. cs \in Cells(C)
      BY Zenon, <1>5 DEF Cells
    <2> QED
      BY Zenon, <1>5, <2>1, CellsAre
  <1>9. Begins(cs, v)
    <2> SUFFICES ASSUME NEW j \in 1 .. Len(v)
                 PROVE  j - 1 \in DOMAIN cs /\ cs[j - 1] = v[j]
      BY Zenon DEF Begins
    <2>1. j \in 1 .. Len(w) /\ j - 1 \in 0 .. C - 1
      <3> HIDE DEF v, w
      <3> QED
        BY <1>5, <1>6, <1>7
    <2>2. old[j - 1] = w[j]
      BY Zenon, <1>2, <2>1 DEF Begins
    <2>3. CASE j - 1 = i
      BY <1>2, <1>5, <2>1, <2>3
    <2>4. CASE j - 1 # i
      <3>1. cs[j - 1] = old[j - 1]
        BY <1>5, <2>1, <2>4
      <3>2. v[j] = w[j]
        BY <1>2, <2>1, <2>4
      <3> QED
        BY <1>8, <2>1, <2>2, <3>1, <3>2
    <2> QED
      BY Zenon, <1>8, <2>1, <2>3, <2>4
  <1>10. mStorage[p] # None /\ plan.how = "edit"
    <2>1. w # <<>>
      BY <1>2, <1>6
    <2> QED
      BY <1>2, <2>1 DEF Plan
  <1>11. Change(p, plan, cs, Len(v))
    BY Zenon, <1>2, <1>3, <1>7
  <1> HIDE DEF plan, cs, v, w
  <1> QED
    BY Zenon, <1>1, <1>4, <1>7, <1>8, <1>9, <1>10, <1>11, ChangeKeeps

(* ... and setCapacity. *)
LEMMA SetCapacityKeeps ==
    ASSUME VecIInv, NEW p \in Vectors, SetCapacity(p)
    PROVE  VecIInv'
  <1>1. Idle(p) /\ Unread(p) /\ trivial' = trivial /\ wanted' = wanted
    BY Zenon DEF SetCapacity
  <1> DEFINE w == wanted[p]
             old == Array(p)
             C == Capacity(old)
             N == Len(w)
  <1>2. /\ old \in CellArrays /\ w \in Seq(VecItems) /\ mCount[p] = N /\ Begins(old, w)
    BY Zenon, <1>1, IdleLaw
  <1>3. PICK n \in mCount[p] + 1 .. MaxItems + 1 :
          Alloc(p, Copied(Blank(n), 0, old, 0, mCount[p]), mCount[p])
    BY Zenon DEF SetCapacity
  <1> DEFINE cs == Copied(Blank(n), 0, old, 0, N)
  <1>4. C \in Nat /\ old \in Cells(C)
    BY Zenon, <1>2, CellsLaw
  <1>5. wanted' = [wanted EXCEPT ![p] = w]
    BY <1>1 DEF VecIInv, VecTypeOK
  <1>6. Alloc(p, cs, N)
    BY Zenon, <1>2, <1>3
  <1> HIDE DEF C, old
  <1>7. N \in Nat /\ N <= C /\ \A i \in 0 .. N - 1 : old[i] = w[i + 1]
    BY Zenon, <1>2, <1>4, BeginsLaw
  <1>8. n \in Nat /\ N < n /\ 0 \in Nat
    BY <1>2, <1>7, VectorAssumption
  <1>9. Readable(old, 0, N)
    BY <1>4, <1>7 DEF Readable, Cells
  <1>10. CopyOf(cs, n, Blank(n), 0, old, 0, N)
    BY Zenon, <1>7, <1>8, <1>9, BlankLaw, CopiedLaw
  <1> HIDE DEF cs
  <1>11. cs \in Cells(n) /\ cs \in CellArrays /\ DOMAIN cs = 0 .. n - 1
    BY Zenon, <1>8, <1>10, CellsAre DEF CopyOf
  <1>12. Begins(cs, w)
    <2> SUFFICES ASSUME NEW j \in 1 .. N
                 PROVE  j - 1 \in DOMAIN cs /\ cs[j - 1] = w[j]
      BY Zenon DEF Begins
    <2>1. /\ j - 1 \in 0 .. n - 1 /\ j - 1 \in 0 .. N - 1 /\ 0 <= j - 1 /\ j - 1 < 0 + N
          /\ 0 + (j - 1) - 0 = j - 1 /\ (j - 1) + 1 = j
      BY <1>7, <1>8
    <2>2. cs[j - 1] = old[j - 1]
      BY Zenon, <1>10, <2>1 DEF CopyOf
    <2> QED
      BY Zenon, <1>7, <1>11, <2>1, <2>2
  <1> HIDE DEF w
  <1> QED
    BY Zenon, <1>1, <1>2, <1>5, <1>6, <1>11, <1>12, AllocKeeps

(* A sequence of no items is the empty one. *)
LEMMA EmptyLaw == ASSUME NEW w \in Seq(VecItems), Len(w) = 0 PROVE w = <<>>
  OBVIOUS

(* A copy is one more holder of the buffer it shares. *)
LEMMA CopyConstructKeeps ==
    ASSUME VecIInv, NEW p \in Vectors, CopyConstruct(p)
    PROVE  VecIInv'
  <1>1. PICK q \in Vectors \ {p} :
          /\ Idle(p) /\ Unread(p) /\ mStorage[p] = None /\ Idle(q)
          /\ Finish(p, mStorage[q], mCount[q])
          /\ mRefs' = IF mStorage[q] = None THEN mRefs ELSE [mRefs EXCEPT ![mStorage[q]] = @ + 1]
          /\ wanted' = [wanted EXCEPT ![p] = wanted[q]]
          /\ trivial' = trivial /\ cells' = cells
    BY Zenon DEF CopyConstruct
  <1>0. PICK b : b = mStorage[q]
    BY Zenon
  <1>2. b \in Buffers \union {None} /\ mCount[q] \in Nat /\ wanted[q] \in Seq(VecItems)
    BY <1>0 DEF VecIInv, VecTypeOK
  <1>3. /\ mStorage' \in [Vectors -> Buffers \union {None}]
        /\ mCount' \in [Vectors -> Nat]
        /\ vecAt' \in [Vectors -> {"idle", "release", "dec", "acquire"}]
        /\ vecNew' \in [Vectors -> Coming]
        /\ \A r \in Vectors \ {p} :
            /\ mStorage'[r] = mStorage[r] /\ mCount'[r] = mCount[r]
            /\ vecAt'[r] = vecAt[r] /\ vecNew'[r] = vecNew[r]
        /\ mStorage'[p] = b /\ mCount'[p] = mCount[q]
        /\ vecAt'[p] = "idle" /\ vecNew'[p] = Nothing
    <2>1. VecTypeOK
      BY Zenon DEF VecIInv
    <2>2. Finish(p, b, mCount[q])
      BY Zenon, <1>0, <1>1
    <2> QED
      BY Zenon, <1>2, <2>1, <2>2, FinishLaw
  <1>4. /\ wanted' \in [Vectors -> Seq(VecItems)] /\ wanted'[p] = wanted[q]
        /\ \A r \in Vectors \ {p} : wanted'[r] = wanted[r]
    BY <1>1, <1>2 DEF VecIInv, VecTypeOK
  <1>5. Aside(p, {})
    BY Zenon, <1>3, <1>4 DEF Aside
  <1>6. vecNew'[p].storage \notin Vectors /\ vecNew[p] = Nothing
    BY <1>1, <1>3, Apart, IdleLaw DEF Nothing
  <1>7. VecHeld'
    <2>1. Holds(b, mCount[q], wanted[q])
      BY Zenon, <1>0, <1>1 DEF VecIInv, VecHeld, HeldBy, Idle
    <2>2. HeldBy(p)'
      BY Zenon, <1>1, <1>3, <1>4, <1>6, <2>1 DEF HeldBy, Holds
    <2> QED
      BY Zenon, <1>1, <1>5, <2>2, OthersHeld DEF VecHeld
  <1>8. VecPlaced'
    <2>1. PlacedAt(p)'
      BY <1>3, <1>6 DEF PlacedAt
    <2> QED
      BY ZenonT(30), <1>1, <1>5, <2>1, OthersPlaced DEF VecPlaced
  <1>9. VecRefs' /\ mRefs' \in [Buffers -> Nat]
    <2>1. CASE b = None
      <3>1. \A r \in Vectors : mStorage'[r] = mStorage[r] /\ vecNew'[r] = vecNew[r]
        BY Zenon, <1>1, <1>3, <1>6, <2>1
      <3>2. \A a \in Buffers : VecHolders(a)' = VecHolders(a)
        BY Zenon, <3>1 DEF VecHolders
      <3>3. mRefs' = mRefs
        BY Zenon, <1>0, <1>1, <2>1
      <3> QED
        BY <3>2, <3>3 DEF VecIInv, VecRefs, VecTypeOK
    <2>2. CASE b \in Buffers
      <3>1. mRefs' = [mRefs EXCEPT ![b] = @ + 1]
        BY Zenon, <1>0, <1>1, <2>2, Apart
      <3>2. \A a : vecNew[p].storage = a <=> vecNew'[p].storage = a
        BY Zenon, <1>3, <1>6
      <3>3. vecNew[p].storage \notin Buffers
        BY <1>6, Apart DEF Nothing
      <3>4. VecHolders(b)' = VecHolders(b) \union {p} /\ p \notin VecHolders(b)
        <4>1. p \notin VecHolders(b)
          BY Zenon, <1>1, <2>2, <3>3, Apart DEF VecHolders
        <4>2. VecHolders(b)' = VecHolders(b) \union {p}
          BY Zenon, <1>3 DEF VecHolders
        <4> QED
          BY <4>1, <4>2
      <3>5. \A a \in Buffers \ {b} : VecHolders(a)' = VecHolders(a)
        BY <1>1, <1>3, <2>2, <3>2, <3>3, Apart DEF VecHolders
      <3> QED
        BY Zenon, <2>2, <3>1, <3>4, <3>5, HolderMore DEF VecIInv, VecTypeOK
    <2> QED
      BY <1>2, <2>1, <2>2
  <1> QED
    BY <1>1, <1>3, <1>4, <1>7, <1>8, <1>9 DEF VecIInv, VecTypeOK

(* operator= begins with the release of the old storage. *)
LEMMA AssignKeeps ==
    ASSUME VecIInv, NEW p \in Vectors, Assign(p)
    PROVE  VecIInv'
  <1>1. /\ Idle(p) /\ Unread(p) /\ mStorage[p] # None
        /\ vecAt' = [vecAt EXCEPT ![p] = "release"]
        /\ mStorage' = mStorage /\ mCount' = mCount /\ trivial' = trivial
        /\ mRefs' = mRefs /\ cells' = cells
    BY Zenon DEF Assign
  <1>2. vecNew[p] = Nothing /\ mStorage[p] \in Buffers
    BY Zenon, <1>1, IdleLaw
  <1>3. \E new \in Coming, w \in Seq(VecItems) :
            /\ vecNew' = [vecNew EXCEPT ![p] = new]
            /\ wanted' = [wanted EXCEPT ![p] = w]
            /\ new.storage \notin Buffers
            /\ Holds(new.storage, new.count, w)
            /\ new.storage \in Vectors => /\ new.storage # p /\ w = wanted[new.storage]
                                          /\ vecAt[new.storage] = "idle"
                                          /\ mStorage[new.storage] \in Buffers
    <2>1. /\ Nothing \in Coming /\ Nothing.storage = None /\ Holds(None, Nothing.count, <<>>)
          /\ <<>> \in Seq(VecItems)
      BY Apart DEF Nothing, Coming, Holds, Begins
    <2>2. CASE vecNew' = vecNew /\ wanted' = [wanted EXCEPT ![p] = <<>>]
      <3>1. vecNew' = [vecNew EXCEPT ![p] = Nothing]
        BY <1>2, <2>2 DEF VecIInv, VecTypeOK
      <3> QED
        BY Zenon, <2>1, <2>2, <3>1, Apart
    <2>3. CASE \E q \in Vectors \ {p} :
             /\ Idle(q)
             /\ vecNew' = [vecNew EXCEPT ![p] = IF mCount[q] = 0 THEN Nothing
                                                ELSE [storage |-> q, count |-> mCount[q]]]
             /\ wanted' = [wanted EXCEPT ![p] = wanted[q]]
      <3>1. PICK q \in Vectors \ {p} :
             /\ Idle(q)
             /\ vecNew' = [vecNew EXCEPT ![p] = IF mCount[q] = 0 THEN Nothing
                                                ELSE [storage |-> q, count |-> mCount[q]]]
             /\ wanted' = [wanted EXCEPT ![p] = wanted[q]]
        BY Zenon, <2>3
      <3>2. /\ wanted[q] \in Seq(VecItems) /\ mCount[q] = Len(wanted[q]) /\ mCount[q] \in Nat
            /\ mStorage[q] = None => wanted[q] = <<>>
            /\ mStorage[q] # None => mStorage[q] \in Buffers
        <4>1. mCount[q] \in Nat
          BY DEF VecIInv, VecTypeOK
        <4> QED
          BY Zenon, <3>1, <4>1, IdleLaw
      <3>3. CASE mCount[q] = 0
        <4>1. wanted[q] = <<>>
          BY Zenon, <3>2, <3>3, EmptyLaw
        <4> QED
          BY Zenon, <2>1, <3>1, <3>3, <4>1, Apart
      <3>4. CASE mCount[q] # 0
        <4> DEFINE new == [storage |-> q, count |-> mCount[q]]
        <4>1. new \in Coming /\ new.storage = q /\ new.count = mCount[q]
          BY <3>2 DEF Coming
        <4>2. vecNew' = [vecNew EXCEPT ![p] = new]
          BY Zenon, <3>1, <3>4
        <4> HIDE DEF new
        <4>3. mStorage[q] \in Buffers
          BY <3>2, <3>4
        <4>4. Holds(q, mCount[q], wanted[q]) /\ q \notin Buffers
          BY Zenon, <3>2, Apart DEF Holds
        <4> QED
          BY ZenonT(30), <3>1, <3>2, <4>1, <4>2, <4>3, <4>4 DEF Idle
      <3> QED
        BY <3>3, <3>4
    <2> QED
      BY Zenon, <2>2, <2>3 DEF Assign
  <1>4. PICK new \in Coming, w \in Seq(VecItems) :
            /\ vecNew' = [vecNew EXCEPT ![p] = new]
            /\ wanted' = [wanted EXCEPT ![p] = w]
            /\ new.storage \notin Buffers
            /\ Holds(new.storage, new.count, w)
            /\ new.storage \in Vectors => /\ new.storage # p /\ w = wanted[new.storage]
                                          /\ vecAt[new.storage] = "idle"
                                          /\ mStorage[new.storage] \in Buffers
    BY Zenon, <1>3
  <1>5. /\ vecAt' \in [Vectors -> {"idle", "release", "dec", "acquire"}] /\ vecAt'[p] = "release"
        /\ \A q \in Vectors \ {p} : vecAt'[q] = vecAt[q]
    BY <1>1 DEF VecIInv, VecTypeOK
  <1>6. /\ vecNew' \in [Vectors -> Coming] /\ vecNew'[p] = new
        /\ \A q \in Vectors \ {p} : vecNew'[q] = vecNew[q]
    BY <1>4 DEF VecIInv, VecTypeOK
  <1>7. /\ wanted' \in [Vectors -> Seq(VecItems)] /\ wanted'[p] = w
        /\ \A q \in Vectors \ {p} : wanted'[q] = wanted[q]
    BY <1>4 DEF VecIInv, VecTypeOK
  <1>8. Aside(p, {})
    BY Zenon, <1>1, <1>5, <1>6, <1>7 DEF Aside
  <1>9. VecHeld'
    <2>1. HeldBy(p)'
      <3>1. Holds(new.storage, new.count, w)'
        BY Zenon, <1>1, <1>4 DEF Holds
      <3>2. vecAt'[p] # "idle"
        BY <1>5
      <3>3. new.storage \in Vectors => w = wanted'[new.storage]
        BY Zenon, <1>4, <1>7
      <3> QED
        BY Zenon, <1>6, <1>7, <3>1, <3>2, <3>3 DEF HeldBy, Holds
    <2> QED
      BY Zenon, <1>1, <1>8, <2>1, OthersHeld DEF VecHeld
  <1>10. VecPlaced'
    <2>1. new.storage # mStorage[p]
      BY Zenon, <1>2, <1>4
    <2>2. new.storage \in Vectors => vecAt'[new.storage] = "idle"
      BY Zenon, <1>4, <1>5
    <2>3. PlacedAt(p)'
      BY <1>1, <1>2, <1>4, <1>5, <1>6, <2>1, <2>2 DEF PlacedAt
    <2> QED
      BY Zenon, <1>1, <1>8, <2>3, OthersPlaced DEF VecPlaced
  <1>11. VecRefs'
    <2>1. vecNew[p].storage \notin Buffers
      BY <1>2, Apart DEF Nothing
    <2>2. \A a \in Buffers : VecHolders(a)' = VecHolders(a)
      BY Zenon, <1>1, <1>4, <1>6, <2>1 DEF VecHolders
    <2> QED
      BY <1>1, <2>2 DEF VecIInv, VecRefs
  <1> QED
    BY <1>1, <1>5, <1>6, <1>7, <1>9, <1>10, <1>11 DEF VecIInv, VecTypeOK

\* Nobody is assigned from a vector that is in a call.
LEMMA BusyUnread ==
    ASSUME VecIInv, NEW p \in Vectors, vecAt[p] # "idle"
    PROVE  Unread(p)
  BY Zenon DEF VecIInv, VecPlaced, PlacedAt, Unread

(* It ends with the acquisition of the new one, which is still there: its  *)
(* vector is left alone until then.                                        *)
LEMMA AcquireKeeps ==
    ASSUME VecIInv, NEW p \in Vectors, Acquire(p)
    PROVE  VecIInv'
  <1>1. PICK q, b :
          /\ q = vecNew[p].storage /\ b = mStorage[q]
          /\ vecAt[p] = "acquire" /\ mRefs' = [mRefs EXCEPT ![b] = @ + 1]
          /\ Finish(p, b, vecNew[p].count)
          /\ trivial' = trivial /\ cells' = cells /\ wanted' = wanted
    BY Zenon DEF Acquire
  <1>2. vecAt[p] # "idle" /\ Unread(p)
    BY <1>1, BusyUnread
  <1>3. /\ mStorage[p] = None /\ q \in Vectors /\ vecAt[q] = "idle" /\ b \in Buffers
        /\ wanted[p] = wanted[q] /\ Holds(b, mCount[q], wanted[q])
        /\ Holds(q, vecNew[p].count, wanted[p])
    BY Zenon, <1>1, <1>2 DEF VecIInv, VecPlaced, PlacedAt, VecHeld, HeldBy
  <1>4. q # p /\ q \notin Buffers
    BY Zenon, <1>2, <1>3, Apart
  <1>5. /\ mStorage' \in [Vectors -> Buffers \union {None}]
        /\ mCount' \in [Vectors -> Nat]
        /\ vecAt' \in [Vectors -> {"idle", "release", "dec", "acquire"}]
        /\ vecNew' \in [Vectors -> Coming]
        /\ \A r \in Vectors \ {p} :
            /\ mStorage'[r] = mStorage[r] /\ mCount'[r] = mCount[r]
            /\ vecAt'[r] = vecAt[r] /\ vecNew'[r] = vecNew[r]
        /\ mStorage'[p] = b /\ mCount'[p] = vecNew[p].count
        /\ vecAt'[p] = "idle" /\ vecNew'[p] = Nothing
    <2>1. VecTypeOK /\ b \in Buffers \union {None}
      BY Zenon, <1>3 DEF VecIInv
    <2>2. vecNew[p].count \in Nat
      BY DEF VecIInv, VecTypeOK, Coming
    <2> QED
      BY Zenon, <1>1, <2>1, <2>2, FinishLaw
  <1>6. Aside(p, {})
    BY Zenon, <1>1, <1>5 DEF Aside
  <1>7. vecNew'[p].storage = None /\ None \notin Vectors
    BY <1>5, Apart DEF Nothing
  <1>8. VecHeld'
    <2>1. Holds(b, vecNew[p].count, wanted[p])
      BY Zenon, <1>3 DEF Holds
    <2>2. HeldBy(p)'
      BY Zenon, <1>1, <1>5, <1>7, <2>1 DEF HeldBy, Holds
    <2> QED
      BY Zenon, <1>1, <1>2, <1>6, <2>2, OthersHeld DEF VecHeld
  <1>9. VecPlaced'
    <2>1. PlacedAt(p)'
      BY <1>5, <1>7 DEF PlacedAt
    <2> QED
      BY Zenon, <1>2, <1>6, <2>1, OthersPlaced DEF VecPlaced
  <1>10. VecRefs' /\ mRefs' \in [Buffers -> Nat]
    <2>1. p \notin VecHolders(b)
      BY Zenon, <1>1, <1>3, <1>4, Apart DEF VecHolders
    <2>2. VecHolders(b)' = VecHolders(b) \union {p}
      BY Zenon, <1>1, <1>3, <1>4, <1>5 DEF VecHolders
    <2>3. ASSUME NEW a \in Buffers \ {b} PROVE VecHolders(a)' = VecHolders(a)
      <3>1. /\ mStorage[p] # a /\ vecNew[p].storage # a
            /\ mStorage'[p] # a /\ vecNew'[p].storage # a
        <4>1. a \in Buffers /\ a # b /\ a # None
          BY Zenon, Apart
        <4>2. mStorage[p] = None /\ vecNew[p].storage = q /\ q # a
          BY Zenon, <1>1, <1>3, <1>4, <4>1
        <4>3. mStorage'[p] = b /\ vecNew'[p].storage = None
          BY Zenon, <1>5, <1>7
        <4> QED
          BY Zenon, <4>1, <4>2, <4>3
      <3> QED
        BY Zenon, <1>5, <3>1 DEF VecHolders
    <2> QED
      BY Zenon, <1>1, <1>3, <2>1, <2>2, <2>3, HolderMore DEF VecIInv, VecTypeOK
  <1> QED
    BY <1>1, <1>5, <1>8, <1>9, <1>10 DEF VecIInv, VecTypeOK

\* The end of a release: the buffer is counted by one vector less, and its cells are gone
\* when it was the last one.
LEMMA ReleasedKeeps ==
    ASSUME VecIInv, NEW p \in Vectors, vecAt[p] \in {"release", "dec"}, Released(p),
           NEW b \in Buffers, mStorage[p] = b, mRefs' = [mRefs EXCEPT ![b] = @ - 1],
           IF OnlyOwner(b) THEN cells' = [cells EXCEPT ![b] = Blank(0)] ELSE cells' = cells,
           trivial' = trivial, wanted' = wanted
    PROVE  VecIInv'
  <1> DEFINE S == IF OnlyOwner(b) THEN {b} ELSE {}
             new == vecNew[p].storage
  <1>1. vecAt[p] # "idle" /\ Unread(p)
    BY BusyUnread
  <1>2. /\ new # b /\ Holds(new, vecNew[p].count, wanted[p]) /\ new \in Buffers \union Vectors \union {None}
        /\ vecNew[p].count \in Nat
        /\ new \in Vectors => /\ wanted[p] = wanted[new] /\ vecAt[new] = "idle"
                              /\ mStorage[new] \in Buffers
    <2>1. PlacedAt(p) /\ HeldBy(p) /\ vecNew[p] \in Coming
      BY Zenon DEF VecIInv, VecPlaced, VecHeld, VecTypeOK
    <2> QED
      BY <1>1, <2>1 DEF PlacedAt, HeldBy, Coming
  <1>3. /\ cells' \in [Buffers -> CellArrays] /\ \A a \in Buffers \ S : cells'[a] = cells[a]
        /\ new \notin S /\ \A q \in Vectors \ {p} : mStorage[q] \notin S /\ vecNew[q].storage \notin S
    <2>1. CASE OnlyOwner(b)
      <3>1. Blank(0) \in CellArrays
        <4>1. 0 \in Nat
          OBVIOUS
        <4> QED
          BY Zenon, <4>1, BlankLaw, CellsAre
      <3>2. \A q \in Vectors \ {p} : mStorage[q] # b /\ vecNew[q].storage # b
        <4>1. p \in VecHolders(b)
          BY Zenon, HoldersLaw
        <4>2. \A x, y \in VecHolders(b) : x = y
          BY Zenon, <2>1, CountedLaw DEF VecIInv, OnlyOwner
        <4> QED
          BY Zenon, <4>1, <4>2, HoldersLaw
      <3> QED
        BY Zenon, <1>2, <2>1, <3>1, <3>2 DEF VecIInv, VecTypeOK
    <2>2. CASE ~OnlyOwner(b)
      BY <2>2 DEF VecIInv, VecTypeOK
    <2> QED
      BY <2>1, <2>2
  <1> HIDE DEF S
  <1>4. CASE new \in Vectors
    <2>1. /\ vecAt' = [vecAt EXCEPT ![p] = "acquire"]
          /\ mStorage' = [mStorage EXCEPT ![p] = None]
          /\ mCount' = mCount /\ vecNew' = vecNew
      BY Zenon, <1>4 DEF Released
    <2>2. /\ vecAt' \in [Vectors -> {"idle", "release", "dec", "acquire"}]
          /\ vecAt'[p] = "acquire" /\ \A q \in Vectors \ {p} : vecAt'[q] = vecAt[q]
      BY <2>1 DEF VecIInv, VecTypeOK
    <2>3. /\ mStorage' \in [Vectors -> Buffers \union {None}]
          /\ mStorage'[p] = None /\ \A q \in Vectors \ {p} : mStorage'[q] = mStorage[q]
      BY <2>1 DEF VecIInv, VecTypeOK
    <2>4. Aside(p, S)
      BY Zenon, <1>3, <2>1, <2>2, <2>3 DEF Aside
    <2>5. new # p /\ new # None
      BY Zenon, <1>1, <1>2, <1>4, Apart
    <2>6. VecHeld'
      <3>1. HeldBy(p)'
        <4>1. Holds(new, vecNew[p].count, wanted[p])'
          BY Zenon, <1>2, <1>4, <2>1, Apart DEF Holds
        <4>2. vecAt'[p] # "idle"
          BY <2>2
        <4> QED
          BY Zenon, <1>2, <2>1, <4>1, <4>2 DEF HeldBy, Holds
      <3> QED
        BY Zenon, <1>1, <1>3, <2>4, <3>1, OthersHeld DEF VecHeld
    <2>7. VecPlaced'
      <3>1. vecAt'[new] = "idle" /\ mStorage'[new] \in Buffers
        BY ZenonT(30), <1>2, <1>4, <2>2, <2>3, <2>5
      <3>2. PlacedAt(p)'
        BY <1>4, <2>1, <2>2, <2>3, <3>1 DEF PlacedAt
      <3> QED
        BY Zenon, <1>1, <2>4, <3>2, OthersPlaced DEF VecPlaced
    <2>8. VecRefs' /\ mRefs' \in [Buffers -> Nat]
      <3>1. p \in VecHolders(b)
        BY Zenon, HoldersLaw
      <3>2. VecHolders(b)' = VecHolders(b) \ {p}
        BY Zenon, <1>2, <2>1, <2>3, Apart DEF VecHolders
      <3>3. \A a \in Buffers \ {b} : VecHolders(a)' = VecHolders(a)
        BY Zenon, <2>1, <2>3, Apart DEF VecHolders
      <3> QED
        BY Zenon, <3>1, <3>2, <3>3, HolderLess DEF VecIInv, VecTypeOK
    <2> QED
      BY <1>3, <2>1, <2>2, <2>3, <2>6, <2>7, <2>8 DEF VecIInv, VecTypeOK
  <1>5. CASE new \notin Vectors
    <2>1. Finish(p, new, vecNew[p].count) /\ new \in Buffers \union {None}
      BY Zenon, <1>2, <1>5 DEF Released
    <2>2. /\ mStorage' \in [Vectors -> Buffers \union {None}]
          /\ mCount' \in [Vectors -> Nat]
          /\ vecAt' \in [Vectors -> {"idle", "release", "dec", "acquire"}]
          /\ vecNew' \in [Vectors -> Coming]
          /\ \A r \in Vectors \ {p} :
              /\ mStorage'[r] = mStorage[r] /\ mCount'[r] = mCount[r]
              /\ vecAt'[r] = vecAt[r] /\ vecNew'[r] = vecNew[r]
          /\ mStorage'[p] = new /\ mCount'[p] = vecNew[p].count
          /\ vecAt'[p] = "idle" /\ vecNew'[p] = Nothing
      <3>1. VecTypeOK
        BY Zenon DEF VecIInv
      <3> QED
        BY Zenon, <1>2, <2>1, <3>1, FinishLaw
    <2>3. Aside(p, S)
      BY Zenon, <1>3, <2>2 DEF Aside
    <2>4. vecNew'[p].storage = None /\ None \notin Vectors /\ None \notin Buffers
      BY <2>2, Apart DEF Nothing
    <2>5. VecHeld'
      <3>1. new \in Buffers => cells'[new] = cells[new]
        BY Zenon, <1>3
      <3>2. HeldBy(p)'
        BY Zenon, <1>2, <2>2, <2>4, <3>1 DEF HeldBy, Holds
      <3> QED
        BY Zenon, <1>1, <1>3, <2>3, <3>2, OthersHeld DEF VecHeld
    <2>6. VecPlaced'
      <3>1. PlacedAt(p)'
        BY <2>2, <2>4 DEF PlacedAt
      <3> QED
        BY Zenon, <1>1, <2>3, <3>1, OthersPlaced DEF VecPlaced
    <2>7. VecRefs' /\ mRefs' \in [Buffers -> Nat]
      <3>1. p \in VecHolders(b)
        BY Zenon, HoldersLaw
      <3>2. VecHolders(b)' = VecHolders(b) \ {p}
        BY Zenon, <1>2, <2>2, <2>4 DEF VecHolders
      <3>3. \A a \in Buffers \ {b} : VecHolders(a)' = VecHolders(a)
        BY ZenonT(30), <2>2, <2>4 DEF VecHolders
      <3> QED
        BY Zenon, <3>1, <3>2, <3>3, HolderLess DEF VecIInv, VecTypeOK
    <2> QED
      BY <1>3, <2>2, <2>5, <2>6, <2>7 DEF VecIInv, VecTypeOK
  <1> QED
    BY <1>4, <1>5

(* The only owner frees its buffer; others go on to the decrement, and by  *)
(* then they may be the only owner.                                        *)
LEMMA ReleaseKeeps ==
    ASSUME VecIInv, NEW p \in Vectors, Release(p)
    PROVE  VecIInv'
  <1>1. PICK b \in Buffers : b = mStorage[p]
    BY Zenon DEF Release, VecIInv, VecPlaced, PlacedAt
  <1>2. mRefs \in [Buffers -> Nat] /\ trivial' = trivial /\ wanted' = wanted
    BY Zenon DEF Release, VecIInv, VecTypeOK
  <1>3. CASE OnlyOwner(b)
    <2>1. /\ mRefs' = [mRefs EXCEPT ![b] = 0] /\ Freed(b) /\ Released(p)
          /\ vecAt[p] = "release"
      BY Zenon, <1>1, <1>3 DEF Release
    <2>2. mRefs' = [mRefs EXCEPT ![b] = @ - 1]
      BY <1>2, <1>3, <2>1 DEF OnlyOwner
    <2>3. /\ vecAt[p] \in {"release", "dec"}
          /\ IF OnlyOwner(b) THEN cells' = [cells EXCEPT ![b] = Blank(0)] ELSE cells' = cells
      BY Zenon, <1>3, <2>1 DEF Freed
    <2> QED
      BY Zenon, <1>1, <1>2, <2>1, <2>2, <2>3, ReleasedKeeps
  <1>4. CASE ~OnlyOwner(b)
    <2>1. /\ vecAt[p] = "release" /\ vecAt' = [vecAt EXCEPT ![p] = "dec"]
          /\ mStorage' = mStorage /\ mCount' = mCount /\ mRefs' = mRefs
          /\ cells' = cells /\ vecNew' = vecNew
      BY Zenon, <1>1, <1>4 DEF Release
    <2>2. /\ vecAt' \in [Vectors -> {"idle", "release", "dec", "acquire"}]
          /\ vecAt'[p] = "dec" /\ \A q \in Vectors \ {p} : vecAt'[q] = vecAt[q]
      BY <2>1 DEF VecIInv, VecTypeOK
    <2>3. vecAt[p] # "idle" /\ Unread(p) /\ Aside(p, {})
      <3>1. vecAt[p] # "idle"
        BY <2>1
      <3> QED
        BY Zenon, <1>2, <2>1, <2>2, <3>1, BusyUnread DEF Aside
    <2>4. VecHeld'
      <3>1. HeldBy(p) /\ vecAt'[p] # "idle"
        BY <2>2 DEF VecIInv, VecHeld
      <3>2. HeldBy(p)'
        BY Zenon, <1>2, <2>1, <2>3, <3>1 DEF HeldBy, Holds
      <3> QED
        BY Zenon, <2>1, <2>3, <3>2, OthersHeld DEF VecHeld
    <2>5. VecPlaced'
      <3>1. PlacedAt(p) /\ vecAt[p] \in {"release", "dec"}
        BY <2>1 DEF VecIInv, VecPlaced
      <3>2. vecNew[p].storage # p
        BY Zenon, <2>3 , <3>1 DEF PlacedAt
      <3>3. PlacedAt(p)'
        <4>1. vecNew[p].storage \in Vectors => vecAt'[vecNew[p].storage] = "idle"
          BY Zenon, <2>2, <3>1, <3>2 DEF PlacedAt
        <4> QED
          BY <2>1, <2>2, <3>1, <4>1 DEF PlacedAt
      <3> QED
        BY Zenon, <2>3, <3>3, OthersPlaced DEF VecPlaced
    <2>6. VecRefs'
      BY Zenon, <2>1 DEF VecIInv, VecRefs, VecHolders
    <2> QED
      BY <1>2, <2>1, <2>2, <2>4, <2>5, <2>6 DEF VecIInv, VecTypeOK
  <1> QED
    BY <1>3, <1>4

(* Whoever brings the count to nothing frees the buffer. *)
LEMMA DecRefsKeeps ==
    ASSUME VecIInv, NEW p \in Vectors, DecRefs(p)
    PROVE  VecIInv'
  <1>1. PICK b \in Buffers : b = mStorage[p]
    BY Zenon DEF DecRefs, VecIInv, VecPlaced, PlacedAt
  <1>2. /\ mRefs' = [mRefs EXCEPT ![b] = @ - 1]
        /\ vecAt[p] \in {"release", "dec"} /\ Released(p) /\ trivial' = trivial
        /\ wanted' = wanted
    BY Zenon, <1>1 DEF DecRefs
  <1>3. IF OnlyOwner(b) THEN cells' = [cells EXCEPT ![b] = Blank(0)] ELSE cells' = cells
    BY Zenon, <1>1 DEF DecRefs, Freed
  <1> QED
    BY Zenon, <1>1, <1>2, <1>3, ReleasedKeeps

-----------------------------------------------------------------------------
(* At the start no vector has storage. *)
LEMMA VecStart == ASSUME VecInit PROVE VecIInv
  <1>1. /\ mStorage \in [Vectors -> Buffers \union {None}]
        /\ mCount \in [Vectors -> Nat]
        /\ mRefs \in [Buffers -> Nat]
        /\ vecAt \in [Vectors -> {"idle", "release", "dec", "acquire"}]
    BY DEF VecInit
  <1>2. trivial \in BOOLEAN
    BY Zenon DEF VecInit
  <1>3. cells \in [Buffers -> CellArrays]
    <2>1. 0 \in Nat
      OBVIOUS
    <2>2. Blank(0) \in CellArrays
      BY Zenon, <2>1, BlankLaw, CellsAre
    <2> QED
      BY <2>2 DEF VecInit
  <1>4. vecNew \in [Vectors -> Coming]
    <2>1. Nothing \in Coming
      BY DEF Nothing, Coming
    <2> QED
      BY Zenon, <2>1 DEF VecInit
  <1>5. wanted \in [Vectors -> Seq(VecItems)]
    BY DEF VecInit
  <1>6. ASSUME NEW p \in Vectors
        PROVE  /\ mStorage[p] = None /\ mCount[p] = 0 /\ vecAt[p] = "idle"
               /\ vecNew[p] = Nothing /\ wanted[p] = <<>>
    BY DEF VecInit
  <1>7. Nothing.storage = None
    BY DEF Nothing
  <1>8. VecPlaced
    BY <1>6, <1>7, Apart DEF VecPlaced, PlacedAt
  <1>9. VecHeld
    <2>1. Len(<<>>) = 0
      OBVIOUS
    <2> SUFFICES ASSUME NEW p \in Vectors PROVE HeldBy(p)
      BY Zenon DEF VecHeld
    <2> QED
      BY Zenon, <1>6, <1>7, <2>1, Apart DEF HeldBy, Holds
  <1>10. VecRefs
    <2> SUFFICES ASSUME NEW b \in Buffers PROVE mRefs[b] = Cardinality(VecHolders(b))
      BY Zenon DEF VecRefs
    <2>1. VecHolders(b) = {}
      BY Zenon, <1>6, <1>7, Apart DEF VecHolders
    <2>2. mRefs[b] = 0
      BY DEF VecInit
    <2> QED
      BY Zenon, <2>1, <2>2, FS_EmptySet
  <1> QED
    BY Zenon, <1>1, <1>2, <1>3, <1>4, <1>5, <1>8, <1>9, <1>10 DEF VecIInv, VecTypeOK

(* Every reachable state satisfies the invariant. *)
LEMMA VecAlways == VecSpec => []VecIInv
  <1>1. VecInit => VecIInv
    BY VecStart
  <1>2. VecIInv /\ [VecNext]_vecVars => VecIInv'
    <2> SUFFICES ASSUME VecIInv, [VecNext]_vecVars PROVE VecIInv'
      OBVIOUS
    <2>1. ASSUME NEW p \in Vectors,
                 \/ InsertArrayAt(p) \/ RemoveItemsAt(p) \/ ReplaceItemAt(p) \/ SetCapacity(p)
                 \/ CopyConstruct(p) \/ Assign(p) \/ Acquire(p) \/ Release(p) \/ DecRefs(p)
          PROVE  VecIInv'
      BY Zenon, <2>1, InsertArrayAtKeeps, RemoveItemsAtKeeps, ReplaceItemAtKeeps,
         SetCapacityKeeps,
         CopyConstructKeeps, AssignKeeps, AcquireKeeps, ReleaseKeeps, DecRefsKeeps
    <2>2. CASE UNCHANGED vecVars
      <3>1. /\ mStorage' = mStorage /\ mCount' = mCount /\ trivial' = trivial
            /\ mRefs' = mRefs /\ cells' = cells /\ vecAt' = vecAt /\ vecNew' = vecNew
            /\ wanted' = wanted
        BY Zenon, <2>2 DEF vecVars
      <3>2. VecTypeOK'
        BY Zenon, <3>1 DEF VecIInv, VecTypeOK
      <3>3. VecPlaced'
        BY Zenon, <3>1 DEF VecIInv, VecPlaced, PlacedAt
      <3>4. VecHeld'
        BY Zenon, <3>1 DEF VecIInv, VecHeld, HeldBy, Holds
      <3>5. VecRefs'
        BY Zenon, <3>1 DEF VecIInv, VecRefs, VecHolders
      <3> QED
        BY Zenon, <3>2, <3>3, <3>4, <3>5 DEF VecIInv
    <2> QED
      BY Zenon, <2>1, <2>2 DEF VecNext
  <1> QED
    BY <1>1, <1>2, PTL DEF VecSpec

(* The reference count of every buffer is the number of vectors that hold  *)
(* it, in whatever order threads copy, assign, change and destroy their    *)
(* vectors (SharedBuffer::acquire, release, editResize): no buffer is      *)
(* freed while a vector holds it and none is left behind.                  *)
THEOREM VectorsCounted == VecSpec => []VecRefs
  <1>1. VecIInv => VecRefs
    BY DEF VecIInv
  <1> QED
    BY <1>1, VecAlways, PTL

(* A vector that is in no call holds exactly what its own calls made of    *)
(* it: sharing is never visible through a copy, and no way of growing or   *)
(* shrinking loses, doubles or reorders an item (VectorImpl::_grow,        *)
(* _shrink, editArrayImpl, operator=).                                     *)
THEOREM VectorsApart == VecSpec => []VecValues
  <1>1. VecIInv => VecValues
    <2> SUFFICES ASSUME VecIInv, NEW p \in Vectors, Idle(p)
                 PROVE  /\ mCount[p] = Len(wanted[p])
                        /\ \A i \in 1 .. mCount[p] : Array(p)[i - 1] = wanted[p][i]
      BY Zenon DEF VecValues
    <2> QED
      BY Zenon, IdleLaw DEF Begins
  <1> QED
    BY <1>1, VecAlways, PTL

=============================================================================
