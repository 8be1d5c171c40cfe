--------------------------- MODULE RefBaseProofs ----------------------------
(***************************************************************************)
(* The reference counts keep their promise for every number of handles, as *)
(* long as a first strong reference is not made while another handle       *)
(* exists.                                                                 *)
(***************************************************************************)
EXTENDS RefBase, FiniteSetTheorems, TLAPS

USE SMTT(20), ZenonT(20)

Strongs == {h \in Handles : at[h] \in Strong}
Weaks == {h \in Handles : at[h] \in Weak}

\* The counters count handles; the initial value is in mStrong until the first fixup.
Counted ==
    /\ mWeak = Cardinality(Weaks)
    /\ \/ mStrong = Cardinality(Strongs)
       \/ mStrong = INITIAL_STRONG_VALUE + Cardinality(Strongs)

\* Until then no strong reference is complete, and a first one is alone.
BeforeFirst ==
    /\ mStrong >= INITIAL_STRONG_VALUE =>
          \A h \in Handles : at[h] \notin {"sp", "lastStrong", "forceIncStrong"}
    /\ \A h \in Handles : at[h] = "first" =>
          /\ mStrong >= INITIAL_STRONG_VALUE
          /\ \A g \in Handles : g # h => at[g] = "none"
    /\ \A h \in Handles : at[h] = "incStrong" /\ src[h] = Raw =>
          /\ mStrong = INITIAL_STRONG_VALUE
          /\ \A g \in Handles : g # h => at[g] = "none"
    /\ raw => /\ mStrong = INITIAL_STRONG_VALUE /\ object = "live" /\ refs = "live"
              /\ \A h \in Handles : at[h] = "none"

\* Calls work from references that exist.
Sources ==
    \A h \in Handles :
        /\ src[h] # Raw => at[h] \in Calling
        /\ at[h] = "incStrong" => src[h] = Raw \/ at[src[h]] = "sp"
        /\ at[h] \in Taking \ {"incStrong"} => src[h] # Raw /\ at[src[h]] = "wp"
        /\ at[h] = "attemptInitial" => mFlags = "STRONG"
        /\ at[h] \in {"attemptExtended", "forceIncStrong"} => mFlags = "WEAK"

\* Who destroys what: one handle at a time is about to, and then nobody holds it.
Ends ==
    /\ object # "twice" /\ refs # "twice"
    /\ refs = "dead" => object = "dead"
    /\ mFlags = "WEAK" => object = refs
    /\ \A h \in Handles : at[h] = "lastWeak" =>
          /\ Weaks = {} /\ refs = "live"
          /\ \A g \in Handles : at[g] = "lastWeak" => g = h
          /\ mFlags = "STRONG" => object = "dead" \/ mStrong = INITIAL_STRONG_VALUE
    /\ refs = "dead" => Weaks = {} /\ \A h \in Handles : at[h] # "lastWeak"
    /\ Weaks = {} /\ refs = "live" => raw \/ \E h \in Handles : at[h] = "lastWeak"
    /\ mFlags = "STRONG" /\ refs = "live" =>
          /\ mStrong = 0 /\ object = "live" => \E h \in Handles : at[h] = "lastStrong"
          /\ object = "dead" => mStrong = 0
          /\ \A h \in Handles : at[h] = "lastStrong" =>
                /\ mStrong = 0 /\ object = "live"
                /\ \A g \in Handles : at[g] = "lastStrong" => g = h

RefIInv == RefTypeOK /\ Counted /\ BeforeFirst /\ Sources /\ Ends

-----------------------------------------------------------------------------
(* Counting.                                                               *)

In(C) == {g \in Handles : at[g] \in C}

\* There are fewer handles than the initial value.
LEMMA FewHandles ==
    ASSUME NEW T, T \subseteq Handles
    PROVE  /\ IsFiniteSet(T) /\ Cardinality(T) \in Nat
           /\ Cardinality(T) < INITIAL_STRONG_VALUE
           /\ (Cardinality(T) = 0 <=> T = {})
<1>1. IsFiniteSet(T) /\ Cardinality(T) <= Cardinality(Handles)
  BY FS_Subset, RefAssumption
<1>2. Cardinality(T) \in Nat /\ Cardinality(Handles) \in Nat
  BY <1>1, FS_CardinalityType, RefAssumption
<1> QED BY <1>1, <1>2, FS_EmptySet, RefAssumption

LEMMA InFinite ==
    ASSUME NEW C
    PROVE  /\ IsFiniteSet(In(C)) /\ Cardinality(In(C)) \in Nat
           /\ Cardinality(In(C)) < INITIAL_STRONG_VALUE
           /\ (Cardinality(In(C)) = 0 <=> In(C) = {})
<1>1. In(C) \subseteq Handles
  BY DEF In
<1> QED BY <1>1, FewHandles

\* A handle that moves enters a set of places, leaves it, or neither.
LEMMA Recount ==
    ASSUME NEW C, NEW h \in Handles, NEW p, at \in [Handles -> Places],
           at' = [at EXCEPT ![h] = p]
    PROVE  Cardinality(In(C)') = Cardinality(In(C)) + (IF p \in C THEN 1 ELSE 0)
                                                    - (IF at[h] \in C THEN 1 ELSE 0)
<1>1. IsFiniteSet(In(C)) /\ Cardinality(In(C)) \in Nat
  BY InFinite
<1>2. CASE p \in C
  <2>1. In(C)' = In(C) \union {h}
    BY <1>2 DEF In
  <2>2. h \in In(C) <=> at[h] \in C
    BY DEF In
  <2>3. Cardinality(In(C) \union {h}) =
            IF h \in In(C) THEN Cardinality(In(C)) ELSE Cardinality(In(C)) + 1
    BY Zenon, <1>1, FS_AddElement
  <2>4. Cardinality(In(C)') = IF at[h] \in C THEN Cardinality(In(C)) ELSE Cardinality(In(C)) + 1
    BY <2>1, <2>2, <2>3
  <2> QED BY <1>1, <1>2, <2>4
<1>3. CASE p \notin C
  <2>1. In(C)' = In(C) \ {h}
    BY <1>3 DEF In
  <2>2. h \in In(C) <=> at[h] \in C
    BY DEF In
  <2>3. Cardinality(In(C) \ {h}) =
            IF h \in In(C) THEN Cardinality(In(C)) - 1 ELSE Cardinality(In(C))
    BY Zenon, <1>1, FS_RemoveElement
  <2>4. Cardinality(In(C)') = IF at[h] \in C THEN Cardinality(In(C)) - 1 ELSE Cardinality(In(C))
    BY <2>1, <2>2, <2>3
  <2> QED BY <1>1, <1>3, <2>4
<1> QED BY <1>2, <1>3

\* What the counters say of the handles.
LEMMA CountersTell ==
    ASSUME Counted
    PROVE  /\ mWeak \in Nat /\ mStrong \in Nat
           /\ mStrong - INITIAL_STRONG_VALUE < INITIAL_STRONG_VALUE
           /\ mWeak = 0 <=> Weaks = {}
           /\ mStrong = 0 <=> mStrong < INITIAL_STRONG_VALUE /\ Strongs = {}
           /\ mStrong = INITIAL_STRONG_VALUE => Strongs = {}
           /\ mStrong >= INITIAL_STRONG_VALUE /\ Strongs = {} => mStrong = INITIAL_STRONG_VALUE
<1>1. Strongs = In(Strong) /\ Weaks = In(Weak)
  BY DEF Strongs, Weaks, In
<1> QED BY <1>1, InFinite, RefAssumption DEF Counted

\* The handle that takes a counter from one to nothing was the last one.
LEMMA LastOne ==
    ASSUME Counted, NEW h \in Handles
    PROVE  /\ mWeak = 1 /\ at[h] \in Weak => Weaks = {h}
           /\ mStrong = 1 /\ INITIAL_STRONG_VALUE > 1 /\ at[h] \in Strong => Strongs = {h}
<1>1. Strongs = In(Strong) /\ Weaks = In(Weak)
  BY DEF Strongs, Weaks, In
<1>2. ASSUME NEW C, Cardinality(In(C)) = 1, at[h] \in C PROVE In(C) = {h}
  <2>1. h \in In(C)
    BY <1>2 DEF In
  <2>2. PICK x : In(C) = {x}
    BY Zenon, <1>2, InFinite, FS_Singleton
  <2> QED BY <2>1, <2>2
<1>3. mWeak = 1 /\ at[h] \in Weak => Weaks = {h}
  BY Zenon, <1>1, <1>2 DEF Counted
<1>4. mStrong = 1 /\ INITIAL_STRONG_VALUE > 1 => Cardinality(In(Strong)) = 1
  BY <1>1, InFinite, RefAssumption DEF Counted
<1> QED BY <1>1, <1>2, <1>3, <1>4

W(x) == IF x \in Weak THEN 1 ELSE 0
S(x) == IF x \in Strong THEN 1 ELSE 0

LEMMA CountedMoves ==
    ASSUME RefTypeOK, Counted, NEW h \in Handles, NEW p, at' = [at EXCEPT ![h] = p],
           mWeak' = mWeak + W(p) - W(at[h]),
           \/ mStrong' = mStrong + S(p) - S(at[h])
           \/ /\ mStrong >= INITIAL_STRONG_VALUE
              /\ mStrong' = mStrong + S(p) - S(at[h]) - INITIAL_STRONG_VALUE
    PROVE  Counted'
<1>1. /\ Strongs = In(Strong) /\ Weaks = In(Weak)
      /\ Strongs' = In(Strong)' /\ Weaks' = In(Weak)'
  BY DEF Strongs, Weaks, In
<1>2. at \in [Handles -> Places] /\ mStrong \in Int /\ mWeak \in Int
  BY DEF RefTypeOK
<1>3. Cardinality(In(Weak)') = Cardinality(In(Weak)) + W(p) - W(at[h])
  BY Zenon, <1>2, Recount DEF W
<1>4. Cardinality(In(Strong)') = Cardinality(In(Strong)) + S(p) - S(at[h])
  BY Zenon, <1>2, Recount DEF S
<1>5. Cardinality(In(Strong)) \in Nat /\ Cardinality(In(Strong)) < INITIAL_STRONG_VALUE
  BY InFinite
<1>6. S(p) \in {0, 1} /\ S(at[h]) \in {0, 1} /\ INITIAL_STRONG_VALUE \in Nat
  BY RefAssumption DEF S
<1>7. mWeak' = Cardinality(Weaks')
  BY <1>1, <1>3 DEF Counted
<1>8. \/ mStrong' = Cardinality(Strongs')
      \/ mStrong' = INITIAL_STRONG_VALUE + Cardinality(Strongs')
  BY <1>1, <1>2, <1>4, <1>5, <1>6 DEF Counted
<1> QED BY <1>7, <1>8 DEF Counted

\* Counting one handle more does not bring the initial value back.
LEMMA StrongGrows ==
    ASSUME RefTypeOK, Counted, NEW h \in Handles, at[h] \notin Strong,
           mStrong < INITIAL_STRONG_VALUE
    PROVE  mStrong + 1 < INITIAL_STRONG_VALUE
<1> DEFINE T == In(Strong) \union {h}
<1>1. Strongs = In(Strong) /\ h \notin In(Strong)
  BY DEF Strongs, In
<1>2. Cardinality(T) = Cardinality(In(Strong)) + 1
  BY Zenon, <1>1, InFinite, FS_AddElement
<1>3. Cardinality(T) < INITIAL_STRONG_VALUE
  <2>1. T \subseteq Handles
    BY DEF In
  <2> HIDE DEF T
  <2> QED BY <2>1, FewHandles
<1>4. mStrong = Cardinality(In(Strong))
  BY <1>1, InFinite, RefAssumption DEF Counted
<1> HIDE DEF T
<1> QED BY <1>2, <1>3, <1>4

-----------------------------------------------------------------------------
(* Induction, action by action.                                            *)

LEMMA StartIncStrongKeeps ==
    ASSUME RefIInv, ~FirstRefShared, NEW h \in Handles, StartIncStrong(h)
    PROVE  RefIInv'
<1> USE DEF Strong, Taking, Weak, Calling
<1> USE RefAssumption DEF RefIInv
<1>1. RefTypeOK'
  <2>1. /\ at' \in [Handles -> Places] /\ raw' \in BOOLEAN
        /\ src' \in [Handles -> Handles \union {Raw}]
    BY Zenon DEF RefTypeOK, Places, StartIncStrong, Calls, RawUsed
  <2> QED BY <2>1 DEF RefTypeOK, StartIncStrong, Lives
<1>2. Counted'
  <2>1. at' = [at EXCEPT ![h] = at'[h]]
    BY DEF RefTypeOK, StartIncStrong, Moves, Calls, Lives, RawUsed
  <2>2. mWeak' = mWeak + W(at'[h]) - W(at[h])
    BY DEF RefTypeOK, W, StartIncStrong, Moves, Calls, Lives, RawUsed
  <2>3. \/ mStrong' = mStrong + S(at'[h]) - S(at[h])
        \/ /\ mStrong >= INITIAL_STRONG_VALUE
           /\ mStrong' = mStrong + S(at'[h]) - S(at[h]) - INITIAL_STRONG_VALUE
    BY DEF RefTypeOK, BeforeFirst, S, StartIncStrong, Moves, Calls, Lives, RawUsed
  <2> QED BY <2>1, <2>2, <2>3, CountedMoves
<1>3. BeforeFirst'
  BY CountersTell, StrongGrows DEF RefTypeOK, Sources, BeforeFirst, Strongs, Raw,
     StartIncStrong, Moves, Calls, Lives, RawUsed
<1>4. Sources'
  BY CountersTell DEF RefTypeOK, Sources, BeforeFirst, Raw, StartIncStrong, Moves, Calls,
     Lives, RawUsed
<1>5. Ends'
  BY CountersTell, LastOne, <1>2 DEF RefTypeOK, Sources, BeforeFirst, Ends, Weaks, Strongs,
     Lifetimes, StartIncStrong, Moves, Calls, Lives, RawUsed
<1> QED BY <1>1, <1>2, <1>3, <1>4, <1>5

LEMMA IncStrongKeeps ==
    ASSUME RefIInv, ~FirstRefShared, NEW h \in Handles, IncStrong(h)
    PROVE  RefIInv'
<1> USE DEF Strong, Taking, Weak, Calling
<1> USE RefAssumption DEF RefIInv
<1>1. RefTypeOK'
  BY DEF RefTypeOK, Places, IncStrong, Moves, Calls, Lives
<1>2. Counted'
  <2>1. at' = [at EXCEPT ![h] = at'[h]]
    BY DEF RefTypeOK, IncStrong, Moves, Calls, Lives
  <2>2. mWeak' = mWeak + W(at'[h]) - W(at[h])
    BY DEF RefTypeOK, W, IncStrong, Moves, Calls, Lives
  <2>3. \/ mStrong' = mStrong + S(at'[h]) - S(at[h])
        \/ /\ mStrong >= INITIAL_STRONG_VALUE
           /\ mStrong' = mStrong + S(at'[h]) - S(at[h]) - INITIAL_STRONG_VALUE
    BY DEF RefTypeOK, BeforeFirst, S, IncStrong, Moves, Calls, Lives
  <2> QED BY <2>1, <2>2, <2>3, CountedMoves
<1>3. BeforeFirst'
  BY CountersTell, StrongGrows DEF RefTypeOK, Sources, BeforeFirst, Strongs, Raw,
     IncStrong, Moves, Calls, Lives
<1>4. Sources'
  BY CountersTell DEF RefTypeOK, Sources, BeforeFirst, Raw, IncStrong, Moves, Calls, Lives
<1>5. Ends'
  BY CountersTell, LastOne, <1>2 DEF RefTypeOK, Sources, BeforeFirst, Ends, Weaks, Strongs,
     Lifetimes, IncStrong, Moves, Calls, Lives
<1> QED BY <1>1, <1>2, <1>3, <1>4, <1>5

LEMMA FirstRefKeeps ==
    ASSUME RefIInv, ~FirstRefShared, NEW h \in Handles, FirstRef(h)
    PROVE  RefIInv'
<1> USE DEF Strong, Taking, Weak, Calling
<1> USE RefAssumption DEF RefIInv
<1>1. RefTypeOK'
  BY DEF RefTypeOK, Places, FirstRef, Moves, Calls, Lives
<1>2. Counted'
  <2>1. at' = [at EXCEPT ![h] = at'[h]]
    BY DEF RefTypeOK, FirstRef, Moves, Calls, Lives
  <2>2. mWeak' = mWeak + W(at'[h]) - W(at[h])
    BY DEF RefTypeOK, W, FirstRef, Moves, Calls, Lives
  <2>3. \/ mStrong' = mStrong + S(at'[h]) - S(at[h])
        \/ /\ mStrong >= INITIAL_STRONG_VALUE
           /\ mStrong' = mStrong + S(at'[h]) - S(at[h]) - INITIAL_STRONG_VALUE
    BY DEF RefTypeOK, BeforeFirst, S, FirstRef, Moves, Calls, Lives
  <2> QED BY <2>1, <2>2, <2>3, CountedMoves
<1>3. BeforeFirst'
  BY CountersTell, StrongGrows DEF RefTypeOK, Sources, BeforeFirst, Strongs, Raw, FirstRef,
     Moves, Calls, Lives
<1>4. Sources'
  BY CountersTell DEF RefTypeOK, Sources, BeforeFirst, Raw, FirstRef, Moves, Calls, Lives
<1>5. Ends'
  BY CountersTell, LastOne, <1>2 DEF RefTypeOK, Sources, BeforeFirst, Ends, Weaks, Strongs,
     Lifetimes, FirstRef, Moves, Calls, Lives
<1> QED BY <1>1, <1>2, <1>3, <1>4, <1>5

LEMMA StartForceIncStrongKeeps ==
    ASSUME RefIInv, ~FirstRefShared, NEW h \in Handles, StartForceIncStrong(h)
    PROVE  RefIInv'
<1> USE DEF Strong, Taking, Weak, Calling
<1> USE RefAssumption DEF RefIInv
<1>1. RefTypeOK'
  BY DEF RefTypeOK, Places, StartForceIncStrong, Moves, Calls, Lives, Referenced
<1>2. Counted'
  <2>1. at' = [at EXCEPT ![h] = at'[h]]
    BY DEF RefTypeOK, StartForceIncStrong, Moves, Calls, Lives, Referenced
  <2>2. mWeak' = mWeak + W(at'[h]) - W(at[h])
    BY DEF RefTypeOK, W, StartForceIncStrong, Moves, Calls, Lives, Referenced
  <2>3. \/ mStrong' = mStrong + S(at'[h]) - S(at[h])
        \/ /\ mStrong >= INITIAL_STRONG_VALUE
           /\ mStrong' = mStrong + S(at'[h]) - S(at[h]) - INITIAL_STRONG_VALUE
    BY DEF RefTypeOK, BeforeFirst, S, StartForceIncStrong, Moves, Calls, Lives, Referenced
  <2> QED BY <2>1, <2>2, <2>3, CountedMoves
<1>3. BeforeFirst'
  BY CountersTell, StrongGrows DEF RefTypeOK, Sources, BeforeFirst, Strongs, Raw,
     StartForceIncStrong, Moves, Calls, Lives, Referenced
<1>4. Sources'
  BY CountersTell DEF RefTypeOK, Sources, BeforeFirst, Raw, StartForceIncStrong, Moves,
     Calls, Lives, Referenced
<1>5. Ends'
  BY CountersTell, LastOne, <1>2 DEF RefTypeOK, Sources, BeforeFirst, Ends, Weaks, Strongs,
     Lifetimes, StartForceIncStrong, Moves, Calls, Lives, Referenced
<1> QED BY <1>1, <1>2, <1>3, <1>4, <1>5

LEMMA ForceIncStrongKeeps ==
    ASSUME RefIInv, ~FirstRefShared, NEW h \in Handles, ForceIncStrong(h)
    PROVE  RefIInv'
<1> USE DEF Strong, Taking, Weak, Calling
<1> USE RefAssumption DEF RefIInv
<1>1. RefTypeOK'
  BY DEF RefTypeOK, Places, ForceIncStrong, Moves, Calls, Lives
<1>2. Counted'
  <2>1. at' = [at EXCEPT ![h] = at'[h]]
    BY DEF RefTypeOK, ForceIncStrong, Moves, Calls, Lives
  <2>2. mWeak' = mWeak + W(at'[h]) - W(at[h])
    BY DEF RefTypeOK, W, ForceIncStrong, Moves, Calls, Lives
  <2>3. \/ mStrong' = mStrong + S(at'[h]) - S(at[h])
        \/ /\ mStrong >= INITIAL_STRONG_VALUE
           /\ mStrong' = mStrong + S(at'[h]) - S(at[h]) - INITIAL_STRONG_VALUE
    BY DEF RefTypeOK, BeforeFirst, S, ForceIncStrong, Moves, Calls, Lives
  <2> QED BY <2>1, <2>2, <2>3, CountedMoves
<1>3. BeforeFirst'
  BY CountersTell, StrongGrows DEF RefTypeOK, Sources, BeforeFirst, Strongs, Raw,
     ForceIncStrong, Moves, Calls, Lives
<1>4. Sources'
  BY CountersTell DEF RefTypeOK, Sources, BeforeFirst, Raw, ForceIncStrong, Moves, Calls, Lives
<1>5. Ends'
  BY CountersTell, LastOne, <1>2 DEF RefTypeOK, Sources, BeforeFirst, Ends, Weaks, Strongs,
     Lifetimes, ForceIncStrong, Moves, Calls, Lives
<1> QED BY <1>1, <1>2, <1>3, <1>4, <1>5

LEMMA DecStrongKeeps ==
    ASSUME RefIInv, ~FirstRefShared, NEW h \in Handles, DecStrong(h)
    PROVE  RefIInv'
<1> USE DEF Strong, Taking, Weak, Calling
<1> USE RefAssumption DEF RefIInv
<1>1. RefTypeOK'
  BY DEF RefTypeOK, Places, DecStrong, Moves, Calls, Lives, InUse
<1>2. Counted'
  <2>1. at' = [at EXCEPT ![h] = at'[h]]
    BY DEF RefTypeOK, DecStrong, Moves, Calls, Lives, InUse
  <2>2. mWeak' = mWeak + W(at'[h]) - W(at[h])
    BY DEF RefTypeOK, W, DecStrong, Moves, Calls, Lives, InUse
  <2>3. \/ mStrong' = mStrong + S(at'[h]) - S(at[h])
        \/ /\ mStrong >= INITIAL_STRONG_VALUE
           /\ mStrong' = mStrong + S(at'[h]) - S(at[h]) - INITIAL_STRONG_VALUE
    BY DEF RefTypeOK, BeforeFirst, S, DecStrong, Moves, Calls, Lives, InUse
  <2> QED BY <2>1, <2>2, <2>3, CountedMoves
<1>3. BeforeFirst'
  BY CountersTell, StrongGrows DEF RefTypeOK, Sources, BeforeFirst, Strongs, Raw,
     DecStrong, Moves, Calls, Lives, InUse
<1>4. Sources'
  BY CountersTell DEF RefTypeOK, Sources, BeforeFirst, Raw, DecStrong, Moves, Calls, Lives,
     InUse
<1>5. Ends'
  BY CountersTell, LastOne, <1>2 DEF RefTypeOK, Sources, BeforeFirst, Ends, Weaks, Strongs,
     Lifetimes, DecStrong, Moves, Calls, Lives, InUse
<1> QED BY <1>1, <1>2, <1>3, <1>4, <1>5

LEMMA LastStrongKeeps ==
    ASSUME RefIInv, ~FirstRefShared, NEW h \in Handles, LastStrong(h)
    PROVE  RefIInv'
<1> USE DEF Strong, Taking, Weak, Calling
<1> USE RefAssumption DEF RefIInv
<1>1. RefTypeOK'
  BY DEF RefTypeOK, Places, LastStrong, Moves, Calls, Lives, DeleteObject, FreesRefs, Deleted
<1>2. Counted'
  <2>1. at' = [at EXCEPT ![h] = at'[h]]
    BY DEF RefTypeOK, LastStrong, Moves, Calls, Lives, DeleteObject, FreesRefs, Deleted
  <2>2. mWeak' = mWeak + W(at'[h]) - W(at[h])
    BY DEF RefTypeOK, W, LastStrong, Moves, Calls, Lives, DeleteObject, FreesRefs, Deleted
  <2>3. \/ mStrong' = mStrong + S(at'[h]) - S(at[h])
        \/ /\ mStrong >= INITIAL_STRONG_VALUE
           /\ mStrong' = mStrong + S(at'[h]) - S(at[h]) - INITIAL_STRONG_VALUE
    BY DEF RefTypeOK, BeforeFirst, S, LastStrong, Moves, Calls, Lives, DeleteObject,
       FreesRefs, Deleted
  <2> QED BY <2>1, <2>2, <2>3, CountedMoves
<1>3. BeforeFirst'
  BY CountersTell, StrongGrows DEF RefTypeOK, Sources, BeforeFirst, Strongs, Raw,
     LastStrong, Moves, Calls, Lives, DeleteObject, FreesRefs, Deleted
<1>4. Sources'
  BY CountersTell DEF RefTypeOK, Sources, BeforeFirst, Raw, LastStrong, Moves, Calls,
     Lives, DeleteObject, FreesRefs, Deleted
<1>5. Ends'
  BY CountersTell, LastOne, <1>2 DEF RefTypeOK, Sources, BeforeFirst, Ends, Weaks, Strongs,
     Lifetimes, LastStrong, Moves, Calls, Lives, DeleteObject, FreesRefs, Deleted
<1> QED BY <1>1, <1>2, <1>3, <1>4, <1>5

LEMMA DecWeakKeeps ==
    ASSUME RefIInv, ~FirstRefShared, NEW h \in Handles, DecWeak(h)
    PROVE  RefIInv'
<1> USE DEF Strong, Taking, Weak, Calling
<1> USE RefAssumption DEF RefIInv
<1>1. RefTypeOK'
  BY DEF RefTypeOK, Places, DecWeak, Moves, Calls, Lives, InUse
<1>2. Counted'
  <2>1. at' = [at EXCEPT ![h] = at'[h]]
    BY DEF RefTypeOK, DecWeak, Moves, Calls, Lives, InUse
  <2>2. mWeak' = mWeak + W(at'[h]) - W(at[h])
    BY DEF RefTypeOK, W, DecWeak, Moves, Calls, Lives, InUse
  <2>3. \/ mStrong' = mStrong + S(at'[h]) - S(at[h])
        \/ /\ mStrong >= INITIAL_STRONG_VALUE
           /\ mStrong' = mStrong + S(at'[h]) - S(at[h]) - INITIAL_STRONG_VALUE
    BY DEF RefTypeOK, BeforeFirst, S, DecWeak, Moves, Calls, Lives, InUse
  <2> QED BY <2>1, <2>2, <2>3, CountedMoves
<1>3. BeforeFirst'
  BY CountersTell, StrongGrows DEF RefTypeOK, Sources, BeforeFirst, Strongs, Raw, DecWeak,
     Moves, Calls, Lives, InUse
<1>4. Sources'
  BY CountersTell DEF RefTypeOK, Sources, BeforeFirst, Raw, DecWeak, Moves, Calls, Lives, InUse
<1>5. Ends'
  <2>0. /\ at[h] \in {"decWeak", "wp"} /\ at'[h] \in {"lastWeak", "none"}
        /\ at'[h] = "lastWeak" <=> mWeak = 1
        /\ \A g \in Handles : g # h => at'[g] = at[g]
        /\ UNCHANGED <<mStrong, mFlags, object, refs, raw>>
    BY DEF RefTypeOK, DecWeak, Moves, Calls, Lives
  <2>1. h \in Weaks /\ refs = "live" /\ ~raw
    BY <2>0 DEF Weaks, Ends, RefTypeOK, BeforeFirst
  <2>2. Weaks' = Weaks \ {h}
    BY <2>0 DEF Weaks
  <2>3. Weaks' = {} <=> mWeak = 1
    <3>1. mWeak = 1 => Weaks = {h}
      BY <2>0, LastOne
    <3>2. Weaks = {h} => mWeak = 1
      BY Zenon, FS_Singleton DEF Counted
    <3> QED BY <2>1, <2>2, <3>1, <3>2
  <2>4. \A g \in Handles : at[g] # "lastWeak"
    BY <2>1 DEF Ends
  <2>5. \A g \in Handles : at'[g] = "lastWeak" =>
          /\ Weaks' = {} /\ refs' = "live"
          /\ \A k \in Handles : at'[k] = "lastWeak" => k = g
    BY <2>0, <2>1, <2>3, <2>4
  <2>6. mFlags = "STRONG" /\ Weaks' = {} => object = "dead" \/ mStrong = INITIAL_STRONG_VALUE
    <3>1. SUFFICES ASSUME mFlags = "STRONG", Weaks' = {}
                   PROVE  object = "dead" \/ mStrong = INITIAL_STRONG_VALUE
      OBVIOUS
    <3>2. Strongs = {}
      BY <2>0, <2>2, <3>1 DEF Weaks, Strongs
    <3>3. \A g \in Handles : at[g] # "lastStrong"
      BY <2>0, <2>2, <3>1 DEF Weaks
    <3> QED BY <2>1, <3>1, <3>2, <3>3, CountersTell DEF Ends, RefTypeOK
  <2>7. Weaks' = {} => \E g \in Handles : at'[g] = "lastWeak"
    BY <2>0, <2>3
  <2>8. mFlags = "STRONG" =>
          /\ mStrong = 0 /\ object = "live" => \E g \in Handles : at'[g] = "lastStrong"
          /\ object = "dead" => mStrong = 0
          /\ \A g \in Handles : at'[g] = "lastStrong" =>
                /\ mStrong = 0 /\ object = "live"
                /\ \A k \in Handles : at'[k] = "lastStrong" => k = g
    BY <2>0, <2>1 DEF Ends
  <2> QED BY <2>0, <2>1, <2>5, <2>6, <2>7, <2>8 DEF Ends
<1> QED BY <1>1, <1>2, <1>3, <1>4, <1>5

LEMMA LastWeakKeeps ==
    ASSUME RefIInv, ~FirstRefShared, NEW h \in Handles, LastWeak(h)
    PROVE  RefIInv'
<1> USE DEF Strong, Taking, Weak, Calling
<1> USE RefAssumption DEF RefIInv
<1>1. RefTypeOK'
  BY DEF RefTypeOK, Places, LastWeak, Moves, Calls, Lives, DeleteObject, FreesRefs, Deleted
<1>2. Counted'
  <2>1. at' = [at EXCEPT ![h] = at'[h]]
    BY DEF RefTypeOK, LastWeak, Moves, Calls, Lives, DeleteObject, FreesRefs, Deleted
  <2>2. mWeak' = mWeak + W(at'[h]) - W(at[h])
    BY DEF RefTypeOK, W, LastWeak, Moves, Calls, Lives, DeleteObject, FreesRefs, Deleted
  <2>3. \/ mStrong' = mStrong + S(at'[h]) - S(at[h])
        \/ /\ mStrong >= INITIAL_STRONG_VALUE
           /\ mStrong' = mStrong + S(at'[h]) - S(at[h]) - INITIAL_STRONG_VALUE
    BY DEF RefTypeOK, BeforeFirst, S, LastWeak, Moves, Calls, Lives, DeleteObject,
       FreesRefs, Deleted
  <2> QED BY <2>1, <2>2, <2>3, CountedMoves
<1>3. BeforeFirst'
  BY CountersTell, StrongGrows DEF RefTypeOK, Sources, BeforeFirst, Strongs, Raw, LastWeak,
     Moves, Calls, Lives, DeleteObject, FreesRefs, Deleted
<1>4. Sources'
  BY CountersTell DEF RefTypeOK, Sources, BeforeFirst, Raw, LastWeak, Moves, Calls, Lives,
     DeleteObject, FreesRefs, Deleted
<1>5. Ends'
  BY CountersTell, LastOne, <1>2 DEF RefTypeOK, Sources, BeforeFirst, Ends, Weaks, Strongs,
     Lifetimes, LastWeak, Moves, Calls, Lives, DeleteObject, FreesRefs, Deleted
<1> QED BY <1>1, <1>2, <1>3, <1>4, <1>5

LEMMA CreateWeakKeeps ==
    ASSUME RefIInv, ~FirstRefShared, NEW h \in Handles, CreateWeak(h)
    PROVE  RefIInv'
<1> USE DEF Strong, Taking, Weak, Calling
<1> USE RefAssumption DEF RefIInv
<1>1. RefTypeOK'
  <2>1. at' \in [Handles -> Places] /\ src' \in [Handles -> Handles \union {Raw}]
    BY DEF RefTypeOK, Places, CreateWeak, Moves, Calls
  <2>2. raw' \in BOOLEAN
    BY Zenon DEF RefTypeOK, CreateWeak, RawUsed
  <2> QED BY <2>1, <2>2 DEF RefTypeOK, CreateWeak, Lives
<1>2. Counted'
  <2>1. at' = [at EXCEPT ![h] = at'[h]]
    BY DEF RefTypeOK, CreateWeak, Moves, Calls, Lives, RawUsed
  <2>2. mWeak' = mWeak + W(at'[h]) - W(at[h])
    BY DEF RefTypeOK, W, CreateWeak, Moves, Calls, Lives, RawUsed
  <2>3. \/ mStrong' = mStrong + S(at'[h]) - S(at[h])
        \/ /\ mStrong >= INITIAL_STRONG_VALUE
           /\ mStrong' = mStrong + S(at'[h]) - S(at[h]) - INITIAL_STRONG_VALUE
    BY DEF RefTypeOK, BeforeFirst, S, CreateWeak, Moves, Calls, Lives, RawUsed
  <2> QED BY <2>1, <2>2, <2>3, CountedMoves
<1>3. BeforeFirst'
  BY CountersTell, StrongGrows DEF RefTypeOK, Sources, BeforeFirst, Strongs, Raw,
     CreateWeak, Moves, Calls, Lives, RawUsed
<1>4. Sources'
  BY CountersTell DEF RefTypeOK, Sources, BeforeFirst, Raw, CreateWeak, Moves, Calls,
     Lives, RawUsed
<1>5. Ends'
  BY CountersTell, LastOne, <1>2 DEF RefTypeOK, Sources, BeforeFirst, Ends, Weaks, Strongs,
     Lifetimes, CreateWeak, Moves, Calls, Lives, RawUsed
<1> QED BY <1>1, <1>2, <1>3, <1>4, <1>5

LEMMA StartAttemptKeeps ==
    ASSUME RefIInv, ~FirstRefShared, NEW h \in Handles, StartAttempt(h)
    PROVE  RefIInv'
<1> USE DEF Strong, Taking, Weak, Calling
<1> USE RefAssumption DEF RefIInv
<1>1. RefTypeOK'
  BY DEF RefTypeOK, Places, StartAttempt, Moves, Calls, Lives
<1>2. Counted'
  <2>1. at' = [at EXCEPT ![h] = at'[h]]
    BY DEF RefTypeOK, StartAttempt, Moves, Calls, Lives
  <2>2. mWeak' = mWeak + W(at'[h]) - W(at[h])
    BY DEF RefTypeOK, W, StartAttempt, Moves, Calls, Lives
  <2>3. \/ mStrong' = mStrong + S(at'[h]) - S(at[h])
        \/ /\ mStrong >= INITIAL_STRONG_VALUE
           /\ mStrong' = mStrong + S(at'[h]) - S(at[h]) - INITIAL_STRONG_VALUE
    BY DEF RefTypeOK, BeforeFirst, S, StartAttempt, Moves, Calls, Lives
  <2> QED BY <2>1, <2>2, <2>3, CountedMoves
<1>3. BeforeFirst'
  BY CountersTell, StrongGrows DEF RefTypeOK, Sources, BeforeFirst, Strongs, Raw,
     StartAttempt, Moves, Calls, Lives
<1>4. Sources'
  BY CountersTell DEF RefTypeOK, Sources, BeforeFirst, Raw, StartAttempt, Moves, Calls, Lives
<1>5. Ends'
  BY CountersTell, LastOne, <1>2 DEF RefTypeOK, Sources, BeforeFirst, Ends, Weaks, Strongs,
     Lifetimes, StartAttempt, Moves, Calls, Lives
<1> QED BY <1>1, <1>2, <1>3, <1>4, <1>5

LEMMA AttemptCommonKeeps ==
    ASSUME RefIInv, ~FirstRefShared, NEW h \in Handles, AttemptCommon(h)
    PROVE  RefIInv'
<1> USE DEF Strong, Taking, Weak, Calling
<1> USE RefAssumption DEF RefIInv
<1>1. RefTypeOK'
  BY DEF RefTypeOK, Places, AttemptCommon, Moves, Calls, Lives
<1>2. Counted'
  <2>1. at' = [at EXCEPT ![h] = at'[h]]
    BY DEF RefTypeOK, AttemptCommon, Moves, Calls, Lives
  <2>2. mWeak' = mWeak + W(at'[h]) - W(at[h])
    BY DEF RefTypeOK, W, AttemptCommon, Moves, Calls, Lives
  <2>3. \/ mStrong' = mStrong + S(at'[h]) - S(at[h])
        \/ /\ mStrong >= INITIAL_STRONG_VALUE
           /\ mStrong' = mStrong + S(at'[h]) - S(at[h]) - INITIAL_STRONG_VALUE
    BY DEF RefTypeOK, BeforeFirst, S, AttemptCommon, Moves, Calls, Lives
  <2> QED BY <2>1, <2>2, <2>3, CountedMoves
<1>3. BeforeFirst'
  BY CountersTell, StrongGrows DEF RefTypeOK, Sources, BeforeFirst, Strongs, Raw,
     AttemptCommon, Moves, Calls, Lives
<1>4. Sources'
  BY CountersTell DEF RefTypeOK, Sources, BeforeFirst, Raw, AttemptCommon, Moves, Calls, Lives
<1>5. Ends'
  BY CountersTell, LastOne, <1>2 DEF RefTypeOK, Sources, BeforeFirst, Ends, Weaks, Strongs,
     Lifetimes, AttemptCommon, Moves, Calls, Lives
<1> QED BY <1>1, <1>2, <1>3, <1>4, <1>5

LEMMA AttemptHardKeeps ==
    ASSUME RefIInv, ~FirstRefShared, NEW h \in Handles, AttemptHard(h)
    PROVE  RefIInv'
<1> USE DEF Strong, Taking, Weak, Calling
<1> USE RefAssumption DEF RefIInv
<1>1. RefTypeOK'
  BY DEF RefTypeOK, Places, AttemptHard, Moves, Calls, Lives
<1>2. Counted'
  <2>1. at' = [at EXCEPT ![h] = at'[h]]
    BY DEF RefTypeOK, AttemptHard, Moves, Calls, Lives
  <2>2. mWeak' = mWeak + W(at'[h]) - W(at[h])
    BY DEF RefTypeOK, W, AttemptHard, Moves, Calls, Lives
  <2>3. \/ mStrong' = mStrong + S(at'[h]) - S(at[h])
        \/ /\ mStrong >= INITIAL_STRONG_VALUE
           /\ mStrong' = mStrong + S(at'[h]) - S(at[h]) - INITIAL_STRONG_VALUE
    BY DEF RefTypeOK, BeforeFirst, S, AttemptHard, Moves, Calls, Lives
  <2> QED BY <2>1, <2>2, <2>3, CountedMoves
<1>3. BeforeFirst'
  BY CountersTell, StrongGrows DEF RefTypeOK, Sources, BeforeFirst, Strongs, Raw,
     AttemptHard, Moves, Calls, Lives
<1>4. Sources'
  BY CountersTell DEF RefTypeOK, Lifetimes, Sources, BeforeFirst, Raw, AttemptHard, Moves,
     Calls, Lives
<1>5. Ends'
  BY CountersTell, LastOne, <1>2 DEF RefTypeOK, Sources, BeforeFirst, Ends, Weaks, Strongs,
     Lifetimes, AttemptHard, Moves, Calls, Lives
<1> QED BY <1>1, <1>2, <1>3, <1>4, <1>5

LEMMA AttemptInitialKeeps ==
    ASSUME RefIInv, ~FirstRefShared, NEW h \in Handles, AttemptInitial(h)
    PROVE  RefIInv'
<1> USE DEF Strong, Taking, Weak, Calling
<1> USE RefAssumption DEF RefIInv
<1>1. RefTypeOK'
  BY DEF RefTypeOK, Places, AttemptInitial, Moves, Calls, Lives
<1>2. Counted'
  <2>1. at' = [at EXCEPT ![h] = at'[h]]
    BY DEF RefTypeOK, AttemptInitial, Moves, Calls, Lives
  <2>2. mWeak' = mWeak + W(at'[h]) - W(at[h])
    BY DEF RefTypeOK, W, AttemptInitial, Moves, Calls, Lives
  <2>3. \/ mStrong' = mStrong + S(at'[h]) - S(at[h])
        \/ /\ mStrong >= INITIAL_STRONG_VALUE
           /\ mStrong' = mStrong + S(at'[h]) - S(at[h]) - INITIAL_STRONG_VALUE
    BY DEF RefTypeOK, BeforeFirst, S, AttemptInitial, Moves, Calls, Lives
  <2> QED BY <2>1, <2>2, <2>3, CountedMoves
<1>3. BeforeFirst'
  BY CountersTell, StrongGrows DEF RefTypeOK, Sources, BeforeFirst, Strongs, Raw,
     AttemptInitial, Moves, Calls, Lives
<1>4. Sources'
  BY CountersTell DEF RefTypeOK, Sources, BeforeFirst, Raw, AttemptInitial, Moves, Calls, Lives
<1>5. Ends'
  BY CountersTell, LastOne, <1>2 DEF RefTypeOK, Sources, BeforeFirst, Ends, Weaks, Strongs,
     Lifetimes, AttemptInitial, Moves, Calls, Lives
<1> QED BY <1>1, <1>2, <1>3, <1>4, <1>5

LEMMA AttemptExtendedKeeps ==
    ASSUME RefIInv, ~FirstRefShared, NEW h \in Handles, AttemptExtended(h)
    PROVE  RefIInv'
<1> USE DEF Strong, Taking, Weak, Calling
<1> USE RefAssumption DEF RefIInv
<1>1. RefTypeOK'
  BY DEF RefTypeOK, Places, AttemptExtended, Moves, Calls, Lives
<1>2. Counted'
  <2>1. at' = [at EXCEPT ![h] = at'[h]]
    BY DEF RefTypeOK, AttemptExtended, Moves, Calls, Lives
  <2>2. mWeak' = mWeak + W(at'[h]) - W(at[h])
    BY DEF RefTypeOK, W, AttemptExtended, Moves, Calls, Lives
  <2>3. \/ mStrong' = mStrong + S(at'[h]) - S(at[h])
        \/ /\ mStrong >= INITIAL_STRONG_VALUE
           /\ mStrong' = mStrong + S(at'[h]) - S(at[h]) - INITIAL_STRONG_VALUE
    BY DEF RefTypeOK, BeforeFirst, S, AttemptExtended, Moves, Calls, Lives
  <2> QED BY <2>1, <2>2, <2>3, CountedMoves
<1>3. BeforeFirst'
  BY CountersTell, StrongGrows DEF RefTypeOK, Sources, BeforeFirst, Strongs, Raw,
     AttemptExtended, Moves, Calls, Lives
<1>4. Sources'
  BY CountersTell DEF RefTypeOK, Sources, BeforeFirst, Raw, AttemptExtended, Moves, Calls, Lives
<1>5. Ends'
  BY CountersTell, LastOne, <1>2 DEF RefTypeOK, Sources, BeforeFirst, Ends, Weaks, Strongs,
     Lifetimes, AttemptExtended, Moves, Calls, Lives
<1> QED BY <1>1, <1>2, <1>3, <1>4, <1>5

LEMMA FixupKeeps ==
    ASSUME RefIInv, ~FirstRefShared, NEW h \in Handles, Fixup(h)
    PROVE  RefIInv'
<1> USE DEF Strong, Taking, Weak, Calling
<1> USE RefAssumption DEF RefIInv
<1>1. RefTypeOK'
  BY DEF RefTypeOK, Places, Fixup, Moves, Calls, Lives
<1>2. Counted'
  <2>1. at' = [at EXCEPT ![h] = at'[h]]
    BY DEF RefTypeOK, Fixup, Moves, Calls, Lives
  <2>2. mWeak' = mWeak + W(at'[h]) - W(at[h])
    BY DEF RefTypeOK, W, Fixup, Moves, Calls, Lives
  <2>3. \/ mStrong' = mStrong + S(at'[h]) - S(at[h])
        \/ /\ mStrong >= INITIAL_STRONG_VALUE
           /\ mStrong' = mStrong + S(at'[h]) - S(at[h]) - INITIAL_STRONG_VALUE
    BY DEF RefTypeOK, BeforeFirst, S, Fixup, Moves, Calls, Lives
  <2> QED BY <2>1, <2>2, <2>3, CountedMoves
<1>3. BeforeFirst'
  BY CountersTell, StrongGrows DEF RefTypeOK, Sources, BeforeFirst, Strongs, Raw, Fixup,
     Moves, Calls, Lives
<1>4. Sources'
  BY CountersTell DEF RefTypeOK, Sources, BeforeFirst, Raw, Fixup, Moves, Calls, Lives
<1>5. Ends'
  BY CountersTell, LastOne, <1>2 DEF RefTypeOK, Sources, BeforeFirst, Ends, Weaks, Strongs,
     Lifetimes, Fixup, Moves, Calls, Lives
<1> QED BY <1>1, <1>2, <1>3, <1>4, <1>5

LEMMA AttemptIncWeakKeeps ==
    ASSUME RefIInv, ~FirstRefShared, NEW h \in Handles, AttemptIncWeak(h)
    PROVE  RefIInv'
<1> USE DEF Strong, Taking, Weak, Calling
<1> USE RefAssumption DEF RefIInv
<1>1. RefTypeOK'
  BY DEF RefTypeOK, Places, AttemptIncWeak, Moves, Calls, Lives, Referenced
<1>2. Counted'
  <2>1. at' = [at EXCEPT ![h] = at'[h]]
    BY DEF RefTypeOK, AttemptIncWeak, Moves, Calls, Lives, Referenced
  <2>2. mWeak' = mWeak + W(at'[h]) - W(at[h])
    BY DEF RefTypeOK, W, AttemptIncWeak, Moves, Calls, Lives, Referenced
  <2>3. \/ mStrong' = mStrong + S(at'[h]) - S(at[h])
        \/ /\ mStrong >= INITIAL_STRONG_VALUE
           /\ mStrong' = mStrong + S(at'[h]) - S(at[h]) - INITIAL_STRONG_VALUE
    BY DEF RefTypeOK, BeforeFirst, S, AttemptIncWeak, Moves, Calls, Lives, Referenced
  <2> QED BY <2>1, <2>2, <2>3, CountedMoves
<1>3. BeforeFirst'
  BY CountersTell, StrongGrows DEF RefTypeOK, Sources, BeforeFirst, Strongs, Raw,
     AttemptIncWeak, Moves, Calls, Lives, Referenced
<1>4. Sources'
  BY CountersTell DEF RefTypeOK, Sources, BeforeFirst, Raw, AttemptIncWeak, Moves, Calls,
     Lives, Referenced
<1>5. Ends'
  BY CountersTell, LastOne, <1>2 DEF RefTypeOK, Sources, BeforeFirst, Ends, Weaks, Strongs,
     Lifetimes, AttemptIncWeak, Moves, Calls, Lives, Referenced
<1> QED BY <1>1, <1>2, <1>3, <1>4, <1>5

LEMMA DeleteRawKeeps ==
    ASSUME RefIInv, DeleteRaw
    PROVE  RefIInv'
<1> USE RefAssumption DEF RefIInv, Strong, Taking, Weak, Calling
<1>1. /\ UNCHANGED <<mStrong, mWeak, mFlags, at, src>> /\ raw' = FALSE
      /\ \A h \in Handles : at[h] = "none"
      /\ object' = "dead" /\ refs' = "dead"
  BY DEF DeleteRaw, RawUsed, DeleteObject, FreesRefs, Deleted, BeforeFirst
<1>2. RefTypeOK' /\ Counted' /\ Sources'
  BY Zenon, <1>1 DEF RefTypeOK, Counted, Weaks, Strongs, Sources
<1>3. BeforeFirst'
  BY <1>1 DEF BeforeFirst
<1>4. Ends'
  BY <1>1 DEF Ends, Weaks
<1> QED BY <1>2, <1>3, <1>4

LEMMA RefIInvInit == RefInit => RefIInv
<1> SUFFICES ASSUME RefInit PROVE RefIInv
  OBVIOUS
<1> USE RefAssumption DEF RefInit, Strong, Taking, Weak, Calling
<1>1. RefTypeOK
  BY DEF RefTypeOK, Places
<1>2. Strongs = {} /\ Weaks = {}
  BY DEF Strongs, Weaks
<1>3. Counted
  BY <1>2, FS_EmptySet DEF Counted
<1>4. BeforeFirst /\ Sources
  BY DEF BeforeFirst, Sources
<1>5. Ends
  BY <1>2, <1>3, CountersTell DEF Ends
<1> QED BY <1>1, <1>3, <1>4, <1>5 DEF RefIInv

LEMMA RefIInvStep ==
    ASSUME ~FirstRefShared, RefIInv, [RefNext]_refVars
    PROVE  RefIInv'
<1>1. CASE UNCHANGED refVars
  BY <1>1 DEF refVars, RefIInv, RefTypeOK, Counted, BeforeFirst, Sources, Ends,
              Weaks, Strongs
<1>2. CASE DeleteRaw
  BY <1>2, DeleteRawKeeps
<1>3. ASSUME NEW h \in Handles,
             \/ StartIncStrong(h) \/ StartForceIncStrong(h) \/ StartAttempt(h)
             \/ CreateWeak(h) \/ AttemptIncWeak(h) \/ DecStrong(h) \/ DecWeak(h)
      PROVE  RefIInv'
  BY <1>3, StartIncStrongKeeps, StartForceIncStrongKeeps, StartAttemptKeeps,
     CreateWeakKeeps, AttemptIncWeakKeeps, DecStrongKeeps, DecWeakKeeps
<1>4. ASSUME NEW h \in Handles, RefStep(h)
      PROVE  RefIInv'
  BY <1>4, IncStrongKeeps, FirstRefKeeps, ForceIncStrongKeeps, LastStrongKeeps,
     LastWeakKeeps, AttemptCommonKeeps, AttemptHardKeeps, AttemptInitialKeeps,
     AttemptExtendedKeeps, FixupKeeps DEF RefStep
<1> QED BY <1>1, <1>2, <1>3, <1>4 DEF RefNext

LEMMA RefIInvAlways == ASSUME ~FirstRefShared PROVE RefSpec => []RefIInv
<1>1. RefIInv /\ [RefNext]_refVars => RefIInv'
  BY RefIInvStep
<1> QED BY <1>1, RefIInvInit, PTL DEF RefSpec

-----------------------------------------------------------------------------
(* What follows.                                                           *)

\* No increment, promotion or decrement, in whatever order threads make them, leaves an
\* sp<> with a destroyed object or a handle with a freed weakref_impl.
THEOREM NoHandleDangles == ASSUME ~FirstRefShared PROVE RefSpec => []HeldIsLive
<1>1. RefIInv => HeldIsLive
  <2> SUFFICES ASSUME RefIInv, NEW h \in Handles
               PROVE  /\ at[h] # "none" => refs = "live"
                      /\ at[h] = "sp" => object = "live"
    BY DEF HeldIsLive
  <2> USE DEF RefIInv, RefTypeOK
  <2>1. at[h] # "none" => refs = "live"
    BY DEF Ends, Weaks, Places
  <2>2. at[h] = "sp" => mStrong # 0
    BY CountersTell DEF Strongs, Strong
  <2> QED BY <2>1, <2>2 DEF Ends, Lifetimes
<1> QED BY <1>1, RefIInvAlways, PTL

\* The last handle to go takes the object and its weakref_impl with it, once.
THEOREM EverythingFreed == ASSUME ~FirstRefShared PROVE RefSpec => []NothingLeaks
<1>1. RefIInv => NothingLeaks
  BY DEF RefIInv, RefTypeOK, NothingLeaks, Ends, Weaks, Weak, Strong, Taking
<1> QED BY <1>1, RefIInvAlways, PTL

\* A promotion of an object of normal lifetime fails only when no sp<> is left.
THEOREM PromotionsFailLate == ASSUME ~FirstRefShared PROVE RefSpec => PromotionFails
<1>1. ASSUME RefIInv, [RefNext]_refVars
      PROVE  [\A h \in Handles :
                /\ mFlags = "STRONG" /\ at[h] \in {"attempt", "attemptInitial"}
                /\ at'[h] = "decWeak"
                => \A g \in Handles : at[g] # "sp"]_refVars
  <2>1. SUFFICES ASSUME RefNext, NEW h \in Handles, mFlags = "STRONG",
                        at[h] \in {"attempt", "attemptInitial"}, at'[h] = "decWeak"
                 PROVE  \A g \in Handles : at[g] # "sp"
    BY <1>1
  <2> USE DEF RefIInv, RefTypeOK, Moves, Calls
  <2>2. mStrong <= 0
    <3>1. CASE DeleteRaw
      BY <2>1, <3>1 DEF DeleteRaw
    <3>2. ASSUME NEW k \in Handles,
                 \/ StartIncStrong(k) \/ StartForceIncStrong(k) \/ StartAttempt(k)
                 \/ CreateWeak(k) \/ AttemptIncWeak(k)
          PROVE  FALSE
      BY <1>1, <2>1, <3>2 DEF StartIncStrong, StartForceIncStrong, StartAttempt,
         CreateWeak, AttemptIncWeak
    <3>3. ASSUME NEW k \in Handles, DecStrong(k) \/ DecWeak(k)
          PROVE  FALSE
      BY <1>1, <2>1, <3>3 DEF DecStrong, DecWeak
    <3>4. ASSUME NEW k \in Handles, RefStep(k)
          PROVE  mStrong <= 0
      <4>1. CASE AttemptHard(k)
        BY <1>1, <2>1, <4>1 DEF AttemptHard
      <4>2. CASE AttemptInitial(k)
        BY <1>1, <2>1, <4>2 DEF AttemptInitial
      <4>3. CASE \/ IncStrong(k) \/ FirstRef(k) \/ ForceIncStrong(k) \/ LastStrong(k)
                 \/ LastWeak(k)
        BY <1>1, <2>1, <4>3 DEF IncStrong, FirstRef, ForceIncStrong, LastStrong, LastWeak
      <4>4. CASE AttemptCommon(k) \/ AttemptExtended(k) \/ Fixup(k)
        BY <1>1, <2>1, <4>4 DEF AttemptCommon, AttemptExtended, Fixup
      <4> QED BY <3>4, <4>1, <4>2, <4>3, <4>4 DEF RefStep
    <3> QED BY <2>1, <3>1, <3>2, <3>3, <3>4 DEF RefNext
  <2>3. Strongs = {}
    BY <1>1, <2>2, CountersTell, RefAssumption
  <2> QED BY <2>3 DEF Strongs, Strong
<1> QED BY <1>1, RefIInvAlways, PTL DEF RefSpec, PromotionFails

-----------------------------------------------------------------------------
(* The refinement of RefHolders.                                           *)

\* A handle that moves changes the sets of holders by itself at most.
LEMMA HoldersMove ==
    ASSUME RefTypeOK, NEW h \in Handles, NEW p, at' = [at EXCEPT ![h] = p]
    PROVE  /\ Strongs' = IF p \in Strong THEN Strongs \union {h} ELSE Strongs \ {h}
           /\ Weaks' = IF p \in Weak THEN Weaks \union {h} ELSE Weaks \ {h}
           /\ h \in Strongs <=> at[h] \in Strong
           /\ h \in Weaks <=> at[h] \in Weak
           /\ (at[h] \in Strong <=> p \in Strong) => Strongs' = Strongs
           /\ (at[h] \in Weak <=> p \in Weak) => Weaks' = Weaks
BY DEF RefTypeOK, Strongs, Weaks

LEMMA SimTakeWeak ==
    ASSUME RefIInv, NEW h \in Handles,
           \/ StartIncStrong(h) \/ StartForceIncStrong(h) \/ StartAttempt(h)
           \/ CreateWeak(h) \/ AttemptIncWeak(h)
    PROVE  Holders!TakeWeak(h)
<1> USE DEF RefIInv, Strong, Taking, Weak
<1>1. /\ at[h] = "none" /\ UNCHANGED <<mFlags, object, refs>>
      /\ at' = [at EXCEPT ![h] = at'[h]] /\ at'[h] \in Weak \ Strong
  BY DEF RefTypeOK, StartIncStrong, StartForceIncStrong, StartAttempt, CreateWeak,
         AttemptIncWeak, Moves, Calls, Lives
<1>2. refs = "live"
  <2>1. raw \/ (\E g \in Handles : at[g] \in {"sp", "wp"}) \/ refs = "live"
    BY DEF StartIncStrong, StartForceIncStrong, StartAttempt, CreateWeak, AttemptIncWeak
  <2>2. (\E g \in Handles : at[g] \in {"sp", "wp"}) => Weaks # {}
    BY DEF Weaks
  <2> QED BY <2>1, <2>2 DEF BeforeFirst, Ends, RefTypeOK
<1>3. h \notin Strongs /\ h \notin Weaks /\ Strongs' = Strongs /\ Weaks' = Weaks \union {h}
  BY <1>1, HoldersMove
<1> QED BY <1>1, <1>2, <1>3 DEF Holders!TakeWeak, Strongs, Weaks

LEMMA SimTakeStrong ==
    ASSUME RefIInv, NEW h \in Handles, at'[h] \in Strong,
           \/ IncStrong(h) \/ ForceIncStrong(h) \/ AttemptCommon(h) \/ AttemptInitial(h)
           \/ AttemptExtended(h)
    PROVE  Holders!TakeStrong(h)
<1> USE DEF RefIInv, Strong, Taking, Weak
<1>1. /\ at[h] \in Taking /\ UNCHANGED <<mFlags, object, refs>>
      /\ at' = [at EXCEPT ![h] = at'[h]]
  BY DEF RefTypeOK, IncStrong, ForceIncStrong, AttemptCommon, AttemptInitial,
         AttemptExtended, Moves, Calls, Lives
<1>2. /\ h \in Weaks /\ h \notin Strongs
      /\ Strongs' = Strongs \union {h} /\ Weaks' = Weaks
  BY <1>1, HoldersMove
<1>3. refs = "live"
  BY <1>2 DEF Ends, RefTypeOK
<1>4. mFlags = "WEAK" \/ mStrong > 0
  <2>1. CASE IncStrong(h)
    <3>1. at[h] = "incStrong"
      BY <2>1 DEF IncStrong
    <3>2. CASE src[h] = Raw
      BY <3>1, <3>2, CountersTell, RefAssumption DEF BeforeFirst
    <3>3. CASE src[h] # Raw
      <4>1. src[h] \in Strongs
        BY <3>1, <3>3 DEF Sources, RefTypeOK, Strongs
      <4> QED BY <4>1, CountersTell
    <3> QED BY <3>2, <3>3
  <2>2. CASE ForceIncStrong(h) \/ AttemptExtended(h)
    BY <2>2 DEF ForceIncStrong, AttemptExtended, Sources
  <2>3. CASE AttemptCommon(h)
    BY <2>3 DEF AttemptCommon
  <2>4. CASE AttemptInitial(h)
    BY <2>4 DEF AttemptInitial, Moves, Calls, RefTypeOK
  <2> QED BY <2>1, <2>2, <2>3, <2>4
<1>5. object = "live"
  BY <1>3, <1>4 DEF Ends, RefTypeOK, Lifetimes
<1> QED BY <1>1, <1>2, <1>5 DEF Holders!TakeStrong, Strongs, Weaks

LEMMA SimStutter ==
    ASSUME RefIInv, NEW h \in Handles,
           \/ FirstRef(h) \/ Fixup(h) \/ AttemptHard(h)
           \/ AttemptInitial(h) /\ at'[h] \notin Strong
    PROVE  UNCHANGED Holders!holderVars
<1> USE DEF RefIInv, Strong, Taking, Weak
<1>1. /\ UNCHANGED <<mFlags, object, refs>> /\ at' = [at EXCEPT ![h] = at'[h]]
      /\ at[h] \in Weak /\ at'[h] \in Weak /\ (at[h] \in Strong <=> at'[h] \in Strong)
  BY DEF RefTypeOK, FirstRef, Fixup, AttemptHard, AttemptInitial, Moves, Calls, Lives
<1>2. Strongs' = Strongs /\ Weaks' = Weaks
  BY <1>1, HoldersMove
<1> QED BY <1>1, <1>2 DEF Holders!holderVars, Strongs, Weaks

LEMMA SimDrop ==
    ASSUME RefIInv, NEW h \in Handles, DecStrong(h) \/ DecWeak(h)
    PROVE  Holders!DropStrong(h) \/ Holders!DropWeak(h)
<1> USE DEF RefIInv, Strong, Taking, Weak
<1>1. UNCHANGED <<mFlags, object, refs>> /\ at' = [at EXCEPT ![h] = at'[h]]
  BY DEF RefTypeOK, DecStrong, DecWeak, Moves, Calls, Lives
<1>2. CASE DecStrong(h)
  <2>1. at[h] = "sp" /\ at'[h] \in Weak \ Strong
    BY <1>2 DEF RefTypeOK, DecStrong, Moves, Calls
  <2>2. h \in Strongs /\ Strongs' = Strongs \ {h} /\ Weaks' = Weaks
    BY <1>1, <2>1, HoldersMove
  <2> QED BY <1>1, <2>2 DEF Holders!DropStrong, Strongs, Weaks
<1>3. CASE DecWeak(h)
  <2>1. at[h] \in {"decWeak", "wp"} /\ at'[h] \notin Weak
    BY <1>3 DEF RefTypeOK, DecWeak, Moves, Calls
  <2>2. h \in Weaks \ Strongs /\ Strongs' = Strongs /\ Weaks' = Weaks \ {h}
    BY <1>1, <2>1, HoldersMove
  <2> QED BY <1>1, <2>2 DEF Holders!DropWeak, Strongs, Weaks
<1> QED BY <1>2, <1>3

\* Destructors run when nobody holds what they destroy.
LEMMA SimDestroy ==
    ASSUME RefIInv, DeleteRaw \/ \E h \in Handles : LastStrong(h) \/ LastWeak(h)
    PROVE  \/ Holders!Destroy \/ Holders!Free \/ Holders!DestroyAndFree
           \/ UNCHANGED Holders!holderVars
<1> USE DEF RefIInv, Strong, Taking, Weak
<1>1. CASE DeleteRaw
  <2>1. /\ object = "live" /\ refs = "live" /\ object' = "dead" /\ refs' = "dead"
        /\ UNCHANGED <<mFlags, at>> /\ Weaks = {}
    BY <1>1 DEF DeleteRaw, DeleteObject, FreesRefs, Deleted, BeforeFirst, Weaks
  <2> QED BY <2>1 DEF Holders!DestroyAndFree, Weaks, Strongs
<1>2. ASSUME NEW h \in Handles, LastStrong(h)
      PROVE  Holders!Destroy \/ UNCHANGED Holders!holderVars
  <2>1. at[h] = "lastStrong" /\ at' = [at EXCEPT ![h] = "decWeak"] /\ UNCHANGED mFlags
    BY <1>2 DEF LastStrong, Moves, Calls
  <2>2. Strongs' = Strongs /\ Weaks' = Weaks /\ h \in Weaks
    BY Zenon, <2>1, HoldersMove
  <2>3. CASE mFlags = "STRONG"
    <3>1. mStrong = 0 /\ object = "live" /\ refs = "live"
      BY <2>1, <2>2, <2>3 DEF Ends, RefTypeOK
    <3>2. Strongs = {} /\ ~FreesRefs
      BY <2>3, <3>1, CountersTell, RefAssumption DEF FreesRefs
    <3>3. object' = "dead" /\ refs' = refs
      BY <1>2, <2>3, <3>1, <3>2 DEF LastStrong, DeleteObject, Deleted
    <3> QED BY <2>1, <2>2, <2>3, <3>1, <3>2, <3>3 DEF Holders!Destroy, Weaks, Strongs
  <2>4. CASE mFlags # "STRONG"
    BY <1>2, <2>1, <2>2, <2>4 DEF LastStrong, Holders!holderVars, Weaks, Strongs
  <2> QED BY <2>3, <2>4
<1>3. ASSUME NEW h \in Handles, LastWeak(h)
      PROVE  Holders!Free \/ Holders!DestroyAndFree
  <2>1. at[h] = "lastWeak" /\ at' = [at EXCEPT ![h] = "none"] /\ UNCHANGED mFlags
    BY <1>3 DEF LastWeak, Moves, Calls, Calling
  <2>2. Strongs' = Strongs /\ Weaks' = Weaks /\ Weaks = {} /\ refs = "live"
    <3>1. Strongs' = Strongs /\ Weaks' = Weaks
      BY Zenon, <2>1, HoldersMove
    <3> QED BY <2>1, <3>1 DEF Ends
  <2>3. mWeak = 0
    BY <2>2, CountersTell
  <2>4. CASE mFlags = "STRONG" /\ mStrong # INITIAL_STRONG_VALUE
    <3>1. object = "dead" /\ object' = object /\ refs' = "dead"
      BY <1>3, <2>1, <2>2, <2>4 DEF LastWeak, Ends, Deleted
    <3> QED BY <2>1, <2>2, <3>1 DEF Holders!Free, Weaks, Strongs
  <2>5. CASE ~(mFlags = "STRONG" /\ mStrong # INITIAL_STRONG_VALUE)
    <3>1. FreesRefs /\ DeleteObject
      BY <1>3, <2>3, <2>5 DEF LastWeak, FreesRefs
    <3>2. object = "live"
      BY <2>2, <2>5, RefAssumption, CountersTell DEF Ends, RefTypeOK, Lifetimes
    <3>3. object' = "dead" /\ refs' = "dead"
      BY <2>2, <3>1, <3>2 DEF DeleteObject, Deleted
    <3> QED BY <2>1, <2>2, <3>2, <3>3 DEF Holders!DestroyAndFree, Weaks, Strongs
  <2> QED BY <2>4, <2>5
<1> QED BY <1>1, <1>2, <1>3

\* The two counters implement the promise to the holders of sp<> and wp<>: every atomic
\* operation is one step of RefHolders or invisible to it.
THEOREM CountersImplementHolders == ASSUME ~FirstRefShared PROVE RefSpec => KeepsPromise
<1>1. RefInit => Holders!Init
  BY DEF RefInit, Holders!Init, Strong, Taking, Weak
<1>2. ASSUME RefIInv, [RefNext]_refVars
      PROVE  [Holders!Next]_(Holders!holderVars)
  <2>1. CASE UNCHANGED refVars
    BY <2>1 DEF refVars, Holders!holderVars
  <2>2. CASE DeleteRaw
    BY <1>2, <2>2, SimDestroy DEF Holders!Next
  <2>3. ASSUME NEW h \in Handles,
               \/ StartIncStrong(h) \/ StartForceIncStrong(h) \/ StartAttempt(h)
               \/ CreateWeak(h) \/ AttemptIncWeak(h) \/ DecStrong(h) \/ DecWeak(h)
        PROVE  Holders!Next
    BY <1>2, <2>3, SimTakeWeak, SimDrop DEF Holders!Next
  <2>4. ASSUME NEW h \in Handles, RefStep(h)
        PROVE  [Holders!Next]_(Holders!holderVars)
    <3>1. CASE LastStrong(h) \/ LastWeak(h)
      BY <1>2, <3>1, SimDestroy DEF Holders!Next
    <3>2. CASE FirstRef(h) \/ Fixup(h) \/ AttemptHard(h)
      BY <1>2, <3>2, SimStutter
    <3>3. CASE AttemptInitial(h) /\ at'[h] \notin Strong
      BY <1>2, <3>3, SimStutter
    <3>4. CASE \/ IncStrong(h) \/ ForceIncStrong(h) \/ AttemptCommon(h)
               \/ AttemptExtended(h)
               \/ AttemptInitial(h) /\ at'[h] \in Strong
      <4>1. at'[h] \in Strong
        BY <1>2, <3>4 DEF IncStrong, ForceIncStrong, AttemptCommon, AttemptExtended,
           Moves, Calls, RefIInv, RefTypeOK, Strong
      <4>2. Holders!TakeStrong(h)
        BY <1>2, <3>4, <4>1, SimTakeStrong
      <4>3. Holders!Next
        BY <4>2 DEF Holders!Next
      <4> QED BY <4>3
    <3> QED BY <2>4, <3>1, <3>2, <3>3, <3>4 DEF RefStep
  <2> QED BY <1>2, <2>1, <2>2, <2>3, <2>4 DEF RefNext
<1> QED BY <1>1, <1>2, RefIInvAlways, PTL DEF RefSpec, KeepsPromise, Holders!Spec
=============================================================================
