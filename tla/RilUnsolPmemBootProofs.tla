----------------------- MODULE RilUnsolPmemBootProofs -----------------------
(***************************************************************************)
(* Proofs about three parts that have nothing in common: the unsolicited   *)
(* messages with the wake lock (RilUnsol), the choice of the ramdisk       *)
(* (BootSelect) and the pmem heap (PmemHeap).  Each section has the        *)
(* inductive invariant and the theorems of one.                            *)
(***************************************************************************)
EXTENDS RilUnsol, PmemHeap, BootSelect, TLAPS

USE SMTT(20), ZenonT(20)

-----------------------------------------------------------------------------
(* Unsolicited messages.                                                   *)

\* The type invariant in the parts that different steps touch.
ConnOK == conn \in {"none", "open", "closed"} /\ lock \in BOOLEAN
WakeOK ==
    /\ timers \subseteq Addrs /\ alloc \subseteq Addrs
    /\ cancelled \in [Addrs -> BOOLEAN] /\ last \in Addrs \cup {NULL}
PcOK ==
    /\ pc \in [Thr -> {"idle", "marshal", "nested", "send", "drop", "allocate", "copy",
                       "cancel", "mark", "timer", "publish"}]
    /\ inner \in [Thr -> BOOLEAN]
MsgOK ==
    /\ kind \in [Thr -> AllKinds] /\ nitz \in [Thr -> 0 .. MaxMsg]
    /\ nested \in [Thr -> 0 .. MaxNested]
PtrOK ==
    /\ ptr \in [Thr -> Addrs \cup {NULL}]
    /\ \A t \in Thr : pc[t] \in {"mark", "publish"} => ptr[t] \in Addrs
LoopOK ==
    /\ lpc \in {"idle", "connected", "radio", "nitz", "send", "free",
                "release", "called", "clear", "freeInfo"}
    /\ cur \in Addrs \cup {NULL}
LeftOK == msgLeft \in 0 .. MaxMsg /\ connLeft \in 0 .. MaxConn

\* A thread that carries a NITZ message has a number for it.
CarriedOK ==
    \A t \in Thr : kind[t] = "nitz" => nitz[t] \in Nitz
\* Which kinds of messages get where in RIL_onUnsolicitedResponse.
PathOK ==
    \A t \in Thr :
        /\ pc[t] = "nested" \/ inner[t] => kind[t] = "radio"
        /\ pc[t] \in {"idle", "marshal"} => ~inner[t]
        /\ pc[t] \in {"drop", "allocate", "copy"} => kind[t] = "nitz"
        /\ pc[t] \in {"cancel", "mark", "timer", "publish"} => Wakes(kind[t])
CopyOK == lastNITZ \in Nitz \cup {NULL, Torn}
TimesOK == CopyOK /\ got \in Seq(0 .. MaxMsg)

AllOK ==
    /\ ConnOK /\ WakeOK /\ PcOK /\ MsgOK /\ PtrOK /\ LoopOK /\ LeftOK
    /\ CarriedOK /\ PathOK /\ TimesOK

LEMMA Appended ==
    ASSUME NEW S, NEW q \in Seq(S), NEW e \in S
    PROVE  /\ Append(q, e) \in Seq(S)
           /\ Len(Append(q, e)) = Len(q) + 1 /\ Len(q) \in Nat
           /\ \A i \in 1 .. Len(q) + 1 :
                 Append(q, e)[i] = IF i = Len(q) + 1 THEN e ELSE q[i]
OBVIOUS

LEMMA TypeParts == AllOK => TypeOK
BY Zenon DEF AllOK, TypeOK, ConnOK, WakeOK, PcOK, MsgOK, PtrOK, LoopOK, LeftOK, TimesOK, CopyOK

LEMMA InitType == Init => AllOK
<1> SUFFICES ASSUME Init PROVE AllOK
  OBVIOUS
<1>1. ConnOK /\ WakeOK /\ PcOK /\ PtrOK /\ LoopOK
  BY Zenon DEF Init, ConnOK, WakeOK, PcOK, PtrOK, LoopOK
<1>2. MsgOK /\ LeftOK /\ CarriedOK /\ PathOK /\ TimesOK
  BY ConstantsAssumption DEF Init, MsgOK, LeftOK, CarriedOK, PathOK, TimesOK, CopyOK, AllKinds
<1> QED BY Zenon, <1>1, <1>2 DEF AllOK

\* Every step of a thread in RIL_onUnsolicitedResponse keeps the types.
LEMMA UnsolType ==
    ASSUME AllOK, NEW t \in Thr, UnsolStep(t)
    PROVE  AllOK'
<1> USE ConstantsAssumption 
        DEF AllOK, ConnOK, WakeOK, PcOK, MsgOK, PtrOK, LoopOK, LeftOK, CarriedOK, PathOK,
            TimesOK, CopyOK
<1>1. CASE MarshalFails(t)
  BY <1>1 DEF MarshalFails, Return, wake, thrs, times, left, Wakes, Nitz, Torn, AllKinds
<1>2. CASE Marshalled(t)
  <2>1. CASE kind[t] = "radio"
    <3>1. PICK n \in 0 .. MaxNested : nested' = [nested EXCEPT ![t] = n]
      BY Zenon, <1>2, <2>1 DEF Marshalled
    <3>2. nested' \in [Thr -> 0 .. MaxNested]
      BY Zenon, <3>1
    <3>3. PcOK' /\ PtrOK'
      BY Zenon, <1>2, <2>1 DEF Marshalled
    <3> QED
      BY <1>2, <3>2, <3>3 DEF Marshalled, wake, thrs, times, left, Wakes, Nitz, Torn, AllKinds
  <2>2. CASE kind[t] # "radio"
    BY <1>2, <2>2 DEF Marshalled, wake, thrs, times, left, Wakes, Nitz, Torn, AllKinds
  <2> QED BY Zenon, <2>1, <2>2
<1>3. CASE NestedBegins(t)
  BY <1>3 DEF NestedBegins, wake, thrs, times, left, Wakes, Nitz, Torn, AllKinds
<1>4. CASE NestedDone(t)
  BY <1>4 DEF NestedDone, wake, thrs, times, left, Wakes, Nitz, Torn, AllKinds
<1>5. CASE SendSucceeds(t)
  <2>1. got' \in Seq(0 .. MaxMsg)
    BY Zenon, <1>5, Appended DEF SendSucceeds
  <2>2. CASE Wakes(kind[t])
    <3>1. PcOK' /\ PtrOK' /\ PathOK'
      BY <1>5, <2>2 DEF SendSucceeds, Wakes
    <3> QED
      BY <1>5, <2>1, <3>1 DEF SendSucceeds, wake, thrs, times, left, Wakes, Nitz, Torn, AllKinds
  <2>3. CASE ~Wakes(kind[t])
    <3>1. PcOK' /\ PtrOK' /\ PathOK'
      <4>1. PcOK'
        BY Zenon, <1>5, <2>3 DEF SendSucceeds, Return, Wakes
      <4>2. PtrOK'
        BY Zenon, <1>5, <2>3 DEF SendSucceeds, Return, Wakes
      <4>3. PathOK'
        BY <1>5, <2>3 DEF SendSucceeds, Return, Wakes
      <4> QED BY Zenon, <4>1, <4>2, <4>3
    <3> QED
      BY Zenon, <1>5, <2>1, <3>1 DEF SendSucceeds, wake, thrs, times, left, Wakes, Nitz,
         Torn, AllKinds
  <2> QED BY Zenon, <2>2, <2>3
<1>6. CASE SendFails(t)
  <2>2. CASE Wakes(kind[t])
    <3>1. PcOK' /\ PtrOK' /\ PathOK'
      <4>1. PcOK'
        BY Zenon, <1>6, <2>2 DEF SendFails, Wakes
      <4>2. PtrOK'
        BY Zenon, <1>6, <2>2 DEF SendFails, Wakes
      <4>3. PathOK'
        BY <1>6, <2>2 DEF SendFails, Wakes
      <4> QED BY Zenon, <4>1, <4>2, <4>3
    <3> QED
      BY <1>6, <3>1 DEF SendFails, wake, thrs, times, left, Wakes, Nitz, Torn, AllKinds
  <2>3. CASE ~Wakes(kind[t])
    <3>1. PcOK' /\ PtrOK' /\ PathOK'
      <4>1. PcOK'
        BY Zenon, <1>6, <2>3 DEF SendFails, Return, Wakes
      <4>2. PtrOK'
        BY Zenon, <1>6, <2>3 DEF SendFails, Return, Wakes
      <4>3. PathOK'
        BY <1>6, <2>3 DEF SendFails, Return, Wakes
      <4> QED BY Zenon, <4>1, <4>2, <4>3
    <3> QED
      BY ZenonT(30), <1>6, <3>1 DEF SendFails, wake, thrs, times, left, Wakes, Nitz, Torn,
         AllKinds
  <2> QED BY Zenon, <2>2, <2>3
<1>7. CASE DropCopy(t)
  BY <1>7 DEF DropCopy, wake, thrs, times, left, Wakes, Nitz, Torn, AllKinds
<1>8. CASE AllocateCopy(t)
  BY <1>8 DEF AllocateCopy, wake, thrs, times, left, Wakes, Nitz, Torn, AllKinds
<1>9. CASE WriteCopy(t)
  BY <1>9 DEF WriteCopy, wake, thrs, times, left, Wakes, Nitz, Torn, AllKinds
<1>10. CASE ReadLast(t)
  BY <1>10 DEF ReadLast, wake, thrs, times, left, Wakes, Nitz, Torn, AllKinds
<1>11. CASE MarkLast(t)
  BY <1>11 DEF MarkLast, wake, thrs, times, left, Wakes, Nitz, Torn, AllKinds
<1>12. CASE Schedule(t)
  BY <1>12 DEF Schedule, wake, thrs, times, left, Wakes, Nitz, Torn, AllKinds
<1>13. CASE StoreLast(t)
  BY <1>13 DEF StoreLast, Return, wake, thrs, times, left, Wakes, Nitz, Torn, AllKinds
<1> QED
  BY Zenon, <1>1, <1>2, <1>3, <1>4, <1>5, <1>6, <1>7, <1>8, <1>9, <1>10, <1>11, <1>12,
     <1>13 DEF UnsolStep

\* So do the event loop, its clients and the start of a message.
LEMMA LoopType ==
    ASSUME AllOK, LoopStep \/ Connect \/ ClientCloses \/ (\E v \in Vendors : VendorBegins(v))
    PROVE  AllOK'
<1> USE ConstantsAssumption 
        DEF AllOK, ConnOK, WakeOK, PcOK, MsgOK, PtrOK, LoopOK, LeftOK, CarriedOK, PathOK,
            TimesOK, CopyOK
<1>1. CASE Greet
  <2>1. CASE lpc = "connected"
    BY <1>1, <2>1 DEF Greet, Begin, wake, thrs, times, left, Wakes, Nitz, Torn, AllKinds, Thr
  <2>2. CASE lpc = "radio"
    BY <1>1, <2>2 DEF Greet, Begin, wake, thrs, times, left, Wakes, Nitz, Torn, AllKinds, Thr
  <2> QED BY Zenon, <1>1, <2>1, <2>2 DEF Greet
<1>2. CASE CheckCopy
  BY Zenon, <1>2 DEF CheckCopy, wake, thrs, times, left, Thr, Wakes, Nitz, Torn, AllKinds
<1>3. CASE SendCopy
  <2>1. (IF lastNITZ = NULL THEN Torn ELSE lastNITZ) \in 0 .. MaxMsg
    BY DEF Nitz, Torn
  <2>2. got' \in Seq(0 .. MaxMsg)
    BY Zenon, <1>3, <2>1, Appended DEF SendCopy
  <2> QED BY Zenon, <1>3, <2>2 DEF SendCopy, wake, thrs, times, left, Wakes, Nitz, Torn,
             AllKinds
<1>4. CASE FreeCopy
  BY Zenon, <1>4 DEF FreeCopy, wake, thrs, times, left, Thr, Wakes, Nitz, Torn, AllKinds
<1>5. CASE Disconnect
  BY <1>5 DEF Disconnect, wake, thrs, times, left, Thr, Wakes, Nitz, Torn, AllKinds
<1>6. CASE Timeout
  BY Zenon, <1>6 DEF Timeout, wake, thrs, times, left, Thr, Wakes, Nitz, Torn, AllKinds
<1>7. CASE Release
  BY Zenon, <1>7 DEF Release, wake, thrs, times, left, Thr, Wakes, Nitz, Torn, AllKinds
<1>8. CASE CompareLast
  BY Zenon, <1>8 DEF CompareLast, wake, thrs, times, left, Thr, Wakes, Nitz, Torn, AllKinds
<1>9. CASE ClearLast
  BY Zenon, <1>9 DEF ClearLast, wake, thrs, times, left, Thr, Wakes, Nitz, Torn, AllKinds
<1>10. CASE FreeInfo
  BY Zenon, <1>10 DEF FreeInfo, wake, thrs, times, left, Thr, Wakes, Nitz, Torn, AllKinds
<1>11. CASE Connect
  BY <1>11 DEF Connect, wake, thrs, times, left, Thr, Wakes, Nitz, Torn, AllKinds
<1>12. CASE ClientCloses
  BY <1>12 DEF ClientCloses, wake, thrs, times, left, Thr, Wakes, Nitz, Torn, AllKinds
<1>13. CASE \E v \in Vendors : VendorBegins(v)
  BY <1>13 DEF VendorBegins, Begin, wake, thrs, times, left, Thr, Wakes, Nitz, AllKinds
<1> QED
  BY Zenon, <1>1, <1>2, <1>3, <1>4, <1>5, <1>6, <1>7, <1>8, <1>9, <1>10, <1>11, <1>12,
     <1>13 DEF LoopStep

LEMMA AllAlways == Spec => []AllOK
<1>1. AllOK /\ [Next]_vars => AllOK'
  <2> SUFFICES ASSUME AllOK, [Next]_vars PROVE AllOK'
    OBVIOUS
  <2>1. CASE \E t \in Thr : UnsolStep(t)
    BY Zenon, <2>1, UnsolType
  <2>2. CASE LoopStep \/ Connect \/ ClientCloses \/ \E v \in Vendors : VendorBegins(v)
    BY Zenon, <2>2, LoopType
  <2>3. CASE UNCHANGED vars
    BY <2>3 DEF AllOK, ConnOK, WakeOK, PcOK, MsgOK, PtrOK, LoopOK, LeftOK, CarriedOK, PathOK,
       TimesOK,
                CopyOK, vars, wake, thrs, times, left
  <2> QED BY Zenon, <2>1, <2>2, <2>3 DEF Next
<1> QED BY <1>1, InitType, PTL DEF Spec

\* The variables of RIL_onUnsolicitedResponse and of the loop keep their types, for every
\* number of threads, messages and connections.
THEOREM TypeCorrect == Spec => []TypeOK
BY AllAlways, TypeParts, PTL

-----------------------------------------------------------------------------
(* The wake lock.                                                          *)

LockInv == LockHasReleaser /\ TimersLive

\* A thread that cancels a timer still owes one: it makes its own afterwards.
LEMMA UnsolLock ==
    ASSUME AllOK, LockInv, NEW t \in Thr, UnsolStep(t)
    PROVE  LockInv'
<1> USE ConstantsAssumption
        DEF LockInv, LockHasReleaser, TimersLive, AllOK, ConnOK, WakeOK, PcOK, MsgOK,
            PathOK, PtrOK, LoopOK
<1>1. CASE MarshalFails(t)
  BY <1>1 DEF MarshalFails, Return, wake, thrs, times, left, Owes, Wakes
<1>2. CASE Marshalled(t)
  BY <1>2 DEF Marshalled, wake, thrs, times, left, Owes, Wakes
<1>3. CASE NestedBegins(t)
  BY Zenon, <1>3 DEF NestedBegins, wake, thrs, times, left, Owes, Wakes
<1>4. CASE NestedDone(t)
  BY <1>4 DEF NestedDone, wake, thrs, times, left, Owes, Wakes
<1>5. CASE SendSucceeds(t)
  BY <1>5 DEF SendSucceeds, Return, wake, thrs, times, left, Owes, Wakes
<1>6. CASE SendFails(t)
  BY <1>6 DEF SendFails, Return, wake, thrs, times, left, Owes, Wakes
<1>7. CASE DropCopy(t)
  BY <1>7 DEF DropCopy, wake, thrs, times, left, Owes, Wakes
<1>8. CASE AllocateCopy(t)
  BY <1>8 DEF AllocateCopy, wake, thrs, times, left, Owes, Wakes
<1>9. CASE WriteCopy(t)
  BY <1>9 DEF WriteCopy, wake, thrs, times, left, Owes, Wakes
<1>10. CASE ReadLast(t)
  BY <1>10 DEF ReadLast, wake, thrs, times, left, Owes, Wakes
<1>11. CASE MarkLast(t)
  BY <1>11 DEF MarkLast, wake, thrs, times, left, Owes, Wakes
<1>12. CASE Schedule(t)
  BY <1>12 DEF Schedule, wake, thrs, times, left, Owes, Wakes
<1>13. CASE StoreLast(t)
  BY <1>13 DEF StoreLast, Return, wake, thrs, times, left, Owes, Wakes
<1> QED
  BY Zenon, <1>1, <1>2, <1>3, <1>4, <1>5, <1>6, <1>7, <1>8, <1>9, <1>10, <1>11, <1>12,
     <1>13 DEF UnsolStep

\* The loop takes a timer off the list to release the lock with it, or finds it cancelled.
LEMMA LoopLock ==
    ASSUME AllOK, LockInv, LoopStep \/ Connect \/ ClientCloses
    PROVE  LockInv'
<1> USE ConstantsAssumption
        DEF LockInv, LockHasReleaser, TimersLive, AllOK, ConnOK, WakeOK, PcOK, MsgOK,
            PathOK, PtrOK, LoopOK
<1>1. CASE Greet
  BY <1>1 DEF Greet, Begin, wake, thrs, times, left, Thr, Owes, Wakes, LoopIdle
<1>2. CASE CheckCopy
  BY Zenon, <1>2 DEF CheckCopy, wake, thrs, times, left, Thr, Owes, Wakes, LoopIdle
<1>3. CASE SendCopy
  BY Zenon, <1>3 DEF SendCopy, wake, thrs, times, left, Thr, Owes, Wakes, LoopIdle
<1>4. CASE FreeCopy
  BY Zenon, <1>4 DEF FreeCopy, wake, thrs, times, left, Thr, Owes, Wakes, LoopIdle
<1>5. CASE Disconnect
  BY Zenon, <1>5 DEF Disconnect, wake, thrs, times, left, Thr, Owes, Wakes, LoopIdle
<1>6. CASE Timeout
  BY <1>6 DEF Timeout, wake, thrs, times, left, Thr, Owes, Wakes, LoopIdle
<1>7. CASE Release
  BY Zenon, <1>7 DEF Release, wake, thrs, times, left, Thr, Owes, Wakes, LoopIdle
<1>8. CASE CompareLast
  BY Zenon, <1>8 DEF CompareLast, wake, thrs, times, left, Thr, Owes, Wakes, LoopIdle
<1>9. CASE ClearLast
  BY Zenon, <1>9 DEF ClearLast, wake, thrs, times, left, Thr, Owes, Wakes, LoopIdle
<1>10. CASE FreeInfo
  BY Zenon, <1>10 DEF FreeInfo, wake, thrs, times, left, Thr, Owes, Wakes, LoopIdle
<1>11. CASE Connect
  BY Zenon, <1>11 DEF Connect, wake, thrs, times, left, Thr, Owes, Wakes, LoopIdle
<1>12. CASE ClientCloses
  BY Zenon, <1>12 DEF ClientCloses, wake, thrs, times, left, Thr, Owes, Wakes, LoopIdle
<1> QED
  BY Zenon, <1>1, <1>2, <1>3, <1>4, <1>5, <1>6, <1>7, <1>8, <1>9, <1>10, <1>11,
     <1>12 DEF LoopStep

LEMMA BeginLock ==
    ASSUME AllOK, LockInv, NEW v \in Vendors, VendorBegins(v)
    PROVE  LockInv'
BY DEF VendorBegins, Begin, LockInv, LockHasReleaser, TimersLive, AllOK, ConnOK, WakeOK,
   PcOK, MsgOK,
       wake, thrs, times, left, Owes, Wakes, Thr

\* Every reachable state satisfies the invariant about the lock and the timers.
LEMMA LockAlways == Spec => []LockInv
<1>1. Init => LockInv
  BY Zenon DEF Init, LockInv, LockHasReleaser, TimersLive
<1>2. AllOK /\ LockInv /\ [Next]_vars => LockInv'
  <2> SUFFICES ASSUME AllOK, LockInv, [Next]_vars PROVE LockInv'
    OBVIOUS
  <2>1. CASE \E t \in Thr : UnsolStep(t)
    BY Zenon, <2>1, UnsolLock
  <2>2. CASE LoopStep \/ Connect \/ ClientCloses
    BY Zenon, <2>2, LoopLock
  <2>3. CASE \E v \in Vendors : VendorBegins(v)
    BY Zenon, <2>3, BeginLock
  <2>4. CASE UNCHANGED vars
    BY Zenon, <2>4 DEF LockInv, LockHasReleaser, TimersLive, Owes, vars, wake, thrs
  <2> QED BY Zenon, <2>1, <2>2, <2>3, <2>4 DEF Next
<1> QED BY <1>1, <1>2, AllAlways, PTL DEF Spec

\* The wake lock that RIL_onUnsolicitedResponse takes is never orphaned, however threads
\* and timers interleave on s_last_wake_timeout_info.
THEOREM LockNeverOrphaned == Spec => []LockHasReleaser
<1>1. LockInv => LockHasReleaser
  BY Zenon DEF LockInv
<1> QED BY <1>1, LockAlways, PTL

\* The structures in the timer list and the one userTimerCallback works on are allocated,
\* and the latter is in the list no more: it is freed once, after its only call.
THEOREM TimersNeverDangle == Spec => []TimersLive
<1>1. LockInv => TimersLive
  BY Zenon DEF LockInv
<1> QED BY <1>1, LockAlways, PTL

-----------------------------------------------------------------------------
(* The network time.                                                       *)

\* The client has got NITZ message n.
Got(n) == \E i \in 1 .. Len(got) : got[i] = n

\* A thread is delivering NITZ message n: it may still send it or keep it.
Carries(t, n) ==
    /\ pc[t] \in {"marshal", "send", "drop", "allocate", "copy"}
    /\ kind[t] = "nitz" /\ nitz[t] = n

\* A message is in one place, with its thread, in the copy or with the client; only while
\* onNewCommandConnect is about to free the copy is it in two.
NitzInOnePlace ==
    \A n \in Nitz :
        /\ Got(n) \/ lastNITZ = n \/ (\E t \in Thr : Carries(t, n)) => n > msgLeft
        /\ \A t \in Thr : Carries(t, n) =>
              /\ ~Got(n) /\ lastNITZ # n
              /\ \A u \in Thr : Carries(u, n) => u = t
        /\ Got(n) /\ lastNITZ = n => lpc = "free"

NitzInv == NitzInOnePlace /\ NitzAtMostOnce

\* Steps that move no message.
LEMMA NitzStays ==
    ASSUME NitzInv, UNCHANGED <<lastNITZ, got, msgLeft>>, lpc = "free" => lpc' = "free",
           \A t \in Thr, n \in Nitz : Carries(t, n)' => Carries(t, n)
    PROVE  NitzInv'
<1>1. NitzAtMostOnce' /\ \A n \in Nitz : Got(n)' <=> Got(n)
  BY Zenon DEF NitzInv, NitzAtMostOnce, Got
<1>2. NitzInOnePlace'
  BY Zenon, <1>1 DEF NitzInv, NitzInOnePlace
<1> QED BY Zenon, <1>1, <1>2 DEF NitzInv

\* What the client has got after one more message.
LEMMA OneMore ==
    ASSUME NitzAtMostOnce, got \in Seq(0 .. MaxMsg), NEW m \in 0 .. MaxMsg,
           got' = Append(got, m), m # Torn => ~Got(m)
    PROVE  NitzAtMostOnce' /\ \A n \in Nitz : Got(n)' <=> Got(n) \/ n = m
<1>1. /\ Len(got') = Len(got) + 1 /\ Len(got) \in Nat
      /\ \A i \in 1 .. Len(got) + 1 : got'[i] = IF i = Len(got) + 1 THEN m ELSE got[i]
  BY Appended
<1>2. NitzAtMostOnce'
  BY <1>1 DEF NitzAtMostOnce, Got
<1>3. ASSUME NEW n \in Nitz PROVE Got(n)' <=> Got(n) \/ n = m
  <2>1. Got(n)' => Got(n) \/ n = m
    BY <1>1 DEF Got
  <2>2. Got(n) => Got(n)'
    BY <1>1 DEF Got
  <2>3. n = m => Got(n)'
    <3>1. Len(got) + 1 \in 1 .. Len(got')
      BY <1>1
    <3> QED BY Zenon, <1>1, <3>1 DEF Got
  <2> QED BY Zenon, <2>1, <2>2, <2>3
<1> QED BY Zenon, <1>2, <1>3

\* A thread takes the message it carries to the client or to the copy.
LEMMA UnsolNitz ==
    ASSUME AllOK, NitzInv, NEW t \in Thr, UnsolStep(t)
    PROVE  NitzInv'
<1> USE ConstantsAssumption DEF AllOK, PcOK, MsgOK, LeftOK, CarriedOK, PathOK, TimesOK, CopyOK
<1>1. CASE MarshalFails(t)
  BY <1>1 DEF MarshalFails, Return, wake, thrs, times, left, Carries, Wakes, Nitz, Torn,
       NitzInv, NitzInOnePlace, NitzAtMostOnce, Got
<1>2. CASE Marshalled(t)
  BY Zenon, <1>2, NitzStays DEF Marshalled, wake, thrs, times, left, Carries
<1>3. CASE NestedBegins(t)
  BY Zenon, <1>3, NitzStays DEF NestedBegins, wake, thrs, times, left, Carries
<1>4. CASE NestedDone(t)
  BY <1>4 DEF NestedDone, wake, thrs, times, left, Carries, Wakes, Nitz, Torn,
       NitzInv, NitzInOnePlace, NitzAtMostOnce, Got
<1>5. CASE SendSucceeds(t)
  <2>1. UNCHANGED <<lastNITZ, msgLeft, lpc>>
    BY Zenon, <1>5 DEF SendSucceeds, left
  <2>2. \A u \in Thr, n \in Nitz : Carries(u, n)' => Carries(u, n) /\ u # t
    BY <1>5 DEF SendSucceeds, Return, Carries
  <2>3. CASE kind[t] # "nitz"
    BY Zenon, <1>5, <2>1, <2>2, <2>3, NitzStays DEF SendSucceeds
  <2>4. CASE kind[t] = "nitz"
    <3> DEFINE m == nitz[t]
    <3>1. m \in Nitz /\ Carries(t, m)
      BY Zenon, <1>5, <2>4 DEF SendSucceeds, Carries
    <3>2. ~Got(m) /\ lastNITZ # m /\ m > msgLeft
      BY Zenon, <3>1 DEF NitzInv, NitzInOnePlace
    <3>3. got' = Append(got, m) /\ m \in 0 .. MaxMsg
      BY Zenon, <1>5, <2>4, <3>1 DEF SendSucceeds, Nitz
    <3> HIDE DEF m
    <3>4. NitzAtMostOnce' /\ \A n \in Nitz : Got(n)' <=> Got(n) \/ n = m
      BY Zenon, <3>2, <3>3, OneMore DEF NitzInv
    <3>5. \A u \in Thr, n \in Nitz : Carries(u, n)' => n # m
      BY <2>2, <3>1 DEF NitzInv, NitzInOnePlace
    <3>6. NitzInOnePlace'
      BY <2>1, <2>2, <3>2, <3>4, <3>5 DEF NitzInv, NitzInOnePlace
    <3> QED BY Zenon, <3>4, <3>6 DEF NitzInv
  <2> QED BY Zenon, <2>3, <2>4
<1>6. CASE SendFails(t)
  BY <1>6 DEF SendFails, Return, wake, thrs, times, left, Carries, Wakes, Nitz, Torn,
       NitzInv, NitzInOnePlace, NitzAtMostOnce, Got
<1>7. CASE DropCopy(t)
  BY <1>7 DEF DropCopy, wake, thrs, times, left, Carries, Wakes, Nitz, Torn,
       NitzInv, NitzInOnePlace, NitzAtMostOnce, Got
<1>8. CASE AllocateCopy(t)
  BY <1>8 DEF AllocateCopy, wake, thrs, times, left, Carries, Wakes, Nitz, Torn,
       NitzInv, NitzInOnePlace, NitzAtMostOnce, Got
<1>9. CASE WriteCopy(t)
  BY <1>9 DEF WriteCopy, wake, thrs, times, left, Carries, Wakes, Nitz, Torn,
       NitzInv, NitzInOnePlace, NitzAtMostOnce, Got
<1>10. CASE ReadLast(t)
  BY <1>10 DEF ReadLast, wake, thrs, times, left, Carries, Wakes, Nitz, Torn,
       NitzInv, NitzInOnePlace, NitzAtMostOnce, Got
<1>11. CASE MarkLast(t)
  BY <1>11 DEF MarkLast, wake, thrs, times, left, Carries, Wakes, Nitz, Torn,
       NitzInv, NitzInOnePlace, NitzAtMostOnce, Got
<1>12. CASE Schedule(t)
  BY <1>12 DEF Schedule, wake, thrs, times, left, Carries, Wakes, Nitz, Torn,
       NitzInv, NitzInOnePlace, NitzAtMostOnce, Got
<1>13. CASE StoreLast(t)
  BY <1>13 DEF StoreLast, Return, wake, thrs, times, left, Carries, Wakes, Nitz, Torn,
       NitzInv, NitzInOnePlace, NitzAtMostOnce, Got
<1> QED
  BY Zenon, <1>1, <1>2, <1>3, <1>4, <1>5, <1>6, <1>7, <1>8, <1>9, <1>10, <1>11, <1>12,
     <1>13 DEF UnsolStep

\* The loop takes the copy to the client, and frees it before it looks at it again.
LEMMA LoopNitz ==
    ASSUME AllOK, NitzInv, LoopStep \/ Connect \/ ClientCloses
    PROVE  NitzInv'
<1> USE ConstantsAssumption DEF AllOK, PcOK, MsgOK, LeftOK, CarriedOK, PathOK, TimesOK, CopyOK
<1>1. CASE Greet
  BY <1>1 DEF Greet, Begin, wake, thrs, times, left, Thr, Carries, Wakes, Nitz, Torn,
       NitzInv, NitzInOnePlace, NitzAtMostOnce, Got
<1>2. CASE CheckCopy
  BY <1>2 DEF CheckCopy, wake, thrs, times, left, Thr, Carries, Wakes, Nitz, Torn,
       NitzInv, NitzInOnePlace, NitzAtMostOnce, Got
<1>3. CASE SendCopy
  <2>1. UNCHANGED <<lastNITZ, msgLeft>> /\ lpc' = "free"
    BY Zenon, <1>3 DEF SendCopy, left
  <2>2. \A u \in Thr, n \in Nitz : Carries(u, n)' = Carries(u, n)
    BY Zenon, <1>3 DEF SendCopy, thrs, Carries
  <2>3. CASE conn # "open"
    BY Zenon, <1>3, <2>1, <2>2, <2>3, NitzStays DEF SendCopy
  <2>4. CASE conn = "open"
    <3> DEFINE m == IF lastNITZ = NULL THEN Torn ELSE lastNITZ
    <3>1. m \in 0 .. MaxMsg /\ (m # Torn => m \in Nitz /\ m = lastNITZ) /\ Torn \notin Nitz
      BY DEF Nitz, Torn
    <3>2. m # Torn => ~Got(m)
      BY Zenon, <1>3, <3>1 DEF NitzInv, NitzInOnePlace, SendCopy
    <3>3. got' = Append(got, m)
      BY Zenon, <1>3, <2>4 DEF SendCopy
    <3> HIDE DEF m
    <3>4. NitzAtMostOnce' /\ \A n \in Nitz : Got(n)' <=> Got(n) \/ n = m
      BY Zenon, <3>1, <3>2, <3>3, OneMore DEF NitzInv
    <3>5. NitzInOnePlace'
      BY <2>1, <2>2, <3>1, <3>4 DEF NitzInv, NitzInOnePlace
    <3> QED BY Zenon, <3>4, <3>5 DEF NitzInv
  <2> QED BY Zenon, <2>3, <2>4
<1>4. CASE FreeCopy
  BY <1>4 DEF FreeCopy, wake, thrs, times, left, Thr, Carries, Wakes, Nitz, Torn,
       NitzInv, NitzInOnePlace, NitzAtMostOnce, Got
<1>5. CASE Disconnect
  BY <1>5 DEF Disconnect, wake, thrs, times, left, Thr, Carries, Wakes, Nitz, Torn,
       NitzInv, NitzInOnePlace, NitzAtMostOnce, Got
<1>6. CASE Timeout
  BY Zenon, <1>6, NitzStays DEF Timeout, LoopIdle, wake, thrs, times, left, Carries
<1>7. CASE Release
  BY <1>7 DEF Release, wake, thrs, times, left, Thr, Carries, Wakes, Nitz, Torn,
       NitzInv, NitzInOnePlace, NitzAtMostOnce, Got
<1>8. CASE CompareLast
  BY <1>8 DEF CompareLast, wake, thrs, times, left, Thr, Carries, Wakes, Nitz, Torn,
       NitzInv, NitzInOnePlace, NitzAtMostOnce, Got
<1>9. CASE ClearLast
  BY <1>9 DEF ClearLast, wake, thrs, times, left, Thr, Carries, Wakes, Nitz, Torn,
       NitzInv, NitzInOnePlace, NitzAtMostOnce, Got
<1>10. CASE FreeInfo
  BY <1>10 DEF FreeInfo, wake, thrs, times, left, Thr, Carries, Wakes, Nitz, Torn,
       NitzInv, NitzInOnePlace, NitzAtMostOnce, Got
<1>11. CASE Connect
  BY Zenon, <1>11, NitzStays DEF Connect, LoopIdle, wake, thrs, times, left, Carries
<1>12. CASE ClientCloses
  BY <1>12 DEF ClientCloses, wake, thrs, times, left, Thr, Carries, Wakes, Nitz, Torn,
       NitzInv, NitzInOnePlace, NitzAtMostOnce, Got
<1> QED
  BY Zenon, <1>1, <1>2, <1>3, <1>4, <1>5, <1>6, <1>7, <1>8, <1>9, <1>10, <1>11,
     <1>12 DEF LoopStep

LEMMA BeginNitz ==
    ASSUME AllOK, NitzInv, NEW v \in Vendors, VendorBegins(v)
    PROVE  NitzInv'
BY ConstantsAssumption
   DEF VendorBegins, Begin, NitzInv, NitzInOnePlace, NitzAtMostOnce, Got, AllOK, PcOK, MsgOK, LeftOK,
       CarriedOK, TimesOK, CopyOK, wake, times, left, Carries, Thr, Nitz, Torn

\* A NITZ message is delivered at most once, over any number of connections, threads and
\* messages: RIL_onUnsolicitedResponse keeps only what it could not send, and
\* onNewCommandConnect forgets what it sends.
THEOREM NitzDeliveredOnce == Spec => []NitzAtMostOnce
<1>1. Init => NitzInv
  BY ConstantsAssumption DEF Init, NitzInv, NitzInOnePlace, NitzAtMostOnce, Got, Carries, Nitz
<1>2. AllOK /\ NitzInv /\ [Next]_vars => NitzInv'
  <2> SUFFICES ASSUME AllOK, NitzInv, [Next]_vars PROVE NitzInv'
    OBVIOUS
  <2>1. CASE \E t \in Thr : UnsolStep(t)
    BY Zenon, <2>1, UnsolNitz
  <2>2. CASE LoopStep \/ Connect \/ ClientCloses
    BY Zenon, <2>2, LoopNitz
  <2>3. CASE \E v \in Vendors : VendorBegins(v)
    BY Zenon, <2>3, BeginNitz
  <2>4. CASE UNCHANGED vars
    BY Zenon, <2>4, NitzStays DEF Carries, vars, thrs, times, left
  <2> QED BY Zenon, <2>1, <2>2, <2>3, <2>4 DEF Next
<1>3. NitzInv => NitzAtMostOnce
  BY Zenon DEF NitzInv
<1> QED BY <1>1, <1>2, <1>3, AllAlways, PTL DEF Spec

-----------------------------------------------------------------------------
(* The choice of the ramdisk.                                              *)

(* The boot alone: the parts run steps it beside other components. *)
BootSpec == BootInit /\ [][BootNext]_bootVars

\* What is known of a boot before the keys are looked at, while they are, and afterwards.
BeforeKeys == {"off", "start"}
AtKeys == {"fork", "wait", "time"}
AfterKeys == {"introduce", "unpack", "finish", "panic", "running", "reboot"}

(* What the variables hold. *)
BootTypeOK ==
    /\ bootAt \in BeforeKeys \union AtKeys \union AfterKeys
    /\ recoveryBoot \in BOOLEAN
    /\ ramdisk \in {"none", "recovery", "android"}
    /\ keycheckAt \in {"none", "scan", "poll", "read", "init", "/init", "exited"}
    /\ exitStatus \in {0, 256, KEYCHECK_RECOVERY_FOTA}
    /\ ready \subseteq Inputs
    /\ events \in [Inputs -> {"none", "key", "other"}]
    /\ askedFor \subseteq {"file", "key"}

\* keycheck has seen a key only when one was pressed in this boot.
KeySeen ==
    /\ exitStatus = KEYCHECK_RECOVERY_FOTA => "key" \in askedFor
    /\ \A d \in Inputs : events[d] = "key" => "key" \in askedFor

\* What init has decided agrees with what asked for it.
Decided ==
    /\ bootAt \in BeforeKeys => /\ askedFor = {} /\ keycheckAt = "none" /\ exitStatus = 0
                                /\ \A d \in Inputs : events[d] = "none"
                                /\ ramdisk = "none"
    /\ bootAt \in AtKeys \/ keycheckAt # "none" => "file" \notin askedFor
    /\ bootAt \in AfterKeys => /\ recoveryBoot => askedFor # {}
                               /\ "file" \in askedFor => recoveryBoot
    /\ ramdisk = "recovery" => bootAt \in AfterKeys /\ recoveryBoot
    /\ ramdisk = "android" => "file" \notin askedFor

(* The inductive invariant. *)
BootIInv == BootTypeOK /\ KeySeen /\ Decided

(* The status of keycheck that stands for a key differs from the two it    *)
(* ends with otherwise, and keycheck never exits with the one for the      *)
(* boot's own recovery.                                                    *)
LEMMA StatusOfKey ==
    /\ KEYCHECK_RECOVERY_FOTA = 42 * 256
    /\ KEYCHECK_RECOVERY_FOTA \notin {0, 256}
    /\ KEYCHECK_RECOVERY_BOOT \notin {0, 256, KEYCHECK_RECOVERY_FOTA}
BY DEF KEYCHECK_RECOVERY_FOTA, KEYCHECK_RECOVERY_BOOT

(* At power-on nothing was asked for and keycheck does not run. *)
LEMMA BootStart == BootInit => BootIInv
<1> SUFFICES ASSUME BootInit PROVE BootIInv
  OBVIOUS
<1>1. BootTypeOK
  BY Zenon DEF BootInit, BootTypeOK, BeforeKeys
<1>2. KeySeen
  BY StatusOfKey DEF BootInit, KeySeen
<1>3. Decided
  BY DEF BootInit, Decided, BeforeKeys, AtKeys, AfterKeys
<1> QED BY <1>1, <1>2, <1>3 DEF BootIInv

\* waitpid: a status that stands for a key makes it the recovery.
LEMMA WaitPidStep == ASSUME BootIInv, WaitPid PROVE BootIInv'
<1>1. /\ UNCHANGED <<ramdisk, exitStatus, ready, events, askedFor>>
      /\ bootAt = "wait" /\ bootAt' \in {"introduce", "time"}
      /\ keycheckAt' \in {"none", keycheckAt}
  BY DEF WaitPid
<1>2. recoveryBoot' \in BOOLEAN /\ (recoveryBoot' /\ bootAt' = "introduce" => "key" \in askedFor)
  <2>1. CASE bootAt' = "introduce" /\ recoveryBoot' = FALSE
    BY <2>1, Zenon
  <2>2. CASE bootAt' = "time" /\ recoveryBoot' = recoveryBoot
    BY <2>2 DEF BootIInv, BootTypeOK
  <2>3. CASE recoveryBoot' = (exitStatus \in {KEYCHECK_RECOVERY_BOOT, KEYCHECK_RECOVERY_FOTA})
    <3>1. exitStatus # KEYCHECK_RECOVERY_BOOT
      BY StatusOfKey DEF BootIInv, BootTypeOK
    <3>2. recoveryBoot' => exitStatus = KEYCHECK_RECOVERY_FOTA
      BY Zenon, <2>3, <3>1
    <3> QED BY <2>3, <3>2 DEF BootIInv, KeySeen
  <2> QED BY <2>1, <2>2, <2>3, Zenon DEF WaitPid
<1>3. "file" \notin askedFor /\ ramdisk # "recovery"
  BY <1>1 DEF BootIInv, BootTypeOK, Decided, AtKeys, AfterKeys
<1>4. BootTypeOK'
  BY <1>1, <1>2 DEF BootIInv, BootTypeOK, AtKeys, AfterKeys
<1>5. KeySeen'
  BY <1>1 DEF BootIInv, KeySeen
<1>6. Decided'
  BY Zenon, <1>1, <1>2, <1>3 DEF Decided, BeforeKeys, AtKeys, AfterKeys
<1> QED BY <1>4, <1>5, <1>6 DEF BootIInv

\* Steps of init.
LEMMA BootInitSteps ==
    ASSUME BootIInv,
           SwitchOn \/ DetectRecovery \/ ForkKeycheck \/ WaitPid \/ LookAtClock
           \/ Introduce \/ Unpack \/ FinishInit \/ SecondInit
    PROVE  BootIInv'
<1> USE DEF BootIInv, BootTypeOK, KeySeen, Decided, BeforeKeys, AtKeys, AfterKeys,
            keycheckVars
<1>1. CASE SwitchOn
  BY ZenonT(20), <1>1 DEF SwitchOn
<1>2. CASE DetectRecovery
  <2>a. /\ UNCHANGED <<ramdisk, keycheckAt, exitStatus, ready, events>> /\ bootAt = "start"
        /\ recoveryBoot' \in BOOLEAN /\ bootAt' \in {"introduce", "fork"}
        /\ askedFor' \in {{"file"}, {}}
    BY Zenon, <1>2 DEF DetectRecovery
  <2>1. BootTypeOK'
    BY <2>a
  <2>2. KeySeen'
    BY ZenonT(30), <2>a, StatusOfKey
  <2>3. Decided'
    <3>1. CASE warmboot = "recovery"
      BY <1>2, <3>1, Zenon DEF DetectRecovery
    <3>2. CASE warmboot # "recovery"
      BY <1>2, <3>2, Zenon DEF DetectRecovery
    <3> QED BY <3>1, <3>2
  <2> QED BY Zenon, <2>1, <2>2, <2>3
<1>3. CASE ForkKeycheck
  BY Zenon, <1>3 DEF ForkKeycheck
<1>4. CASE WaitPid
  BY Zenon, <1>4, WaitPidStep
<1>5. CASE LookAtClock
  <2>a. /\ UNCHANGED <<ramdisk, exitStatus, ready, events, askedFor>>
        /\ bootAt' \in {"wait", "introduce"} /\ keycheckAt' \in {"none", keycheckAt}
    BY <1>5 DEF LookAtClock
  <2>b. recoveryBoot' \in BOOLEAN
    BY <1>5, Zenon DEF LookAtClock
  <2>1. BootTypeOK'
    BY <2>a, <2>b
  <2>2. KeySeen'
    BY ZenonT(30), <1>5, StatusOfKey DEF LookAtClock
  <2>3. Decided'
    BY Zenon, <1>5, StatusOfKey DEF LookAtClock
  <2> QED BY <2>1, <2>2, <2>3
<1>6. CASE Introduce
  <2>a. /\ UNCHANGED <<recoveryBoot, ramdisk, keycheckAt, exitStatus, ready, events, askedFor>>
        /\ bootAt = "introduce" /\ bootAt' = "unpack"
    BY Zenon, <1>6 DEF Introduce
  <2>1. BootTypeOK'
    BY <2>a
  <2>2. KeySeen'
    BY Zenon, <2>a
  <2>3. Decided'
    BY Zenon, <2>a
  <2> QED BY Zenon, <2>1, <2>2, <2>3
<1>7. CASE Unpack
  <2>a. /\ UNCHANGED <<recoveryBoot, keycheckAt, exitStatus, ready, events, askedFor>>
        /\ bootAt = "unpack" /\ bootAt' = "finish"
        /\ \/ ramdisk' = ramdisk
           \/ recoveryBoot /\ ramdisk' = "recovery"
           \/ ~recoveryBoot /\ ramdisk' = "android"
    BY Zenon, <1>7 DEF Unpack
  <2>1. BootTypeOK'
    BY <2>a
  <2>2. KeySeen'
    BY Zenon, <2>a
  <2>3. Decided'
    BY Zenon, <2>a
  <2> QED BY Zenon, <2>1, <2>2, <2>3
<1>8. CASE FinishInit
  <2>a. /\ UNCHANGED <<recoveryBoot, ramdisk, keycheckAt, exitStatus, ready, events, askedFor>>
        /\ bootAt = "finish" /\ bootAt' \in {"panic", "running"}
    BY Zenon, <1>8 DEF FinishInit
  <2>1. BootTypeOK'
    BY <2>a
  <2>2. KeySeen'
    BY Zenon, <2>a
  <2>3. Decided'
    BY Zenon, <2>a
  <2> QED BY Zenon, <2>1, <2>2, <2>3
<1>9. CASE SecondInit
  <2>a. /\ UNCHANGED <<recoveryBoot, bootAt, ready, events, askedFor>>
        /\ keycheckAt = "init" /\ keycheckAt' \in {"/init", "exited"}
        /\ ramdisk' \in {ramdisk, "android"} /\ exitStatus' \in {exitStatus, 0}
    BY Zenon, <1>9 DEF SecondInit
  <2>1. BootTypeOK'
    BY <2>a
  <2>2. KeySeen'
    BY Zenon, <2>a, StatusOfKey
  <2>3. Decided'
    BY Zenon, <2>a
  <2> QED BY Zenon, <2>1, <2>2, <2>3
<1> QED BY Zenon, <1>1, <1>2, <1>3, <1>4, <1>5, <1>6, <1>7, <1>8, <1>9

\* Steps of keycheck.
LEMMA KeycheckSteps ==
    ASSUME BootIInv, ScanDir \/ PollInputs \/ \E d \in Inputs : ReadEvent(d)
    PROVE  BootIInv'
<1> USE DEF BootIInv, BootTypeOK, KeySeen, Decided, BeforeKeys, AtKeys, AfterKeys
<1>1. CASE ScanDir
  <2>1. BootTypeOK'
    BY <1>1 DEF ScanDir
  <2>2. KeySeen'
    BY <1>1, StatusOfKey DEF ScanDir
  <2>3. Decided'
    BY <1>1, StatusOfKey DEF ScanDir
  <2> QED BY Zenon, <2>1, <2>2, <2>3
<1>2. CASE PollInputs
  BY <1>2 DEF PollInputs
<1>3. ASSUME NEW d \in Inputs, ReadEvent(d) PROVE BootIInv'
  <2>a. /\ UNCHANGED <<recoveryBoot, ramdisk, bootAt, askedFor>>
        /\ keycheckAt = "read" /\ keycheckAt' \in {"exited", "poll", "read"}
        /\ ready' = ready \ {d} /\ events' = [events EXCEPT ![d] = "none"]
    BY Zenon, <1>3 DEF ReadEvent
  <2>b. \/ events[d] = "key" /\ exitStatus' = KEYCHECK_RECOVERY_FOTA
        \/ exitStatus' = 256
        \/ exitStatus' = exitStatus
    BY Zenon, <1>3, StatusOfKey DEF ReadEvent
  <2>1. BootTypeOK'
    BY <2>a, <2>b
  <2>2. KeySeen'
    BY <2>a, <2>b, StatusOfKey
  <2>3. Decided'
    BY Zenon, <2>a
  <2> QED BY Zenon, <2>1, <2>2, <2>3
<1> QED BY Zenon, <1>1, <1>2, <1>3

\* The user, the clock, the scripts and the power.
LEMMA OutsideSteps ==
    ASSUME BootIInv,
           \/ \E d \in Inputs : InputEvent(d)
           \/ BootTick \/ PreRecovery \/ PostRecoveryBoot \/ SwitchOff \/ UNCHANGED bootVars
    PROVE  BootIInv'
<1> USE DEF BootIInv, BootTypeOK, KeySeen, Decided, BeforeKeys, AtKeys, AfterKeys,
            keycheckVars
<1>1. ASSUME NEW d \in Inputs, InputEvent(d) PROVE BootIInv'
  <2>a. /\ UNCHANGED <<recoveryBoot, ramdisk, keycheckAt, exitStatus, ready, bootAt>>
        /\ bootAt \in {"fork", "wait", "time"}
    BY Zenon, <1>1 DEF InputEvent
  <2>b. PICK e \in {"key", "other"} :
            /\ events' = [events EXCEPT ![d] = e]
            /\ askedFor' = IF e = "key" THEN askedFor \union {"key"} ELSE askedFor
    BY Zenon, <1>1 DEF InputEvent
  <2>1. BootTypeOK'
    BY <2>a, <2>b
  <2>2. KeySeen'
    BY <2>a, <2>b
  <2>3. Decided'
    BY <2>a, <2>b
  <2> QED BY Zenon, <2>1, <2>2, <2>3
<1>2. CASE BootTick
  <2>a. UNCHANGED <<bootAt, recoveryBoot, ramdisk, keycheckAt, exitStatus, ready, events,
                    askedFor>>
    BY Zenon, <1>2 DEF BootTick
  <2>1. BootTypeOK'
    BY <2>a
  <2>2. KeySeen'
    BY Zenon, <2>a
  <2>3. Decided'
    BY <2>a
  <2> QED BY Zenon, <2>1, <2>2, <2>3
<1>3. CASE PreRecovery
  BY Zenon, <1>3 DEF PreRecovery
<1>4. CASE PostRecoveryBoot
  BY Zenon, <1>4 DEF PostRecoveryBoot
<1>5. CASE SwitchOff
  <2>1. BootTypeOK'
    BY <1>5, Zenon DEF SwitchOff
  <2>2. KeySeen'
    BY ZenonT(30), <1>5, StatusOfKey DEF SwitchOff
  <2>3. Decided'
    BY ZenonT(30), <1>5, StatusOfKey DEF SwitchOff
  <2> QED BY <2>1, <2>2, <2>3
<1>6. CASE UNCHANGED bootVars
  BY <1>6 DEF bootVars
<1> QED BY Zenon, <1>1, <1>2, <1>3, <1>4, <1>5, <1>6

(* However init, keycheck, its time limit and the keys interleave, over    *)
(* any number of boots, the recovery is unpacked only if the file or a     *)
(* volume key asked for it in this boot, and Android is not unpacked when  *)
(* the file asked for the recovery.                                        *)
THEOREM RecoveryOnlyWhenAsked == BootSpec => []RecoveryWhenAsked
<1>1. BootIInv /\ [BootNext]_bootVars => BootIInv'
  BY BootInitSteps, KeycheckSteps, OutsideSteps DEF BootNext
<1>2. BootIInv => RecoveryWhenAsked
  BY DEF BootIInv, BootTypeOK, Decided, RecoveryWhenAsked, AfterKeys
<1> QED BY <1>1, <1>2, BootStart, PTL DEF BootSpec

-----------------------------------------------------------------------------
(* The pmem heap.                                                          *)

(* The heap alone: the parts run steps it beside other components. *)
PmemSpec == PmemInit /\ [][PmemNext]_pmemVars

(* Where an area is in its life; the last three are steps of its           *)
(* destructor.                                                             *)
AreaPlaces == {"none", "made", "held", "revoke", "remove", "gone"}
Dying == {"revoke", "remove", "gone"}

(* What the variables hold. *)
PmemTypeOK ==
    /\ areaAt \in [Areas -> AreaPlaces]
    /\ mSize \in [Areas -> {0, 1}] /\ asked \in [Areas -> {0, 1}]
    /\ unmaps \in [Areas -> Nat]
    /\ areaHeld \in [Areas -> SUBSET {Client, Revoker}]
    /\ revokeAt \in {"idle", "next", "check", "clear", "drop"}
    /\ mAllocations \in SUBSET Areas /\ copied \in SUBSET Areas
    /\ allocations \in SUBSET copied /\ current \in SUBSET copied

\* Who holds an area: the revoking thread the one it promoted, and nobody one that is being
\* destroyed.
HoldersKnown ==
    \A a \in Areas :
        /\ Revoker \in areaHeld[a] <=> a \in current
        /\ areaAt[a] \in Dying \union {"none"} <=> areaHeld[a] = {}
        /\ areaAt[a] = "made" => areaHeld[a] = {Client}

\* An area is taken out of the copied list before it is looked at, and is looked at alone.
RevokeKnown ==
    /\ revokeAt \in {"idle", "next"} => current = {}
    /\ revokeAt \in {"check", "clear", "drop"} => \E a \in Areas : current = {a}
    /\ allocations \intersect current = {}
    /\ revokeAt = "drop" => \A a \in current : mSize[a] = 0

\* Only areas that a client holds or has held are listed.
ListedKnown == \A a \in mAllocations \union copied : areaAt[a] \notin {"none", "made"}

\* What was asked for was given back or is still there; between PMEM_UNMAP and mSize = 0
\* it is both.
SizeAccounted ==
    \A a \in Areas :
        /\ IF revokeAt = "clear" /\ a \in current
             THEN mSize[a] = 1 /\ asked[a] = 1 /\ unmaps[a] = 1
             ELSE unmaps[a] + mSize[a] = asked[a]
        /\ areaAt[a] = "none" => asked[a] = 0
        /\ areaAt[a] \in {"remove", "gone"} => mSize[a] = 0

(* The inductive invariant. *)
PmemIInv ==
    PmemTypeOK /\ HoldersKnown /\ RevokeKnown /\ ListedKnown /\ SizeAccounted /\ RevokedAll

(* At the start no area was mapped. *)
LEMMA PmemStart == PmemInit => PmemIInv
BY DEF PmemInit, PmemIInv, PmemTypeOK, HoldersKnown, RevokeKnown, ListedKnown,
       SizeAccounted, RevokedAll, AreaPlaces, Dying

\* A client maps an area.
LEMMA PmemCreate == ASSUME PmemIInv, NEW a \in Areas, CreateMemory(a) PROVE PmemIInv'
<1>1. PmemTypeOK'
  BY PmemAssumption DEF PmemIInv, PmemTypeOK, CreateMemory, AreaPlaces, revokeVars
<1>2. HoldersKnown'
  BY PmemAssumption DEF PmemIInv, PmemTypeOK, HoldersKnown, RevokeKnown, ListedKnown,
     CreateMemory, AreaPlaces, Dying, revokeVars
<1>3. RevokeKnown'
  BY DEF PmemIInv, PmemTypeOK, RevokeKnown, ListedKnown, CreateMemory, revokeVars
<1>4. ListedKnown'
  BY DEF PmemIInv, PmemTypeOK, ListedKnown, CreateMemory, revokeVars
<1>5. SizeAccounted'
  BY DEF PmemIInv, PmemTypeOK, SizeAccounted, HoldersKnown, RevokeKnown, ListedKnown,
     CreateMemory, AreaPlaces, Dying, revokeVars
<1>6. RevokedAll'
  BY DEF PmemIInv, PmemTypeOK, RevokedAll, SizeAccounted, HoldersKnown, RevokeKnown,
     ListedKnown, CreateMemory, AreaPlaces, Dying, revokeVars
<1> QED BY <1>1, <1>2, <1>3, <1>4, <1>5, <1>6 DEF PmemIInv

\* The area is put on the list.
LEMMA PmemAdd == ASSUME PmemIInv, NEW a \in Areas, AddAllocation(a) PROVE PmemIInv'
<1>1. PmemTypeOK'
  BY PmemAssumption DEF PmemIInv, PmemTypeOK, AddAllocation, AreaPlaces, revokeVars
<1>2. HoldersKnown'
  BY PmemAssumption DEF PmemIInv, PmemTypeOK, HoldersKnown, RevokeKnown, ListedKnown,
     AddAllocation, AreaPlaces, Dying, revokeVars
<1>3. RevokeKnown'
  BY DEF PmemIInv, PmemTypeOK, RevokeKnown, SizeAccounted, AddAllocation, revokeVars
<1>4. ListedKnown'
  BY DEF PmemIInv, PmemTypeOK, ListedKnown, AddAllocation, revokeVars
<1>5. SizeAccounted'
  BY DEF PmemIInv, PmemTypeOK, SizeAccounted, HoldersKnown, RevokeKnown, ListedKnown,
     AddAllocation, AreaPlaces, Dying, revokeVars
<1>6. RevokedAll'
  BY DEF PmemIInv, PmemTypeOK, RevokedAll, SizeAccounted, HoldersKnown, RevokeKnown,
     ListedKnown, AddAllocation, AreaPlaces, Dying, revokeVars
<1> QED BY <1>1, <1>2, <1>3, <1>4, <1>5, <1>6 DEF PmemIInv

\* The client drops its area.
LEMMA PmemDrop == ASSUME PmemIInv, NEW a \in Areas, DropArea(a) PROVE PmemIInv'
<1>1. PmemTypeOK'
  BY PmemAssumption DEF PmemIInv, PmemTypeOK, DropArea, Dropped, AreaPlaces, revokeVars
<1>2. HoldersKnown'
  BY PmemAssumption DEF PmemIInv, PmemTypeOK, HoldersKnown, RevokeKnown, ListedKnown,
     DropArea, Dropped, AreaPlaces, Dying, revokeVars
<1>3. RevokeKnown'
  BY DEF PmemIInv, PmemTypeOK, RevokeKnown, SizeAccounted, DropArea, Dropped, revokeVars
<1>4. ListedKnown'
  BY DEF PmemIInv, PmemTypeOK, ListedKnown, DropArea, Dropped, revokeVars
<1>5. SizeAccounted'
  BY DEF PmemIInv, PmemTypeOK, SizeAccounted, HoldersKnown, RevokeKnown, ListedKnown,
     DropArea, Dropped, AreaPlaces, Dying, revokeVars
<1>6. RevokedAll'
  BY DEF PmemIInv, PmemTypeOK, RevokedAll, SizeAccounted, HoldersKnown, RevokeKnown,
     ListedKnown, DropArea, Dropped, AreaPlaces, Dying, revokeVars
<1> QED BY <1>1, <1>2, <1>3, <1>4, <1>5, <1>6 DEF PmemIInv

\* The destructor gives the area back if nobody has, ...
LEMMA PmemDestroyRevoke == ASSUME PmemIInv, NEW a \in Areas, DestroyRevoke(a) PROVE PmemIInv'
<1>1. PmemTypeOK'
  BY PmemAssumption DEF PmemIInv, PmemTypeOK, DestroyRevoke, AreaPlaces, revokeVars
<1>2. HoldersKnown'
  BY PmemAssumption DEF PmemIInv, PmemTypeOK, HoldersKnown, RevokeKnown, ListedKnown,
     DestroyRevoke, AreaPlaces, Dying, revokeVars
<1>3. RevokeKnown'
  BY DEF PmemIInv, PmemTypeOK, RevokeKnown, SizeAccounted, DestroyRevoke, revokeVars
<1>4. ListedKnown'
  BY DEF PmemIInv, PmemTypeOK, ListedKnown, DestroyRevoke, revokeVars
<1>5. SizeAccounted'
  BY DEF PmemIInv, PmemTypeOK, SizeAccounted, HoldersKnown, RevokeKnown, ListedKnown,
     DestroyRevoke, AreaPlaces, Dying, revokeVars
<1>6. RevokedAll'
  BY DEF PmemIInv, PmemTypeOK, RevokedAll, SizeAccounted, HoldersKnown, RevokeKnown,
     ListedKnown, DestroyRevoke, AreaPlaces, Dying, revokeVars
<1> QED BY <1>1, <1>2, <1>3, <1>4, <1>5, <1>6 DEF PmemIInv

\* ... and takes it off the list.
LEMMA PmemDestroyRemove == ASSUME PmemIInv, NEW a \in Areas, DestroyRemove(a) PROVE PmemIInv'
<1>1. PmemTypeOK'
  BY PmemAssumption DEF PmemIInv, PmemTypeOK, DestroyRemove, AreaPlaces, revokeVars
<1>2. HoldersKnown'
  BY PmemAssumption DEF PmemIInv, PmemTypeOK, HoldersKnown, RevokeKnown, ListedKnown,
     DestroyRemove, AreaPlaces, Dying, revokeVars
<1>3. RevokeKnown'
  BY DEF PmemIInv, PmemTypeOK, RevokeKnown, SizeAccounted, DestroyRemove, revokeVars
<1>4. ListedKnown'
  BY DEF PmemIInv, PmemTypeOK, ListedKnown, DestroyRemove, revokeVars
<1>5. SizeAccounted'
  BY DEF PmemIInv, PmemTypeOK, SizeAccounted, HoldersKnown, RevokeKnown, ListedKnown,
     DestroyRemove, AreaPlaces, Dying, revokeVars
<1>6. RevokedAll'
  BY DEF PmemIInv, PmemTypeOK, RevokedAll, SizeAccounted, HoldersKnown, RevokeKnown,
     ListedKnown, DestroyRemove, AreaPlaces, Dying, revokeVars
<1> QED BY <1>1, <1>2, <1>3, <1>4, <1>5, <1>6 DEF PmemIInv

\* The revoking thread promotes the next area, or finds that nobody holds it, ...
LEMMA PmemPromote == ASSUME PmemIInv, NEW a \in Areas, PromoteArea(a) PROVE PmemIInv'
<1>1. PmemTypeOK'
  BY PmemAssumption DEF PmemIInv, PmemTypeOK, PromoteArea, AreaPlaces, revokeVars
<1>2. HoldersKnown'
  BY PmemAssumption DEF PmemIInv, PmemTypeOK, HoldersKnown, RevokeKnown, ListedKnown,
     PromoteArea, AreaPlaces, Dying, revokeVars
<1>3. RevokeKnown'
  BY DEF PmemIInv, PmemTypeOK, RevokeKnown, SizeAccounted, PromoteArea, revokeVars
<1>4. ListedKnown'
  BY DEF PmemIInv, PmemTypeOK, ListedKnown, PromoteArea, revokeVars
<1>5. SizeAccounted'
  BY DEF PmemIInv, PmemTypeOK, SizeAccounted, HoldersKnown, RevokeKnown, ListedKnown,
     PromoteArea, AreaPlaces, Dying, revokeVars
<1>6. RevokedAll'
  BY DEF PmemIInv, PmemTypeOK, RevokedAll, SizeAccounted, HoldersKnown, RevokeKnown,
     ListedKnown, PromoteArea, AreaPlaces, Dying, revokeVars
<1> QED BY <1>1, <1>2, <1>3, <1>4, <1>5, <1>6 DEF PmemIInv

\* ... looks whether it was given back, ...
LEMMA PmemCheck == ASSUME PmemIInv, NEW a \in Areas, RevokeCheck(a) PROVE PmemIInv'
<1>1. PmemTypeOK'
  BY PmemAssumption DEF PmemIInv, PmemTypeOK, RevokeCheck, AreaPlaces, revokeVars
<1>2. HoldersKnown'
  BY PmemAssumption DEF PmemIInv, PmemTypeOK, HoldersKnown, RevokeKnown, ListedKnown,
     RevokeCheck, AreaPlaces, Dying, revokeVars
<1>3. RevokeKnown'
  BY DEF PmemIInv, PmemTypeOK, RevokeKnown, SizeAccounted, RevokeCheck, revokeVars
<1>4. ListedKnown'
  BY DEF PmemIInv, PmemTypeOK, ListedKnown, RevokeCheck, revokeVars
<1>5. SizeAccounted'
  BY DEF PmemIInv, PmemTypeOK, SizeAccounted, HoldersKnown, RevokeKnown, ListedKnown,
     RevokeCheck, AreaPlaces, Dying, revokeVars
<1>6. RevokedAll'
  BY DEF PmemIInv, PmemTypeOK, RevokedAll, SizeAccounted, HoldersKnown, RevokeKnown,
     ListedKnown, RevokeCheck, AreaPlaces, Dying, revokeVars
<1> QED BY <1>1, <1>2, <1>3, <1>4, <1>5, <1>6 DEF PmemIInv

\* ... notes that it is, ...
LEMMA PmemClear == ASSUME PmemIInv, NEW a \in Areas, RevokeClear(a) PROVE PmemIInv'
<1>1. PmemTypeOK'
  BY PmemAssumption DEF PmemIInv, PmemTypeOK, RevokeClear, AreaPlaces, revokeVars
<1>2. HoldersKnown'
  BY PmemAssumption DEF PmemIInv, PmemTypeOK, HoldersKnown, RevokeKnown, ListedKnown,
     RevokeClear, AreaPlaces, Dying, revokeVars
<1>3. RevokeKnown'
  BY DEF PmemIInv, PmemTypeOK, RevokeKnown, SizeAccounted, RevokeClear, revokeVars
<1>4. ListedKnown'
  BY DEF PmemIInv, PmemTypeOK, ListedKnown, RevokeClear, revokeVars
<1>5. SizeAccounted'
  BY DEF PmemIInv, PmemTypeOK, SizeAccounted, HoldersKnown, RevokeKnown, ListedKnown,
     RevokeClear, AreaPlaces, Dying, revokeVars
<1>6. RevokedAll'
  BY DEF PmemIInv, PmemTypeOK, RevokedAll, SizeAccounted, HoldersKnown, RevokeKnown,
     ListedKnown, RevokeClear, AreaPlaces, Dying, revokeVars
<1> QED BY <1>1, <1>2, <1>3, <1>4, <1>5, <1>6 DEF PmemIInv

\* ... and drops it.
LEMMA PmemRelease == ASSUME PmemIInv, NEW a \in Areas, RevokeDrop(a) PROVE PmemIInv'
<1>1. PmemTypeOK'
  BY PmemAssumption DEF PmemIInv, PmemTypeOK, RevokeDrop, Dropped, AreaPlaces, revokeVars
<1>2. HoldersKnown'
  BY PmemAssumption DEF PmemIInv, PmemTypeOK, HoldersKnown, RevokeKnown, ListedKnown,
     RevokeDrop, Dropped, AreaPlaces, Dying, revokeVars
<1>3. RevokeKnown'
  BY DEF PmemIInv, PmemTypeOK, RevokeKnown, SizeAccounted, RevokeDrop, Dropped, revokeVars
<1>4. ListedKnown'
  BY DEF PmemIInv, PmemTypeOK, ListedKnown, RevokeDrop, Dropped, revokeVars
<1>5. SizeAccounted'
  BY DEF PmemIInv, PmemTypeOK, SizeAccounted, HoldersKnown, RevokeKnown, ListedKnown,
     RevokeDrop, Dropped, AreaPlaces, Dying, revokeVars
<1>6. RevokedAll'
  BY DEF PmemIInv, PmemTypeOK, RevokedAll, SizeAccounted, HoldersKnown, RevokeKnown,
     ListedKnown, RevokeDrop, Dropped, AreaPlaces, Dying, revokeVars
<1> QED BY <1>1, <1>2, <1>3, <1>4, <1>5, <1>6 DEF PmemIInv

(* Copying the list, the return of the revoking thread and stuttering      *)
(* touch no area.                                                          *)
LEMMA PmemOther == PmemIInv /\ (CopyAllocations \/ RevokeReturns \/ UNCHANGED pmemVars) => PmemIInv'
<1> SUFFICES ASSUME PmemIInv, CopyAllocations \/ RevokeReturns \/ UNCHANGED pmemVars
             PROVE  PmemIInv'
  OBVIOUS
<1>1. CASE CopyAllocations
  BY Zenon, <1>1 DEF CopyAllocations, PmemIInv, PmemTypeOK, HoldersKnown, RevokeKnown,
     ListedKnown,
              SizeAccounted, RevokedAll, AreaPlaces, Dying
<1>2. CASE RevokeReturns
  BY ZenonT(30), <1>2 DEF RevokeReturns, PmemIInv, PmemTypeOK, HoldersKnown, RevokeKnown,
     ListedKnown,
              SizeAccounted, RevokedAll, AreaPlaces, Dying
<1>3. CASE UNCHANGED pmemVars
  BY <1>3 DEF pmemVars, PmemIInv, PmemTypeOK, HoldersKnown, RevokeKnown, ListedKnown,
              SizeAccounted, RevokedAll, AreaPlaces, Dying
<1> QED BY <1>1, <1>2, <1>3

(* Every reachable state satisfies the invariant. *)
LEMMA PmemAlways == PmemSpec => []PmemIInv
<1>1. PmemIInv /\ [PmemNext]_pmemVars => PmemIInv'
  BY PmemCreate, PmemAdd, PmemDrop, PmemDestroyRevoke, PmemDestroyRemove, PmemPromote,
     PmemCheck, PmemClear, PmemRelease, PmemOther DEF PmemNext
<1> QED BY <1>1, PmemStart, PTL DEF PmemSpec

(* However destructors, clients dropping areas and the revoking thread     *)
(* interleave, no mapped area is given back to the driver twice, and one   *)
(* whose destructor is past its revoke was given back.                     *)
THEOREM PmemUnmappedOnce == PmemSpec => []UnmappedOnce
<1>1. PmemIInv => UnmappedOnce
  BY DEF PmemIInv, PmemTypeOK, SizeAccounted, RevokeKnown, HoldersKnown, Dying, UnmappedOnce
<1> QED BY <1>1, PmemAlways, PTL

(* When revoke returns, every area that was listed when it copied the list *)
(* has been given back or is being destroyed.                              *)
THEOREM PmemRevokedAll == PmemSpec => []RevokedAll
<1>1. PmemIInv => RevokedAll
  BY DEF PmemIInv
<1> QED BY <1>1, PmemAlways, PTL
=============================================================================
