--------------------------- MODULE RilEventProofs ---------------------------
(***************************************************************************)
(* Proofs about RilEvent, for every set of events, threads, descriptors    *)
(* and delays, every size of the watch table and every bound of the clock: *)
(* types, the watch table, then the timer and pending lists and the wake   *)
(* pipe, which rest on the table.  RilEventRoomProofs has the room in it.  *)
(***************************************************************************)
EXTENDS RilEvent, TLAPS

USE SMTT(20), ZenonT(20)

-----------------------------------------------------------------------------
(* Facts about the operators of the tables and lists.                      *)

\* The watched events are events, never the empty slot.
LEMMA WatchedType ==
    ASSUME TypeOK PROVE Watched \subseteq FdEvents /\ NULL \notin Watched
BY ConstantsAssumption DEF TypeOK, Watched, Events

\* ril_timer_add leaves a list of timers, one longer, with the new timer at k and the
\* others in their order around it.
LEMMA InsertTimerType ==
    ASSUME TypeOK, NEW e \in TimerEvents, NEW delay \in Delays,
           InsertTimer(e, delay)
    PROVE  timer_list' \in Seq(TimerEvents) /\ timeout' \in [TimerEvents -> Nat]
<1>1. PICK k \in 1 .. Len(timer_list) + 1 :
        /\ timer_list' = [i \in 1 .. Len(timer_list) + 1 |->
                            IF i < k THEN timer_list[i]
                            ELSE IF i = k THEN e ELSE timer_list[i - 1]]
        /\ timeout' = [timeout EXCEPT ![e] = now + delay]
  BY Zenon DEF InsertTimer
<1>2. timer_list \in Seq(TimerEvents) /\ Len(timer_list) \in Nat
  BY DEF TypeOK
<1>3. \A i \in 1 .. Len(timer_list) + 1 : timer_list'[i] \in TimerEvents
  BY <1>1, <1>2
<1>4. timer_list' \in [1 .. Len(timer_list) + 1 -> TimerEvents]
  BY Zenon, <1>1, <1>2, <1>3
<1>5. timer_list' \in Seq(TimerEvents)
  BY <1>2, <1>4
<1>6. timeout' \in [TimerEvents -> Nat]
  BY <1>1, ConstantsAssumption DEF TypeOK
<1> QED BY Zenon, <1>5, <1>6

\* removeWatch keeps the types of the tables.
LEMMA RemoveWatchType ==
    ASSUME TypeOK, NEW S, RemoveWatch(S)
    PROVE  /\ readFds' \subseteq Fds /\ nfds' \in Nat
           /\ watch_table' \in [Slots -> FdEvents \cup {NULL}]
           /\ index' \in [FdEvents -> Slots \cup {-1}]
<1>1. nfds' \in Nat
  <2>1. CASE nfds' = nfds
    BY Zenon, <2>1 DEF TypeOK
  <2>2. CASE nfds' # nfds
    <3>1. PICK n \in {0} \cup {fd[e] : e \in Watched \ S} : nfds' = n + 1
      BY Zenon, <2>2 DEF RemoveWatch
    <3>2. \A e \in Watched : fd[e] \in Fds \cup {-1}
      BY Zenon, WatchedType DEF TypeOK
    <3>3. n = 0 \/ n \in Fds \cup {-1}
      BY Zenon, <3>1, <3>2
    <3>4. Fds \subseteq Nat
      BY Zenon, ConstantsAssumption
    <3> QED BY <3>1, <3>3, <3>4
  <2> QED BY Zenon, <2>1, <2>2
<1> QED BY Zenon, <1>1 DEF RemoveWatch, TypeOK

\* Taking a slot keeps the types of the tables.
LEMMA PutInSlotType ==
    ASSUME TypeOK, NEW e \in FdEvents, NEW f \in Fds, NEW i \in Slots,
           PutInSlot(e, f, i)
    PROVE  /\ readFds' \subseteq Fds
           /\ watch_table' \in [Slots -> FdEvents \cup {NULL}]
           /\ fd' \in [FdEvents -> Fds \cup {-1}]
           /\ index' \in [FdEvents -> Slots \cup {-1}]
BY Zenon DEF PutInSlot, TypeOK

LEMMA GrownNfdsType ==
    ASSUME TypeOK, NEW f \in Fds \cup {-1} PROVE GrownNfds(f) \in Nat
BY ConstantsAssumption DEF TypeOK, GrownNfds

-----------------------------------------------------------------------------
(* Type correctness.                                                       *)

LEMMA TypeInit == Init => TypeOK
<1> SUFFICES ASSUME Init PROVE TypeOK
  OBVIOUS
<1>1. /\ watch_table \in [Slots -> FdEvents \cup {NULL}]
      /\ fd \in [FdEvents -> Fds \cup {-1}]
      /\ index \in [FdEvents -> Slots \cup {-1}]
      /\ timeout \in [TimerEvents -> Nat]
      /\ tpc \in [Threads -> {"idle", "grow", "trigger"}]
      /\ tev \in [Threads -> FdEvents]
  BY Zenon, ConstantsAssumption DEF Init
<1>2. timer_list \in Seq(TimerEvents) /\ pending_list \in Seq(Events)
  BY DEF Init
<1> QED BY Zenon, <1>1, <1>2 DEF Init, TypeOK, LoopPcs

LEMMA TypeStep == TypeOK /\ [Next]_vars => TypeOK'
<1> SUFFICES ASSUME TypeOK, [Next]_vars PROVE TypeOK'
  OBVIOUS
<1> USE ConstantsAssumption
<1>1. CASE LoopInit
  BY Zenon, <1>1 DEF LoopInit, TypeOK, LoopPcs, tables, timers, loopSel, thrs
<1>2. CASE LoopPipe
  BY Zenon, <1>2 DEF LoopPipe, TypeOK, LoopPcs, tables, timers, loopSel, thrs
<1>3. CASE LoopWatchWake
  <2>1. wakeByte' \in BOOLEAN
    BY Zenon, <1>3 DEF LoopWatchWake, TypeOK
  <2>2. CASE TableFull /\ UNCHANGED tables
    BY Zenon, <1>3, <2>1, <2>2 DEF LoopWatchWake, TypeOK, LoopPcs, tables, timers,
                            loopSel, thrs
  <2>3. ASSUME NEW i \in Slots, NEW f \in Fds, PutInSlot(WakeEvent, f, i),
               nfds' = GrownNfds(f)
        PROVE  TypeOK'
    BY Zenon, <1>3, <2>1, <2>3, PutInSlotType, GrownNfdsType
       DEF LoopWatchWake, TypeOK, LoopPcs, timers, loopSel, thrs
  <2> QED BY Zenon, <1>3, <2>2, <2>3 DEF LoopWatchWake
<1>4. CASE LoopCopy
  BY Zenon, <1>4 DEF LoopCopy, TypeOK, LoopPcs, tables, timers, thrs
<1>5. CASE LoopCopied
  BY Zenon, <1>5 DEF LoopCopied, TypeOK, LoopPcs, tables, timers, thrs
<1>6. CASE LoopCalcTimeout
  <2>1. NextTimeout \in Nat \cup {Forever}
    <3>1. CASE timer_list = << >>
      BY Zenon, <3>1 DEF NextTimeout
    <3>2. CASE timer_list # << >>
      <4>1. timeout[Head(timer_list)] \in Nat /\ now \in Nat
        BY <3>2 DEF TypeOK
      <4> QED BY <3>2, <4>1 DEF NextTimeout
    <3> QED BY Zenon, <3>1, <3>2
  <2> QED BY Zenon, <1>6, <2>1 DEF LoopCalcTimeout, TypeOK, LoopPcs, tables, timers, thrs
<1>7. CASE LoopSelect
  BY <1>7 DEF LoopSelect, TypeOK, LoopPcs, tables, timers, thrs, Forever
<1>8. CASE LoopSelectReturns
  BY Zenon, <1>8 DEF LoopSelectReturns, ReadyFds, TypeOK, LoopPcs, tables, timers, thrs
<1>9. CASE LoopProcessTimeouts
  <2>1. PICK k \in 0 .. Len(timer_list) :
          /\ pending_list' = pending_list \o SubSeq(timer_list, 1, k)
          /\ timer_list' = SubSeq(timer_list, k + 1, Len(timer_list))
    BY Zenon, <1>9 DEF LoopProcessTimeouts
  <2>2. SubSeq(timer_list, 1, k) \in Seq(TimerEvents) /\ timer_list' \in Seq(TimerEvents)
    BY <2>1 DEF TypeOK
  <2>3. SubSeq(timer_list, 1, k) \in Seq(Events)
    BY <2>2 DEF Events
  <2>4. pending_list' \in Seq(Events)
    BY <2>1, <2>3 DEF TypeOK
  <2> QED BY Zenon, <1>9, <2>2, <2>4 DEF LoopProcessTimeouts, TypeOK, LoopPcs, tables,
                                  loopSel, thrs
<1>10. CASE LoopProcessReadReadies
  <2>1. RemoveWatch(OneShot(ReadySlots))
    BY Zenon, <1>10 DEF LoopProcessReadReadies
  <2>2. PICK s \in InSlotOrder(ReadySlots) :
          pending_list' = pending_list \o [i \in DOMAIN s |-> watch_table[s[i]]]
    BY Zenon, <1>10 DEF LoopProcessReadReadies
  <2>3. PICK m \in 0 .. MaxFdEvents : s \in [1 .. m -> ReadySlots]
    BY Zenon, <2>2 DEF InSlotOrder
  <2>4. [i \in DOMAIN s |-> watch_table[s[i]]] \in Seq(Events)
    <3>1. \A i \in ReadySlots : watch_table[i] \in Events
      BY Zenon DEF ReadySlots, IsReady, TypeOK, Events
    <3> QED BY <2>3, <3>1, ConstantsAssumption
  <2>5. pending_list' \in Seq(Events)
    BY <2>2, <2>4 DEF TypeOK
  <2> QED BY Zenon, <1>10, <2>1, <2>5, RemoveWatchType
          DEF LoopProcessReadReadies, TypeOK, LoopPcs, timers, thrs
<1>11. CASE LoopFire
  BY <1>11 DEF LoopFire, TypeOK, LoopPcs, tables, timers, loopSel, thrs
<1>12. CASE LoopFired
  BY Zenon, <1>12 DEF LoopFired, TypeOK, LoopPcs, tables, timers, loopSel, thrs
<1>13. CASE CallbackReturn
  <2>1. readable' \subseteq Fds
    BY <1>13 DEF CallbackReturn, TypeOK
  <2> QED BY Zenon, <1>13, <2>1 DEF CallbackReturn, TypeOK, LoopPcs, tables, loopSel, thrs
<1>14. CASE DrainWakePipe
  BY Zenon, <1>14 DEF DrainWakePipe, TypeOK, LoopPcs, tables, timers, loopSel, thrs
<1>15. CASE LoopInterrupted
  BY Zenon, <1>15 DEF LoopInterrupted, TypeOK, LoopPcs, tables, timers, thrs
<1>16. CASE LoopSelectFails
  BY <1>16 DEF LoopSelectFails, TypeOK, LoopPcs, tables, timers, loopSel, thrs
<1>17. CASE CallbackDel
  <2>1. CASE RemoveWatch({cur})
    BY Zenon, <1>17, <2>1, RemoveWatchType DEF CallbackDel, TypeOK, timers, loopSel, thrs
  <2>2. CASE UNCHANGED <<readFds, nfds, watch_table, index>>
    BY Zenon, <1>17, <2>2 DEF CallbackDel, TypeOK, timers, loopSel, thrs
  <2> QED BY <1>17, <2>1, <2>2 DEF CallbackDel
<1>18. ASSUME NEW e \in FdEvents, NEW f \in Fds, CallbackAdd(e, f) PROVE TypeOK'
  <2>1. CASE TableFull /\ UNCHANGED tables
    BY <1>18, <2>1 DEF CallbackAdd, TypeOK, tables, timers, loopSel, thrs
  <2>2. ASSUME NEW i \in Slots, PutInSlot(e, f, i), nfds' = GrownNfds(f)
        PROVE  TypeOK'
    BY Zenon, <1>18, <2>2, PutInSlotType, GrownNfdsType
       DEF CallbackAdd, TypeOK, timers, loopSel, thrs
  <2> QED BY <1>18, <2>1, <2>2 DEF CallbackAdd
<1>19. ASSUME NEW e \in TimerEvents, NEW d \in Delays, CallbackTimer(e, d) PROVE TypeOK'
  BY Zenon, <1>19, InsertTimerType DEF CallbackTimer, TypeOK, tables, loopSel, thrs
<1>20. ASSUME NEW t \in Threads, NEW e \in FdEvents, NEW f \in Fds, AddEvent(t, e, f)
       PROVE  TypeOK'
  BY <1>20, PutInSlotType DEF AddEvent, TypeOK, timers, loopSel
<1>21. ASSUME NEW t \in Threads, NEW e \in FdEvents, AddEventFull(t, e) PROVE TypeOK'
  BY <1>21 DEF AddEventFull, TypeOK, tables, timers, loopSel
<1>22. ASSUME NEW t \in Threads, GrowNfds(t) PROVE TypeOK'
  <2>1. fd[tev[t]] \in Fds \cup {-1}
    BY Zenon DEF TypeOK
  <2> QED BY Zenon, <1>22, <2>1, GrownNfdsType DEF GrowNfds, TypeOK, timers, loopSel
<1>23. ASSUME NEW t \in Threads, NEW e \in TimerEvents, NEW d \in Delays,
              AddTimer(t, e, d)
       PROVE  TypeOK'
  BY Zenon, <1>23, InsertTimerType DEF AddTimer, TypeOK, tables, loopSel
<1>24. ASSUME NEW t \in Threads, Trigger(t) PROVE TypeOK'
  <2>1. wakeByte' \in BOOLEAN
    BY Zenon, <1>24 DEF Trigger
  <2> QED BY <1>24, <2>1 DEF Trigger, TypeOK, tables, timers, loopSel
<1>25. CASE Tick
  BY <1>25 DEF Tick, TypeOK, tables, timers, loopSel, thrs
<1>26. ASSUME NEW f \in Fds, InputArrives(f) PROVE TypeOK'
  BY Zenon, <1>26 DEF InputArrives, TypeOK, tables, timers, loopSel, thrs
<1>27. CASE Restart
  <2>1. /\ (watch_table \in [Slots -> FdEvents \cup {NULL}])'
        /\ (fd \in [FdEvents -> Fds \cup {-1}])'
        /\ (index \in [FdEvents -> Slots \cup {-1}])'
        /\ (timeout \in [TimerEvents -> Nat])'
        /\ (tpc \in [Threads -> {"idle", "grow", "trigger"}])'
        /\ (tev \in [Threads -> FdEvents])'
    BY Zenon, <1>27 DEF Restart
  <2>2. (timer_list \in Seq(TimerEvents) /\ pending_list \in Seq(Events))'
    BY <1>27 DEF Restart
  <2> QED BY Zenon, <1>27, <2>1, <2>2 DEF Restart, TypeOK, LoopPcs
<1>28. CASE UNCHANGED vars
  BY Zenon, <1>28 DEF vars, TypeOK, tables, timers, loopSel, thrs
<1> QED
  BY Zenon, <1>1, <1>2, <1>3, <1>4, <1>5, <1>6, <1>7, <1>8, <1>9, <1>10, <1>11, <1>12,
     <1>13, <1>14, <1>15, <1>16, <1>17, <1>18, <1>19, <1>20, <1>21, <1>22, <1>23,
     <1>24, <1>25, <1>26, <1>27, <1>28
     DEF Next, LoopStep, CallbackStep, ThreadStep

\* Type correctness of the event library.
THEOREM TypeCorrect == Spec => []TypeOK
BY TypeInit, TypeStep, PTL DEF Spec

-----------------------------------------------------------------------------
(* The tables agree.                                                       *)

TableIInv == TypeOK /\ TableInv /\ GrowInv /\ SetupInv

\* ril_event_add watches its event and disturbs no other.
LEMMA PutInSlotTables ==
    ASSUME TableIInv, NEW e \in FdEvents, NEW f \in Fds, NEW i \in Slots,
           PutInSlot(e, f, i), IsFdFor(f, e), e \notin Watched
    PROVE  /\ SlotsAndIndexAgree' /\ ReadFdsAgree'
           /\ Watched' = Watched \cup {e}
           /\ fd'[e] = f /\ \A g \in Watched : fd'[g] = fd[g]
<1> USE ConstantsAssumption
<1>1. TypeOK /\ SlotsAndIndexAgree /\ ReadFdsAgree /\ e # NULL
  BY Zenon DEF TableIInv, TableInv
<1>2. watch_table[i] = NULL
  BY Zenon DEF PutInSlot, FirstFree
<1>3. Watched' = Watched \cup {e}
  BY <1>1, <1>2 DEF Watched, PutInSlot, TypeOK
<1>4. fd'[e] = f /\ \A g \in FdEvents : g # e => fd'[g] = fd[g]
  BY Zenon, <1>1 DEF PutInSlot, TypeOK
<1>5. SlotsAndIndexAgree'
  <2>1. index[e] = -1
    <3>1. ASSUME index[e] # -1 PROVE FALSE
      <4>1. index[e] \in Slots /\ watch_table[index[e]] = e
        BY <1>1, <3>1 DEF TypeOK, SlotsAndIndexAgree
      <4> QED BY Zenon, <1>1, <4>1 DEF Watched
    <3> QED BY Zenon, <3>1
  <2>2. ASSUME NEW j \in Slots, watch_table'[j] # NULL
        PROVE  index'[watch_table'[j]] = j
    <3>1. CASE j = i
      BY Zenon, <1>1, <3>1 DEF PutInSlot, TypeOK
    <3>2. CASE j # i
      <4>1. watch_table'[j] = watch_table[j] /\ watch_table[j] # NULL
        BY <1>1, <2>2, <3>2 DEF PutInSlot, TypeOK
      <4>2. watch_table[j] # e /\ watch_table[j] \in FdEvents
        BY <1>1, <4>1 DEF Watched, TypeOK
      <4> QED BY Zenon, <1>1, <4>1, <4>2 DEF PutInSlot, TypeOK, SlotsAndIndexAgree
    <3> QED BY Zenon, <3>1, <3>2
  <2>3. ASSUME NEW g \in FdEvents, index'[g] # -1
        PROVE  watch_table'[index'[g]] = g
    <3>1. CASE g = e
      BY <1>1, <3>1 DEF PutInSlot, TypeOK
    <3>2. CASE g # e
      <4>1. index'[g] = index[g] /\ index[g] \in Slots
        BY <1>1, <2>3, <3>2 DEF PutInSlot, TypeOK
      <4>2. watch_table[index[g]] = g
        BY Zenon, <1>1, <2>3, <4>1 DEF SlotsAndIndexAgree
      <4>3. index[g] # i
        BY Zenon, <1>2, <4>2
      <4> QED BY <1>1, <4>1, <4>2, <4>3 DEF PutInSlot, TypeOK
    <3> QED BY <3>1, <3>2
  <2> QED BY <2>2, <2>3 DEF SlotsAndIndexAgree
<1>6. ReadFdsAgree'
  <2>1. Watched \subseteq FdEvents
    BY Zenon, <1>1, WatchedType
  <2>2. readFds' = {fd[g] : g \in Watched} \cup {f}
    BY Zenon, <1>1 DEF PutInSlot, ReadFdsAgree, WatchedFds
  <2>3. WatchedFds' = {fd[g] : g \in Watched} \cup {f}
    <3>1. WatchedFds' = {fd'[g] : g \in Watched \cup {e}}
      BY Zenon, <1>3 DEF WatchedFds
    <3>2. \A g \in Watched : fd'[g] = fd[g]
      BY Zenon, <1>4, <2>1
    <3> QED BY <1>4, <3>1, <3>2
  <2>4. -1 \notin WatchedFds'
    BY <1>1, <2>3 DEF ReadFdsAgree, WatchedFds
  <2>5. \A g \in FdEvents : g # e => fd[g] # f
    BY Zenon, <1>1 DEF IsFdFor, ReadFdsAgree
  <2>6. ASSUME NEW g \in FdEvents, NEW h \in FdEvents, fd'[g] = fd'[h]
        PROVE  g = h \/ fd'[g] = -1
    BY Zenon, <1>1, <1>4, <2>5, <2>6 DEF ReadFdsAgree
  <2> QED BY <2>2, <2>3, <2>4, <2>6 DEF ReadFdsAgree
<1> QED BY Zenon, <1>1, <1>3, <1>4, <1>5, <1>6, WatchedType

\* removeWatch unwatches the events of S and disturbs no other; the descriptors of S
\* may be closed with it.
LEMMA RemoveWatchTables ==
    ASSUME TableIInv, MutexFree, NEW S \in SUBSET FdEvents, RemoveWatch(S),
           fd' \in [FdEvents -> Fds \cup {-1}],
           \A g \in FdEvents : fd'[g] = fd[g] \/ (g \in S /\ fd'[g] = -1),
           \A t \in Threads : tpc'[t] # "grow"
    PROVE  TableInv' /\ Watched' = Watched \ S
<1> USE ConstantsAssumption
<1>1. TypeOK /\ SlotsAndIndexAgree /\ ReadFdsAgree /\ NfdsAgrees /\ NULL \notin S
  BY Zenon DEF TableIInv, TableInv
<1>2. Watched \subseteq FdEvents
  BY Zenon, <1>1, WatchedType
<1>3. Watched' = Watched \ S
  BY <1>1 DEF RemoveWatch, Watched, TypeOK
<1>4. SlotsAndIndexAgree'
  <2>1. ASSUME NEW j \in Slots, watch_table'[j] # NULL
        PROVE  index'[watch_table'[j]] = j
    <3>1. watch_table'[j] = watch_table[j] /\ watch_table[j] \notin S
      BY Zenon, <1>1, <2>1 DEF RemoveWatch, TypeOK
    <3> QED BY <1>1, <2>1, <3>1 DEF RemoveWatch, TypeOK, SlotsAndIndexAgree
  <2>2. ASSUME NEW g \in FdEvents, index'[g] # -1
        PROVE  watch_table'[index'[g]] = g
    <3>1. index'[g] = index[g] /\ g \notin S
      BY Zenon, <1>1, <2>2 DEF RemoveWatch, TypeOK
    <3> QED BY <1>1, <2>2, <3>1 DEF RemoveWatch, TypeOK, SlotsAndIndexAgree
  <2> QED BY Zenon, <2>1, <2>2 DEF SlotsAndIndexAgree
<1>5. \A g \in Watched \ S : fd'[g] = fd[g]
  BY Zenon, <1>2
<1>6. ReadFdsAgree'
  <2>1. WatchedFds' = {fd[g] : g \in Watched \ S}
    BY <1>3, <1>5 DEF WatchedFds
  <2>2. readFds' = {fd[g] : g \in Watched} \ {fd[g] : g \in S}
    BY Zenon, <1>1 DEF RemoveWatch, ReadFdsAgree, WatchedFds
  <2>3. \A g \in Watched \ S, h \in S : fd[g] # fd[h]
    BY <1>1, <1>2 DEF ReadFdsAgree, WatchedFds
  <2>4. readFds' = WatchedFds'
    BY <2>1, <2>2, <2>3
  <2>5. -1 \notin WatchedFds'
    BY Zenon, <1>1, <2>1 DEF ReadFdsAgree, WatchedFds
  <2>6. \A g, h \in FdEvents : fd'[g] = fd'[h] => g = h \/ fd'[g] = -1
    BY Zenon, <1>1 DEF ReadFdsAgree
  <2> QED BY Zenon, <2>4, <2>5, <2>6 DEF ReadFdsAgree
<1>7. NfdsAgrees'
  <2>1. \A e \in Watched : fd[e] < nfds
    BY Zenon, <1>1 DEF MutexFree, NfdsAgrees, Growing
  <2>2. \A e \in Watched : fd[e] \in Nat
    BY Zenon, <1>1, <1>2 DEF TypeOK, ReadFdsAgree, WatchedFds
  <2>3. CASE \E e \in S : fd[e] + 1 = nfds
    <3>1. PICK n \in {0} \cup {fd[e] : e \in Watched \ S} :
            (\A e \in Watched \ S : fd[e] <= n) /\ nfds' = n + 1
      BY Zenon, <2>3 DEF RemoveWatch
    <3>2. n \in Nat
      BY <2>2, <3>1
    <3>3. \A e \in Watched' : fd'[e] < nfds'
      BY <1>3, <1>5, <2>2, <3>1, <3>2
    <3>4. nfds' <= 1 \/ \E e \in Watched' : fd'[e] + 1 = nfds'
      BY <1>3, <1>5, <3>1, <3>2
    <3> QED BY Zenon, <3>3, <3>4 DEF NfdsAgrees
  <2>4. CASE ~ \E e \in S : fd[e] + 1 = nfds
    <3>1. nfds' = nfds
      BY Zenon, <2>4 DEF RemoveWatch
    <3>2. \A e \in Watched' : fd'[e] < nfds'
      BY Zenon, <1>3, <1>5, <2>1, <3>1
    <3>3. nfds' <= 1 \/ \E e \in Watched' : fd'[e] + 1 = nfds'
      BY <1>1, <1>3, <1>5, <2>4, <3>1 DEF NfdsAgrees
    <3> QED BY Zenon, <3>2, <3>3 DEF NfdsAgrees
  <2> QED BY Zenon, <2>3, <2>4
<1> QED BY Zenon, <1>3, <1>4, <1>6, <1>7 DEF TableInv

\* A step that leaves the tables and the threads alone keeps them in agreement.
LEMMA TableFrame ==
    ASSUME TableIInv, UNCHANGED <<tables, thrs>> PROVE (TableInv /\ GrowInv)'
BY DEF TableIInv, TableInv, SlotsAndIndexAgree, ReadFdsAgree, NfdsAgrees, Growing,
       GrowInv, Watched, WatchedFds, tables, thrs

\* An add by the loop's own thread: both steps of ril_event_add at once.
LEMMA LoopAddTables ==
    ASSUME TableIInv, MutexFree, NEW e \in FdEvents, NEW f \in Fds, NEW i \in Slots,
           PutInSlot(e, f, i), IsFdFor(f, e), e \notin Watched,
           nfds' = GrownNfds(f), UNCHANGED thrs
    PROVE  (TableInv /\ GrowInv)'
<1>1. /\ SlotsAndIndexAgree' /\ ReadFdsAgree' /\ Watched' = Watched \cup {e}
      /\ fd'[e] = f /\ \A g \in Watched : fd'[g] = fd[g]
  BY Zenon, PutInSlotTables
<1>2. TypeOK /\ NfdsAgrees /\ nfds \in Nat /\ f \in Nat
  BY Zenon, ConstantsAssumption DEF TableIInv, TableInv, TypeOK
<1>3. \A g \in Watched : fd[g] < nfds /\ fd[g] \in Nat \cup {-1}
  BY Zenon, <1>2, WatchedType, ConstantsAssumption DEF MutexFree, NfdsAgrees, Growing, TypeOK
<1>4. nfds' > f /\ nfds' >= nfds /\ nfds' \in Nat /\ (nfds' = nfds \/ nfds' = f + 1)
  BY <1>2 DEF GrownNfds
<1>5. \A g \in Watched' : fd'[g] < nfds'
  BY <1>1, <1>2, <1>3, <1>4
<1>6. nfds' <= 1 \/ \E g \in Watched' : fd'[g] + 1 = nfds'
  BY Zenon, <1>1, <1>2, <1>4 DEF NfdsAgrees
<1>7. NfdsAgrees'
  BY Zenon, <1>5, <1>6 DEF NfdsAgrees
<1>8. GrowInv'
  BY Zenon DEF GrowInv, MutexFree, thrs
<1> QED BY Zenon, <1>1, <1>7, <1>8 DEF TableInv

LEMMA TableInit == Init => TableInv /\ GrowInv
<1> SUFFICES ASSUME Init PROVE TableInv /\ GrowInv
  OBVIOUS
<1>1. Watched = {} /\ WatchedFds = {}
  BY DEF Init, Watched, WatchedFds
<1>2. SlotsAndIndexAgree
  BY Zenon DEF Init, SlotsAndIndexAgree
<1>3. ReadFdsAgree
  BY <1>1 DEF Init, ReadFdsAgree
<1>4. NfdsAgrees
  BY <1>1 DEF Init, NfdsAgrees
<1>5. GrowInv
  BY DEF Init, GrowInv
<1> QED BY <1>2, <1>3, <1>4, <1>5 DEF TableInv

LEMMA TableStep == TableIInv /\ [Next]_vars => (TableInv /\ GrowInv)'
<1> SUFFICES ASSUME TableIInv, [Next]_vars PROVE (TableInv /\ GrowInv)'
  OBVIOUS
<1> USE ConstantsAssumption
<1>0. TypeOK
  BY Zenon DEF TableIInv
<1>1. CASE UNCHANGED <<tables, thrs>>
  BY <1>1, TableFrame
<1>2. CASE LoopWatchWake
  <2>1. CASE UNCHANGED tables
    BY <1>2, <2>1, TableFrame DEF LoopWatchWake
  <2>2. ASSUME NEW i \in Slots, NEW f \in Fds, IsFdFor(f, WakeEvent),
               PutInSlot(WakeEvent, f, i), nfds' = GrownNfds(f)
        PROVE  (TableInv /\ GrowInv)'
    <3>1. WakeEvent \notin Watched
      BY <1>2 DEF LoopWatchWake, TableIInv, SetupInv, SettingUp
    <3> QED BY <1>2, <2>2, <3>1, LoopAddTables DEF LoopWatchWake
  <2> QED BY <1>2, <2>1, <2>2 DEF LoopWatchWake
<1>3. CASE LoopProcessReadReadies
  <2>1. OneShot(ReadySlots) \in SUBSET FdEvents
    BY ZenonT(30), <1>0 DEF OneShot, ReadySlots, IsReady, TypeOK
  <2>2. TableInv'
    BY Zenon, <1>0, <1>3, <2>1, RemoveWatchTables
       DEF LoopProcessReadReadies, MutexFree, thrs, TypeOK
  <2>3. GrowInv'
    BY Zenon, <1>3 DEF LoopProcessReadReadies, MutexFree, thrs, GrowInv
  <2> QED BY <2>2, <2>3
<1>4. CASE CallbackDel
  <2>1. cur \in FdEvents /\ MutexFree /\ UNCHANGED thrs
    BY <1>4 DEF CallbackDel, InCallback
  <2>2. GrowInv'
    BY <2>1 DEF MutexFree, thrs, GrowInv
  <2>3. fd' = [fd EXCEPT ![cur] = -1]
    BY <1>4 DEF CallbackDel
  <2>4. CASE index[cur] \in Slots
    <3>1. TableInv'
      BY ZenonT(30), <1>0, <1>4, <2>1, <2>3, <2>4, RemoveWatchTables
         DEF CallbackDel, MutexFree, thrs, TypeOK
    <3> QED BY <2>2, <3>1
  <2>5. CASE index[cur] \notin Slots
    <3>1. UNCHANGED <<readFds, nfds, watch_table, index>>
      BY <1>4, <2>5 DEF CallbackDel
    <3>2. cur \notin Watched
      BY <1>0, <2>1, <2>5 DEF TableIInv, TableInv, SlotsAndIndexAgree, Watched, TypeOK
    <3>3. Watched' = Watched /\ Watched \subseteq FdEvents
      BY Zenon, <1>0, <3>1, WatchedType DEF Watched
    <3>4. \A g \in Watched : fd'[g] = fd[g]
      BY <1>0, <2>3, <3>2, <3>3 DEF TypeOK
    <3>5. WatchedFds' = WatchedFds
      BY <3>3, <3>4 DEF WatchedFds
    <3>6. SlotsAndIndexAgree'
      BY <3>1 DEF TableIInv, TableInv, SlotsAndIndexAgree
    <3>7. ReadFdsAgree'
      BY <1>0, <2>3, <3>1, <3>5 DEF TableIInv, TableInv, ReadFdsAgree, TypeOK
    <3>8. NfdsAgrees'
      BY <2>1, <3>1, <3>3, <3>4 DEF TableIInv, TableInv, NfdsAgrees, Growing, thrs
    <3> QED BY Zenon, <2>2, <3>6, <3>7, <3>8 DEF TableInv
  <2> QED BY Zenon, <2>4, <2>5
<1>5. ASSUME NEW e \in FdEvents, NEW f \in Fds, CallbackAdd(e, f)
      PROVE  (TableInv /\ GrowInv)'
  <2>1. CASE UNCHANGED tables
    BY <1>5, <2>1, TableFrame DEF CallbackAdd
  <2>2. ASSUME NEW i \in Slots, PutInSlot(e, f, i), nfds' = GrownNfds(f)
        PROVE  (TableInv /\ GrowInv)'
    BY <1>5, <2>2, LoopAddTables DEF CallbackAdd, InCallback
  <2> QED BY <1>5, <2>1, <2>2 DEF CallbackAdd
<1>6. ASSUME NEW t \in Threads, NEW e \in FdEvents, NEW f \in Fds, AddEvent(t, e, f)
      PROVE  (TableInv /\ GrowInv)'
  <2>1. PICK i \in Slots : PutInSlot(e, f, i)
    BY Zenon, <1>6 DEF AddEvent
  <2>2. /\ SlotsAndIndexAgree' /\ ReadFdsAgree' /\ Watched' = Watched \cup {e}
        /\ fd'[e] = f /\ \A g \in Watched : fd'[g] = fd[g]
    BY Zenon, <1>6, <2>1, PutInSlotTables DEF AddEvent, Idle
  <2>3. /\ tpc' = [tpc EXCEPT ![t] = "grow"] /\ tev' = [tev EXCEPT ![t] = e]
        /\ MutexFree /\ nfds' = nfds
    BY <1>6 DEF AddEvent
  <2>4. Growing(e)'
    BY <1>0, <2>3 DEF Growing, TypeOK
  <2>5. NfdsAgrees'
    BY <2>2, <2>3, <2>4 DEF TableIInv, TableInv, NfdsAgrees, Growing, MutexFree
  <2>6. GrowInv'
    BY <1>0, <1>6, <2>2, <2>3 DEF AddEvent, GrowInv, MutexFree, TypeOK
  <2> QED BY <2>2, <2>5, <2>6 DEF TableInv
<1>7. ASSUME NEW t \in Threads, GrowNfds(t) PROVE (TableInv /\ GrowInv)'
  <2> DEFINE e == tev[t]
  <2>1. /\ tpc' = [tpc EXCEPT ![t] = "trigger"] /\ tpc[t] = "grow"
        /\ tev' = [tev EXCEPT ![t] = WakeEvent]
        /\ nfds' = GrownNfds(fd[e])
        /\ UNCHANGED <<readFds, watch_table, fd, index>>
    BY Zenon, <1>7 DEF GrowNfds
  <2>2. Watched' = Watched /\ WatchedFds' = WatchedFds
    BY <2>1 DEF Watched, WatchedFds
  <2>3. e \in Watched /\ \A u \in Threads : tpc[u] = "grow" => u = t
    BY <2>1 DEF TableIInv, GrowInv
  <2>4. \A u \in Threads : tpc'[u] # "grow"
    BY Zenon, <1>0, <2>1, <2>3 DEF TypeOK
  <2>5. \A g \in Watched : fd[g] \in Nat
    BY Zenon, <1>0, WatchedType DEF TableIInv, TableInv, ReadFdsAgree, WatchedFds, TypeOK
  <2>6. \A g \in Watched : g # e => fd[g] < nfds
    BY <2>3 DEF TableIInv, TableInv, NfdsAgrees, Growing
  <2>7. nfds' > fd[e] /\ nfds' >= nfds /\ (nfds' = nfds \/ nfds' = fd[e] + 1)
    BY <1>0, <2>1, <2>3, <2>5 DEF GrownNfds, TypeOK
  <2>8. NfdsAgrees'
    <3>1. \A g \in Watched : fd[g] < nfds'
      BY <1>0, <2>1, <2>3, <2>5, <2>6, <2>7, GrownNfdsType DEF TypeOK
    <3>2. nfds' <= 1 \/ \E g \in Watched : fd[g] + 1 = nfds'
      BY Zenon, <2>3, <2>7 DEF TableIInv, TableInv, NfdsAgrees
    <3> QED BY Zenon, <2>1, <2>2, <3>1, <3>2 DEF NfdsAgrees
  <2>9. SlotsAndIndexAgree' /\ ReadFdsAgree'
    BY <2>1, <2>2 DEF TableIInv, TableInv, SlotsAndIndexAgree, ReadFdsAgree
  <2>10. GrowInv'
    BY <2>4 DEF GrowInv
  <2> QED BY Zenon, <2>8, <2>9, <2>10 DEF TableInv
<1>8. ASSUME NEW t \in Threads, UNCHANGED <<tables, tev>>, tpc[t] # "grow",
             tpc' \in {[tpc EXCEPT ![t] = "trigger"], [tpc EXCEPT ![t] = "idle"]}
      PROVE  (TableInv /\ GrowInv)'
  <2>1. \A u \in Threads : (tpc'[u] = "grow") <=> (tpc[u] = "grow")
    BY <1>0, <1>8 DEF TypeOK
  <2>2. TableInv'
    <3>1. SlotsAndIndexAgree' /\ ReadFdsAgree'
      BY <1>8 DEF TableIInv, TableInv, SlotsAndIndexAgree, ReadFdsAgree, Watched,
         WatchedFds, tables
    <3>2. \A e : Growing(e)' <=> Growing(e)
      BY Zenon, <1>8, <2>1 DEF Growing
    <3>3. NfdsAgrees'
      BY <1>8, <3>2 DEF TableIInv, TableInv, NfdsAgrees, Watched, tables
    <3> QED BY <3>1, <3>3 DEF TableInv
  <2>3. GrowInv'
    BY <1>8, <2>1 DEF TableIInv, GrowInv, Watched, tables
  <2> QED BY <2>2, <2>3
<1>9. ASSUME NEW t \in Threads, NEW e \in FdEvents, AddEventFull(t, e)
      PROVE  (TableInv /\ GrowInv)'
  BY Zenon, <1>8, <1>9 DEF AddEventFull, MutexFree
<1>10. ASSUME NEW t \in Threads, NEW e \in TimerEvents, NEW d \in Delays,
              AddTimer(t, e, d)
       PROVE  (TableInv /\ GrowInv)'
  BY Zenon, <1>8, <1>10 DEF AddTimer, MutexFree
<1>11. ASSUME NEW t \in Threads, Trigger(t) PROVE (TableInv /\ GrowInv)'
  BY Zenon, <1>8, <1>11 DEF Trigger
<1>12. CASE Restart
  <2>1. Watched' = {} /\ WatchedFds' = {}
    BY <1>12 DEF Restart, Watched, WatchedFds
  <2>2. SlotsAndIndexAgree'
    BY <1>12 DEF Restart, SlotsAndIndexAgree
  <2>3. ReadFdsAgree'
    BY <1>12, <2>1 DEF Restart, ReadFdsAgree
  <2>4. NfdsAgrees'
    BY <1>12, <2>1 DEF Restart, NfdsAgrees
  <2>5. GrowInv'
    BY Zenon, <1>12 DEF Restart, GrowInv
  <2> QED BY <2>2, <2>3, <2>4, <2>5 DEF TableInv
<1> QED
  <2>1. CASE LoopStep
    BY <1>1, <1>2, <1>3, <2>1 DEF LoopStep, LoopInit, LoopPipe, LoopCopy, LoopCopied,
       LoopCalcTimeout, LoopSelect, LoopSelectReturns, LoopProcessTimeouts, LoopFire,
       LoopFired, CallbackReturn, DrainWakePipe
  <2>2. CASE LoopInterrupted \/ LoopSelectFails \/ Tick \/ UNCHANGED vars
    BY <1>1, <2>2 DEF LoopInterrupted, LoopSelectFails, Tick, vars
  <2>3. CASE CallbackStep
    BY <1>1, <1>4, <1>5, <2>3 DEF CallbackStep, CallbackTimer
  <2>4. ASSUME NEW t \in Threads, ThreadStep(t) PROVE (TableInv /\ GrowInv)'
    BY <1>6, <1>7, <1>9, <1>10, <1>11, <2>4 DEF ThreadStep
  <2>5. ASSUME NEW f \in Fds, InputArrives(f) PROVE (TableInv /\ GrowInv)'
    BY <1>1, <2>5 DEF InputArrives
  <2> QED BY <1>12, <2>1, <2>2, <2>3, <2>4, <2>5 DEF Next

\* Only eventLoop's own step adds the wake event.
LEMMA SetupStep == TableIInv /\ [Next]_vars => SetupInv'
<1> SUFFICES ASSUME TableIInv, [Next]_vars, lpc' \in SettingUp
             PROVE  WakeEvent \notin Watched'
  BY Zenon DEF SetupInv
<1>1. TypeOK /\ (lpc \in SettingUp => WakeEvent \notin Watched)
  BY Zenon DEF TableIInv, SetupInv
<1>2. CASE Restart
  BY <1>2, ConstantsAssumption DEF Restart, Watched
<1>3. CASE watch_table' = watch_table /\ lpc \in SettingUp
  BY <1>1, <1>3 DEF Watched
<1>4. ASSUME NEW t \in Threads, NEW e \in FdEvents, NEW f \in Fds, AddEvent(t, e, f)
      PROVE  WakeEvent \notin Watched'
  <2>1. e # WakeEvent /\ lpc' = lpc /\ \E i \in Slots : PutInSlot(e, f, i)
    BY <1>4 DEF AddEvent
  <2>2. Watched' \subseteq Watched \cup {e}
    BY <1>1, <2>1 DEF Watched, PutInSlot, TypeOK
  <2> QED BY <1>1, <2>1, <2>2
<1>5. CASE LoopStep
  BY Zenon, <1>3, <1>5 DEF LoopStep, SettingUp, LoopInit, LoopPipe, LoopWatchWake, LoopCopy,
     LoopCopied, LoopCalcTimeout, LoopSelect, LoopSelectReturns, LoopProcessTimeouts,
     LoopProcessReadReadies, LoopFire, LoopFired, CallbackReturn, DrainWakePipe, tables
<1>6. CASE LoopInterrupted \/ LoopSelectFails \/ CallbackStep
  BY Zenon, <1>6 DEF LoopInterrupted, LoopSelectFails, CallbackStep, CallbackDel, CallbackAdd,
     CallbackTimer, InCallback, SettingUp
<1>7. ASSUME NEW t \in Threads, ThreadStep(t) PROVE WakeEvent \notin Watched'
  BY Zenon, <1>3, <1>4, <1>7 DEF ThreadStep, AddEventFull, GrowNfds, AddTimer, Trigger, tables
<1>8. CASE Tick \/ UNCHANGED vars \/ \E f \in Fds : InputArrives(f)
  BY Zenon, <1>3, <1>8 DEF Tick, InputArrives, vars, tables
<1> QED BY Zenon, <1>2, <1>5, <1>6, <1>7, <1>8 DEF Next

LEMMA TableIInvInductive ==
    /\ Init => TableIInv
    /\ TableIInv /\ [Next]_vars => TableIInv'
<1>1. Init => SetupInv
  BY ConstantsAssumption DEF Init, SetupInv, Watched
<1> QED BY <1>1, TypeInit, TypeStep, TableInit, TableStep, SetupStep DEF TableIInv

\* The watch table, the index of each event, the fd_set and nfds agree in every state.
THEOREM TablesAgree == Spec => []TableInv
<1>1. TableIInv => TableInv
  BY Zenon DEF TableIInv
<1> QED BY <1>1, TableIInvInductive, PTL DEF Spec

-----------------------------------------------------------------------------
(* The lists.                                                              *)

ListIInv == ListInv /\ FiredOnce /\ TimersInOrder

LEMMA ConcatLen ==
    ASSUME NEW S, NEW s \in Seq(S), NEW t \in Seq(S) PROVE Len(s \o t) = Len(s) + Len(t)
OBVIOUS

\* What ril_timer_add does, position by position: e is at k of the new list.
InsertedAt(k, e, due) ==
    /\ DOMAIN timer_list' = 1 .. Len(timer_list) + 1
    /\ timer_list'[k] = e
    /\ \A i \in 1 .. Len(timer_list) + 1 :
         /\ i < k => /\ timer_list'[i] = timer_list[i]
                     /\ i \in 1 .. Len(timer_list)
                     /\ timeout[timer_list[i]] < due
         /\ i > k => /\ timer_list'[i] = timer_list[i - 1]
                     /\ i - 1 \in 1 .. Len(timer_list)
    /\ k \in 1 .. Len(timer_list) => timeout[timer_list[k]] >= due
    /\ timeout'[e] = due
    /\ \A g \in TimerEvents : g # e => timeout'[g] = timeout[g]
    /\ \A i \in 1 .. Len(timer_list) : timer_list[i] # e

LEMMA InsertTimerAt ==
    ASSUME TypeOK, NEW e \in TimerEvents, NEW delay \in Delays,
           InsertTimer(e, delay), Idle(e)
    PROVE  \E k \in 1 .. Len(timer_list) + 1 : InsertedAt(k, e, now + delay)
<1> DEFINE n == Len(timer_list)
<1>1. timer_list \in Seq(TimerEvents) /\ n \in Nat /\ DOMAIN timer_list = 1 .. n
  BY DEF TypeOK
<1>2. PICK k \in 1 .. n + 1 :
        /\ \A i \in 1 .. k - 1 : timeout[timer_list[i]] < now + delay
        /\ k <= n => timeout[timer_list[k]] >= now + delay
        /\ timer_list' = [i \in 1 .. n + 1 |->
                            IF i < k THEN timer_list[i]
                            ELSE IF i = k THEN e ELSE timer_list[i - 1]]
        /\ timeout' = [timeout EXCEPT ![e] = now + delay]
  BY Zenon DEF InsertTimer
<1>3. DOMAIN timer_list' = 1 .. n + 1 /\ timer_list'[k] = e
  BY <1>1, <1>2
<1>4. \A i \in 1 .. n + 1 :
         /\ i < k => timer_list'[i] = timer_list[i] /\ i \in 1 .. n
                     /\ timeout[timer_list[i]] < now + delay
         /\ i > k => timer_list'[i] = timer_list[i - 1] /\ i - 1 \in 1 .. n
  BY <1>1, <1>2
<1>5. timeout'[e] = now + delay /\ \A g \in TimerEvents : g # e => timeout'[g] = timeout[g]
  BY Zenon, <1>2 DEF TypeOK
<1>6. \A i \in DOMAIN timer_list : timer_list[i] # e
  BY Zenon DEF Idle, ToSet
<1>7. k \in DOMAIN timer_list => timeout[timer_list[k]] >= now + delay
  BY <1>1, <1>2
<1> QED BY Zenon, <1>1, <1>3, <1>4, <1>5, <1>6, <1>7 DEF InsertedAt

\* Adding a timer keeps the lists in order.
LEMMA InsertTimerLists ==
    ASSUME TypeOK, ListIInv, NEW e \in TimerEvents, NEW delay \in Delays,
           InsertTimer(e, delay), Idle(e),
           UNCHANGED <<watch_table, pending_list, cur, lpc, now>>
    PROVE  ListIInv'
<1> USE ConstantsAssumption
<1> DEFINE n == Len(timer_list)
<1>1. /\ timer_list \in Seq(TimerEvents) /\ n \in Nat /\ DOMAIN timer_list = 1 .. n
      /\ \A i \in 1 .. n : timer_list[i] \in TimerEvents
      /\ now \in Nat /\ delay \in Nat /\ timeout \in [TimerEvents -> Nat]
  BY DEF TypeOK
<1>2. PICK k \in 1 .. n + 1 : InsertedAt(k, e, now + delay)
  BY Zenon, InsertTimerAt
<1>3. e # cur /\ e \notin ToSet(pending_list)
  BY Zenon DEF Idle
<1>4. ASSUME NEW i \in 1 .. n + 1
      PROVE  timer_list'[i] = e \/ \E j \in 1 .. n : timer_list'[i] = timer_list[j]
  <2>1. i < k \/ i = k \/ i > k
    BY <1>1
  <2> QED BY Zenon, <1>2, <2>1 DEF InsertedAt
<1>5. ListInv'
  <2>1. ASSUME NEW i \in 1 .. n + 1, NEW j \in 1 .. n + 1, timer_list'[i] = timer_list'[j]
        PROVE  i = j
    <3>1. \A x, y \in DOMAIN timer_list : timer_list[x] = timer_list[y] => x = y
      BY Zenon DEF ListIInv, ListInv
    <3>2. (i < k \/ i = k \/ i > k) /\ (j < k \/ j = k \/ j > k)
      BY <1>1
    <3>3. \A x \in 1 .. n + 1 :
             /\ x < k => timer_list'[x] = timer_list[x] /\ x \in 1 .. n
             /\ x > k => timer_list'[x] = timer_list[x - 1] /\ x - 1 \in 1 .. n
      BY Zenon, <1>2 DEF InsertedAt
    <3>4. timer_list'[k] = e /\ \A x \in 1 .. n : timer_list[x] # e
      BY Zenon, <1>2 DEF InsertedAt
    <3>5. CASE i = k \/ j = k
      BY Zenon, <2>1, <3>2, <3>3, <3>4, <3>5
    <3>6. CASE i < k /\ j < k
      BY Zenon, <1>1, <2>1, <3>1, <3>3, <3>6
    <3>7. CASE i > k /\ j > k
      <4>1. timer_list[i - 1] = timer_list[j - 1] /\ i - 1 \in 1 .. n /\ j - 1 \in 1 .. n
        BY Zenon, <2>1, <3>3, <3>7
      <4>2. i - 1 = j - 1
        BY Zenon, <1>1, <3>1, <4>1
      <4> QED BY <3>7, <4>2
    <3>8. CASE i < k /\ j > k
      <4>1. timer_list[i] = timer_list[j - 1] /\ i \in 1 .. n /\ j - 1 \in 1 .. n
        BY Zenon, <2>1, <3>3, <3>8
      <4>2. i = j - 1
        BY Zenon, <1>1, <3>1, <4>1
      <4> QED BY <3>8, <4>2
    <3>9. CASE i > k /\ j < k
      <4>1. timer_list[i - 1] = timer_list[j] /\ i - 1 \in 1 .. n /\ j \in 1 .. n
        BY Zenon, <2>1, <3>3, <3>9
      <4>2. i - 1 = j
        BY Zenon, <1>1, <3>1, <4>1
      <4> QED BY <3>9, <4>2
    <3> QED BY Zenon, <3>2, <3>5, <3>6, <3>7, <3>8, <3>9
  <2>2. \A i \in 1 .. n + 1 : timer_list'[i] # cur'
    BY Zenon, <1>1, <1>3, <1>4 DEF ListIInv, ListInv
  <2>3. DOMAIN timer_list' = 1 .. n + 1
    BY Zenon, <1>2 DEF InsertedAt
  <2> QED BY Zenon, <2>1, <2>2, <2>3 DEF ListIInv, ListInv, PendingTimer
<1>6. FiredOnce'
  <2>1. \A g \in ToSet(pending_list) : g \notin ToSet(timer_list')
    <3>1. DOMAIN timer_list' = 1 .. n + 1
      BY Zenon, <1>2 DEF InsertedAt
    <3>2. ASSUME NEW g \in ToSet(pending_list), NEW x \in 1 .. n + 1,
                 g = timer_list'[x]
          PROVE  FALSE
      <4>1. PICK y \in 1 .. n : g = timer_list[y]
        BY Zenon, <1>3, <1>4, <3>2
      <4>2. g \in ToSet(timer_list)
        BY Zenon, <1>1, <4>1 DEF ToSet
      <4> QED BY Zenon, <4>2 DEF ListIInv, FiredOnce
    <3> QED BY Zenon, <3>1, <3>2 DEF ToSet
  <2> QED BY <2>1 DEF ListIInv, FiredOnce, ToSet, Watched
<1>7. TimersInOrder'
  <2>0. /\ now + delay \in Nat /\ now <= now + delay
        /\ \A a, b \in Nat : (a < b => a <= b) /\ (a >= b => b <= a)
        /\ \A a, b, c \in Nat : a <= b /\ b <= c => a <= c
    <3>1. now \in Nat /\ delay \in Nat
      BY Zenon, <1>1
    <3> QED BY ONLY <3>1
  <2>1. \A i \in 1 .. n : timeout'[timer_list[i]] = timeout[timer_list[i]]
                          /\ timeout[timer_list[i]] \in Nat
    BY Zenon, <1>1, <1>2 DEF InsertedAt
  <2>2. \A i, j \in 1 .. n : i < j => timeout[timer_list[i]] <= timeout[timer_list[j]]
    BY Zenon, <1>1 DEF ListIInv, TimersInOrder, Before
  <2>3. ASSUME NEW i \in 1 .. n + 1, NEW j \in 1 .. n + 1, i < j
        PROVE  timeout'[timer_list'[i]] <= timeout'[timer_list'[j]]
    <3>1. CASE j < k
      BY <1>1, <1>2, <2>1, <2>2, <2>3, <3>1 DEF InsertedAt
    <3>2. CASE j = k
      <4>1. timer_list'[j] = e /\ timer_list'[i] = timer_list[i] /\ i \in 1 .. n
        BY Zenon, <1>1, <1>2, <2>3, <3>2 DEF InsertedAt
      <4>2. timeout[timer_list[i]] < now + delay /\ timeout'[e] = now + delay
        BY Zenon, <1>2, <2>3, <3>2 DEF InsertedAt
      <4>3. timeout[timer_list[i]] <= now + delay
        BY Zenon, <2>0, <2>1, <4>1, <4>2
      <4> QED BY Zenon, <2>1, <4>1, <4>2, <4>3
    <3>3. CASE j > k /\ i < k
      <4>1. /\ timer_list'[i] = timer_list[i] /\ i \in 1 .. n
            /\ timer_list'[j] = timer_list[j - 1] /\ j - 1 \in 1 .. n
        BY Zenon, <1>1, <1>2, <3>3 DEF InsertedAt
      <4>2. i < j - 1 \/ i = j - 1
        BY <3>3
      <4> QED BY <2>1, <2>2, <4>1, <4>2
    <3>4. CASE j > k /\ i = k
      <4>1. timer_list'[j] = timer_list[j - 1] /\ j - 1 \in 1 .. n
        BY Zenon, <1>2, <3>4 DEF InsertedAt
      <4>2. k \in 1 .. n /\ (k < j - 1 \/ k = j - 1)
        BY <1>1, <3>4
      <4>3. timeout[timer_list[k]] <= timeout[timer_list[j - 1]]
        BY <2>1, <2>2, <4>1, <4>2
      <4>4. timeout[timer_list[k]] >= now + delay /\ timeout'[timer_list'[i]] = now + delay
        BY Zenon, <1>2, <3>4, <4>2 DEF InsertedAt
      <4>5. timeout[timer_list[k]] \in Nat
        BY Zenon, <2>1, <4>2
      <4>6. /\ timeout[timer_list[j - 1]] \in Nat
            /\ timeout'[timer_list[j - 1]] = timeout[timer_list[j - 1]]
        BY Zenon, <2>1, <4>1
      <4>7. now + delay <= timeout[timer_list[k]]
        BY Zenon, <2>0, <4>4, <4>5
      <4>8. now + delay <= timeout[timer_list[j - 1]]
        BY ONLY <2>0, <4>3, <4>5, <4>6, <4>7
      <4> QED BY Zenon, <4>1, <4>4, <4>6, <4>8
    <3>5. CASE j > k /\ i > k
      <4>1. /\ timer_list'[i] = timer_list[i - 1] /\ i - 1 \in 1 .. n
            /\ timer_list'[j] = timer_list[j - 1] /\ j - 1 \in 1 .. n
        BY Zenon, <1>1, <1>2, <3>5 DEF InsertedAt
      <4> QED BY <2>1, <2>2, <2>3, <4>1
    <3> QED BY <3>1, <3>2, <3>3, <3>4, <3>5
  <2>4. \A i \in DOMAIN pending_list : PendingTimer(i) =>
           timeout'[pending_list[i]] = timeout[pending_list[i]]
           /\ timeout[pending_list[i]] \in Nat
    BY <1>1, <1>2, <1>3 DEF PendingTimer, ToSet, InsertedAt
  <2>5. \A i \in DOMAIN pending_list, j \in 1 .. n + 1 : PendingTimer(i) =>
           timeout'[pending_list[i]] <= timeout'[timer_list'[j]]
    <3> SUFFICES ASSUME NEW i \in DOMAIN pending_list, NEW j \in 1 .. n + 1,
                        PendingTimer(i)
                 PROVE  timeout[pending_list[i]] <= timeout'[timer_list'[j]]
      BY Zenon, <2>4
    <3>1. timeout[pending_list[i]] <= now
          /\ \A x \in 1 .. n : timeout[pending_list[i]] <= timeout[timer_list[x]]
      BY Zenon, <1>1 DEF ListIInv, TimersInOrder, Before
    <3>2. timer_list'[j] = e \/ \E x \in 1 .. n : timer_list'[j] = timer_list[x]
      BY Zenon, <1>1, <1>4
    <3>3. timeout[pending_list[i]] \in Nat
      BY Zenon, <2>4
    <3>4. CASE timer_list'[j] = e
      <4>1. timeout'[timer_list'[j]] = now + delay
        BY Zenon, <1>2, <3>4 DEF InsertedAt
      <4> QED BY Zenon, <1>1, <2>0, <3>1, <3>3, <4>1
    <3>5. CASE \E x \in 1 .. n : timer_list'[j] = timer_list[x]
      BY Zenon, <2>1, <3>1, <3>5
    <3> QED BY Zenon, <3>2, <3>4, <3>5
  <2>6. cur \in TimerEvents => timeout'[cur] <= now
    BY Zenon, <1>1, <1>2, <1>3 DEF ListIInv, TimersInOrder, InsertedAt
  <2>7. \A i, j \in DOMAIN pending_list : i < j /\ PendingTimer(i) /\ PendingTimer(j) =>
           timeout'[pending_list[i]] <= timeout'[pending_list[j]]
    BY Zenon, <2>4 DEF ListIInv, TimersInOrder, Before
  <2>8. \A i \in DOMAIN pending_list : PendingTimer(i) =>
           timeout'[pending_list[i]] <= now
    BY <2>4 DEF ListIInv, TimersInOrder
  <2>9. DOMAIN timer_list' = 1 .. n + 1
    BY Zenon, <1>2 DEF InsertedAt
  <2> QED BY Zenon, <2>3, <2>5, <2>6, <2>7, <2>8, <2>9 DEF TimersInOrder, Before, PendingTimer
<1> QED BY Zenon, <1>5, <1>6, <1>7 DEF ListIInv

\* processTimeouts splits the timer list at the first timer that is not due.
LEMMA ProcessTimeoutsLists ==
    ASSUME TypeOK, ListIInv, LoopProcessTimeouts PROVE ListIInv'
<1> USE ConstantsAssumption
<1> DEFINE n == Len(timer_list)
<1>1. /\ timer_list \in Seq(TimerEvents) /\ n \in Nat /\ DOMAIN timer_list = 1 .. n
      /\ \A i \in 1 .. n : timer_list[i] \in TimerEvents
      /\ now \in Nat /\ timeout \in [TimerEvents -> Nat]
  BY DEF TypeOK
<1>2. PICK k \in 0 .. n :
        /\ \A i \in 1 .. k : Expired(timer_list[i])
        /\ pending_list' = pending_list \o SubSeq(timer_list, 1, k)
        /\ timer_list' = SubSeq(timer_list, k + 1, n)
  BY Zenon DEF LoopProcessTimeouts
<1>3. /\ pending_list = << >> /\ cur = NULL /\ cur' = NULL /\ lpc' = "readies"
      /\ timeout' = timeout /\ now' = now /\ UNCHANGED tables
  BY Zenon DEF LoopProcessTimeouts, ListIInv, ListInv
<1>4. DOMAIN pending_list' = 1 .. k /\ \A i \in 1 .. k : pending_list'[i] = timer_list[i]
  BY <1>1, <1>2, <1>3
<1>5. /\ DOMAIN timer_list' = 1 .. n - k
      /\ \A i \in 1 .. n - k : timer_list'[i] = timer_list[i + k] /\ i + k \in 1 .. n
  BY <1>1, <1>2
<1>6. \A i \in 1 .. k : i \in 1 .. n
  BY <1>1
<1>7. \A i, j \in 1 .. n : timer_list[i] = timer_list[j] => i = j
  BY Zenon, <1>1 DEF ListIInv, ListInv
<1>8. ListInv'
  <2>1. ASSUME NEW i \in 1 .. n - k, NEW j \in 1 .. n - k, timer_list'[i] = timer_list'[j]
        PROVE  i = j
    <3>1. i + k = j + k
      BY Zenon, <1>5, <1>7, <2>1
    <3> QED BY <1>1, <3>1
  <2>2. \A i \in 1 .. n - k : timer_list'[i] # NULL
    BY <1>1, <1>5
  <2>3. \A i \in 1 .. k : pending_list'[i] \in TimerEvents
    BY <1>1, <1>4, <1>6
  <2> QED BY <1>3, <1>4, <1>5, <2>1, <2>2, <2>3 DEF ListInv, PendingTimer
<1>9. FiredOnce'
  <2>1. \A i, j \in 1 .. k : pending_list'[i] = pending_list'[j] => i = j
    BY Zenon, <1>4, <1>6, <1>7
  <2>2. \A i \in 1 .. k, j \in 1 .. n - k : pending_list'[i] # timer_list'[j]
    <3> SUFFICES ASSUME NEW i \in 1 .. k, NEW j \in 1 .. n - k,
                        timer_list[i] = timer_list[j + k]
                 PROVE  FALSE
      BY <1>4, <1>5
    <3>1. i = j + k
      BY <1>5, <1>6, <1>7
    <3> QED BY <1>1, <3>1
  <2>3. \A i \in 1 .. k : pending_list'[i] \in TimerEvents
    BY Zenon, <1>1, <1>4, <1>6
  <2>4. Watched' = Watched /\ Watched \subseteq FdEvents
    BY <1>3, WatchedType DEF tables, Watched
  <2>5. \A i \in 1 .. k : pending_list'[i] # NULL /\ pending_list'[i] \notin Watched'
    BY Zenon, <2>3, <2>4
  <2> QED BY <1>3, <1>4, <1>5, <2>1, <2>2, <2>5 DEF FiredOnce, ToSet
<1>10. TimersInOrder'
  <2>1. \A i, j \in 1 .. n : i < j => timeout[timer_list[i]] <= timeout[timer_list[j]]
    BY Zenon, <1>1 DEF ListIInv, TimersInOrder, Before
  <2>2. \A i, j \in 1 .. n - k : i < j =>
           timeout[timer_list'[i]] <= timeout[timer_list'[j]]
    <3> SUFFICES ASSUME NEW i \in 1 .. n - k, NEW j \in 1 .. n - k, i < j
                 PROVE  timeout[timer_list[i + k]] <= timeout[timer_list[j + k]]
      BY Zenon, <1>5
    <3>1. i + k < j + k
      OBVIOUS
    <3> QED BY <1>5, <2>1, <3>1
  <2>3. \A i \in 1 .. k, j \in 1 .. n - k :
           timeout[pending_list'[i]] <= timeout[timer_list'[j]]
    <3> SUFFICES ASSUME NEW i \in 1 .. k, NEW j \in 1 .. n - k
                 PROVE  timeout[timer_list[i]] <= timeout[timer_list[j + k]]
      BY <1>4, <1>5
    <3>1. i < j + k
      BY <1>1
    <3> QED BY <1>5, <1>6, <2>1, <3>1
  <2>4. \A i, j \in 1 .. k : i < j => timeout[pending_list'[i]] <= timeout[pending_list'[j]]
    BY Zenon, <1>4, <1>6, <2>1
  <2>5. \A i \in 1 .. k : timeout[pending_list'[i]] <= now
    <3> SUFFICES ASSUME NEW i \in 1 .. k PROVE timeout[timer_list[i]] <= now
      BY Zenon, <1>4
    <3>1. now > timeout[timer_list[i]] /\ timeout[timer_list[i]] \in Nat
      BY Zenon, <1>1, <1>2, <1>6 DEF Expired
    <3> QED BY <1>1, <3>1
  <2> QED BY Zenon, <1>3, <1>4, <1>5, <2>2, <2>3, <2>4, <2>5 DEF TimersInOrder, Before,
                                                           PendingTimer
<1> QED BY Zenon, <1>8, <1>9, <1>10 DEF ListIInv

\* processReadReadies appends descriptor events after the timers, each once.
LEMMA ReadReadiesLists ==
    ASSUME TableIInv, ListIInv, LoopProcessReadReadies PROVE ListIInv'
<1> USE ConstantsAssumption
<1> DEFINE p == Len(pending_list)
<1>0. TypeOK
  BY DEF TableIInv
<1>1. PICK s \in InSlotOrder(ReadySlots) :
        pending_list' = pending_list \o [i \in DOMAIN s |-> watch_table[s[i]]]
  BY Zenon DEF LoopProcessReadReadies
<1>2. PICK m \in 0 .. MaxFdEvents : s \in [1 .. m -> ReadySlots]
  BY DEF InSlotOrder
<1>3. /\ s \in [1 .. m -> ReadySlots] /\ m \in Nat
      /\ \A i, j \in 1 .. m : i < j => s[i] < s[j]
  BY <1>2 DEF InSlotOrder
<1>4. \A i \in ReadySlots : i \in Slots /\ i \in Int /\ watch_table[i] \in FdEvents
  BY <1>0 DEF ReadySlots, IsReady, TypeOK, Slots
<1>5. /\ pending_list \in Seq(Events) /\ p \in Nat /\ DOMAIN pending_list = 1 .. p
      /\ \A i \in 1 .. p : pending_list[i] \in TimerEvents
  <2>1. pending_list \in Seq(Events) /\ p \in Nat /\ DOMAIN pending_list = 1 .. p
    BY <1>0 DEF TypeOK
  <2> QED BY Zenon, <2>1 DEF ListIInv, ListInv, LoopProcessReadReadies, PendingTimer
<1> DEFINE q == [i \in 1 .. m |-> watch_table[s[i]]]
<1>6. q \in Seq(Events) /\ Len(q) = m /\ \A i \in 1 .. m : q[i] = watch_table[s[i]]
  BY <1>2, <1>3, <1>4 DEF Events
<1>7. pending_list' = pending_list \o q
  BY <1>1, <1>3
<1>8. /\ DOMAIN pending_list' = 1 .. p + m
      /\ \A i \in 1 .. p + m :
           pending_list'[i] = IF i <= p THEN pending_list[i] ELSE watch_table[s[i - p]]
  <2> HIDE DEF q
  <2>1. DOMAIN pending_list' = 1 .. p + m
    <3>1. Len(pending_list \o q) = Len(pending_list) + Len(q)
      <4>1. pending_list \in Seq(Events)
        BY <1>0 DEF TypeOK
      <4> QED BY <1>6, <4>1, ConcatLen
    <3>2. pending_list' \in Seq(Events)
      BY <1>6, <1>7, <1>0 DEF TypeOK
    <3> QED BY <1>6, <1>7, <3>1, <3>2
  <2>2. \A i \in 1 .. p + m :
           pending_list'[i] = IF i <= p THEN pending_list[i] ELSE q[i - p]
    BY <1>3, <1>5, <1>6, <1>7
  <2>3. \A i \in 1 .. p + m : i <= p \/ i - p \in 1 .. m
    BY <1>3, <1>5
  <2> QED BY <1>6, <2>1, <2>2, <2>3
<1> HIDE DEF q
<1>9. \A i \in 1 .. p + m : i <= p \/ i - p \in 1 .. m
  BY <1>3, <1>5
<1>10. ASSUME NEW i \in 1 .. p + m, i > p
       PROVE  /\ pending_list'[i] = watch_table[s[i - p]]
              /\ s[i - p] \in ReadySlots /\ pending_list'[i] \in FdEvents
  BY <1>3, <1>4, <1>5, <1>8, <1>9, <1>10
<1>11. \A i \in 1 .. p + m : i <= p => i \in 1 .. p /\ pending_list'[i] = pending_list[i]
                                       /\ pending_list'[i] \in TimerEvents
  BY <1>5, <1>8
<1>12. /\ UNCHANGED <<timers, cur, now>> /\ lpc' = "fire" /\ cur = NULL
       /\ RemoveWatch(OneShot(ReadySlots)) /\ MutexFree
  BY Zenon DEF LoopProcessReadReadies, ListIInv, ListInv
<1>13. ListInv'
  BY Zenon, <1>12 DEF ListIInv, ListInv, timers
<1>14. ASSUME NEW i \in 1 .. p + m, NEW j \in 1 .. p + m, pending_list'[i] = pending_list'[j]
       PROVE  i = j
  <2>1. CASE i <= p /\ j <= p
    BY Zenon, <1>5, <1>11, <1>14, <2>1 DEF ListIInv, FiredOnce
  <2>2. CASE i > p /\ j > p
    <3>1. watch_table[s[i - p]] = watch_table[s[j - p]]
          /\ s[i - p] \in ReadySlots /\ s[j - p] \in ReadySlots
      BY <1>10, <1>14, <2>2
    <3>2. s[i - p] = s[j - p]
      BY <1>4, <3>1 DEF TableIInv, TableInv, SlotsAndIndexAgree
    <3>3. i - p \in 1 .. m /\ j - p \in 1 .. m /\ s[i - p] \in Int
      BY <1>4, <1>5, <1>9, <2>2, <3>1
    <3>4. ~(i - p < j - p) /\ ~(j - p < i - p)
      BY <1>3, <3>2, <3>3
    <3> QED BY <1>5, <3>3, <3>4
  <2>3. CASE i <= p /\ j > p
    BY Zenon, <1>10, <1>11, <1>14, <2>3
  <2>4. CASE i > p /\ j <= p
    BY Zenon, <1>10, <1>11, <1>14, <2>4
  <2> QED BY <1>5, <2>1, <2>2, <2>3, <2>4
<1>15. FiredOnce'
  <2>1. \A i \in 1 .. p + m : pending_list'[i] # NULL
    BY <1>5, <1>10, <1>11
  <2>2. \A i \in 1 .. p + m : pending_list'[i] \notin ToSet(timer_list)
    <3>1. ASSUME NEW i \in 1 .. p + m, i <= p PROVE pending_list'[i] \notin ToSet(timer_list)
      BY <1>5, <1>11, <3>1 DEF ListIInv, FiredOnce, ToSet
    <3>2. ASSUME NEW i \in 1 .. p + m, i > p PROVE pending_list'[i] \notin ToSet(timer_list)
      BY <1>0, <1>10, <3>2 DEF TypeOK, ToSet
    <3> QED BY <1>5, <3>1, <3>2
  <2>3. Watched' = Watched \ OneShot(ReadySlots)
    <3>1. OneShot(ReadySlots) \in SUBSET FdEvents
      BY <1>4 DEF OneShot
    <3> QED BY Zenon, <1>0, <1>12, <3>1, RemoveWatchTables
            DEF LoopProcessReadReadies, MutexFree, thrs, TypeOK
  <2>4. \A i \in 1 .. p + m : pending_list'[i] \in Persistent
                               \/ pending_list'[i] \notin Watched'
    <3>1. ASSUME NEW i \in 1 .. p + m, i <= p PROVE pending_list'[i] \notin Watched'
      BY Zenon, <1>0, <1>11, <2>3, <3>1, WatchedType
    <3>2. ASSUME NEW i \in 1 .. p + m, i > p
          PROVE  pending_list'[i] \in Persistent \/ pending_list'[i] \notin Watched'
      BY <1>10, <2>3, <3>2 DEF OneShot
    <3> QED BY <1>5, <3>1, <3>2
  <2> QED BY <1>8, <1>12, <1>14, <2>1, <2>2, <2>4 DEF FiredOnce, ToSet, timers
<1>16. TimersInOrder'
  <2>1. \A i \in 1 .. p + m : pending_list'[i] \in TimerEvents =>
            i \in 1 .. p /\ pending_list'[i] = pending_list[i]
    BY <1>5, <1>10, <1>11
  <2> QED BY <1>5, <1>8, <1>12, <2>1 DEF ListIInv, TimersInOrder, PendingTimer, Before,
                                          timers
<1> QED BY <1>13, <1>15, <1>16 DEF ListIInv

\* firePending takes the first pending event, which is in no list any more.
LEMMA FireLists == ASSUME TypeOK, ListIInv, LoopFire PROVE ListIInv'
<1> USE ConstantsAssumption
<1> DEFINE p == Len(pending_list)
<1>1. pending_list \in Seq(Events) /\ p \in Nat /\ p > 0 /\ DOMAIN pending_list = 1 .. p
  BY DEF TypeOK, LoopFire
<1>2. /\ cur' = pending_list[1] /\ lpc' = "callback" /\ UNCHANGED <<tables, timers, now>>
      /\ pending_list' = Tail(pending_list)
  BY <1>1 DEF LoopFire
<1>3. /\ DOMAIN pending_list' = 1 .. p - 1
      /\ \A i \in 1 .. p - 1 : pending_list'[i] = pending_list[i + 1] /\ i + 1 \in 1 .. p
  BY <1>1, <1>2
<1>4. \A i, j \in 1 .. p : pending_list[i] = pending_list[j] => i = j
  BY Zenon, <1>1 DEF ListIInv, FiredOnce
<1>5. \A i \in 1 .. p : pending_list[i] \notin ToSet(timer_list)
                         /\ (pending_list[i] \in Persistent \/ pending_list[i] \notin Watched)
  BY <1>1 DEF ListIInv, FiredOnce, ToSet
<1>6. ListInv'
  <2>1. \A i \in DOMAIN timer_list : timer_list[i] # pending_list[1]
    BY <1>1, <1>5 DEF ToSet
  <2> QED BY <1>2, <2>1 DEF ListIInv, ListInv, timers
<1>7. FiredOnce'
  <2>1. ASSUME NEW i \in 1 .. p - 1, NEW j \in 1 .. p - 1, pending_list'[i] = pending_list'[j]
        PROVE  i = j
    <3>1. i + 1 = j + 1
      BY <1>3, <1>4, <2>1
    <3> QED BY <1>1, <3>1
  <2>2. ASSUME NEW i \in 1 .. p - 1, pending_list'[i] = pending_list[1] PROVE FALSE
    <3>1. i + 1 = 1
      BY <1>1, <1>3, <1>4, <2>2
    <3> QED BY <1>1, <3>1
  <2>3. \A i \in 1 .. p - 1 : pending_list'[i] \notin ToSet(timer_list)
          /\ (pending_list'[i] \in Persistent \/ pending_list'[i] \notin Watched)
    BY Zenon, <1>3, <1>5
  <2>4. Watched' = Watched
    BY Zenon, <1>2 DEF Watched, tables
  <2>5. ToSet(pending_list') = {pending_list'[i] : i \in 1 .. p - 1} /\ timer_list' = timer_list
    BY Zenon, <1>2, <1>3 DEF ToSet, timers
  <2>6. \A e \in ToSet(pending_list') : /\ e # cur' /\ e \notin ToSet(timer_list)
                                        /\ e \in Persistent \/ e \notin Watched
    BY <1>2, <2>2, <2>3, <2>5
  <2>7. \A i, j \in DOMAIN pending_list' : pending_list'[i] = pending_list'[j] => i = j
    BY <1>3, <2>1
  <2> QED BY <2>4, <2>5, <2>6, <2>7 DEF FiredOnce, ToSet
<1>8. TimersInOrder'
  <2>1. \A i \in 1 .. p : pending_list[i] \in TimerEvents =>
          /\ timeout[pending_list[i]] <= now
          /\ \A j \in DOMAIN timer_list : timeout[pending_list[i]] <= timeout[timer_list[j]]
          /\ \A j \in 1 .. p : i < j /\ pending_list[j] \in TimerEvents =>
                timeout[pending_list[i]] <= timeout[pending_list[j]]
    BY <1>1 DEF ListIInv, TimersInOrder, Before, PendingTimer
  <2>2. \A i, j \in 1 .. p - 1 :
          i < j /\ pending_list'[i] \in TimerEvents /\ pending_list'[j] \in TimerEvents =>
             timeout[pending_list'[i]] <= timeout[pending_list'[j]]
    <3> SUFFICES ASSUME NEW i \in 1 .. p - 1, NEW j \in 1 .. p - 1, i < j,
                        pending_list[i + 1] \in TimerEvents,
                        pending_list[j + 1] \in TimerEvents
                 PROVE  timeout[pending_list[i + 1]] <= timeout[pending_list[j + 1]]
      BY <1>3
    <3>1. i + 1 < j + 1
      BY <1>1
    <3> QED BY <1>3, <2>1, <3>1
  <2>3. \A i \in 1 .. p - 1 : pending_list'[i] \in TimerEvents =>
          /\ timeout[pending_list'[i]] <= now
          /\ \A j \in DOMAIN timer_list : timeout[pending_list'[i]] <= timeout[timer_list[j]]
    BY Zenon, <1>3, <2>1
  <2>4. pending_list[1] \in TimerEvents => timeout[pending_list[1]] <= now
    BY <1>1, <2>1
  <2>5. \A i, j \in DOMAIN timer_list : i < j => timeout[timer_list[i]] <= timeout[timer_list[j]]
    BY Zenon DEF ListIInv, TimersInOrder, Before
  <2>6. timer_list' = timer_list /\ timeout' = timeout /\ now' = now
    BY <1>2 DEF timers
  <2> HIDE DEF p
  <2> QED BY Zenon, <1>2, <1>3, <2>2, <2>3, <2>4, <2>5, <2>6 DEF TimersInOrder, Before,
             PendingTimer
<1> QED BY Zenon, <1>6, <1>7, <1>8 DEF ListIInv

\* The end of a timer's function frees a timer that is in no list.
LEMMA CallbackReturnLists == ASSUME TypeOK, ListIInv, CallbackReturn PROVE ListIInv'
<1> USE ConstantsAssumption
<1>1. /\ timeout' = [e \in TimerEvents |-> IF e = cur THEN 0 ELSE timeout[e]]
      /\ cur' = NULL /\ lpc' = "fire" /\ UNCHANGED <<tables, timer_list, pending_list, now>>
  BY DEF CallbackReturn
<1>2. \A i \in DOMAIN timer_list : /\ timer_list[i] \in TimerEvents /\ timer_list[i] # NULL
                                   /\ timeout'[timer_list[i]] = timeout[timer_list[i]]
  <2>1. \A i \in DOMAIN timer_list : timer_list[i] \in TimerEvents /\ timer_list[i] # cur
    BY DEF ListIInv, ListInv, TypeOK
  <2> QED BY Zenon, <1>1, <2>1
<1>3. \A i \in DOMAIN pending_list :
         /\ pending_list[i] # NULL
         /\ PendingTimer(i) => timeout'[pending_list[i]] = timeout[pending_list[i]]
  <2>1. \A i \in DOMAIN pending_list : pending_list[i] # cur /\ pending_list[i] \in Events
    <3>1. \A i \in DOMAIN pending_list : pending_list[i] # cur
      BY DEF ListIInv, FiredOnce, ToSet
    <3>2. \A i \in DOMAIN pending_list : pending_list[i] \in Events
      BY DEF TypeOK
    <3> QED BY <3>1, <3>2
  <2> QED BY Zenon, <1>1, <2>1 DEF PendingTimer, Events
<1>4. ListInv'
  BY Zenon, <1>1, <1>2 DEF ListIInv, ListInv
<1>5. FiredOnce'
  <2>1. /\ Watched' = Watched /\ timer_list' = timer_list
        /\ pending_list' = pending_list /\ cur' = NULL
    BY Zenon, <1>1 DEF tables, Watched
  <2>2. \A i \in DOMAIN pending_list : pending_list[i] # NULL
    BY Zenon, <1>3
  <2> QED BY Zenon, <2>1, <2>2 DEF ListIInv, FiredOnce, ToSet
<1>6. TimersInOrder'
  <2>1. \A i, j \in DOMAIN timer_list :
           i < j => timeout'[timer_list[i]] <= timeout'[timer_list[j]]
    BY Zenon, <1>2 DEF ListIInv, TimersInOrder, Before
  <2>2. \A i \in DOMAIN pending_list : PendingTimer(i) =>
           /\ timeout'[pending_list[i]] <= now
           /\ \A j \in DOMAIN timer_list :
                 timeout'[pending_list[i]] <= timeout'[timer_list[j]]
    BY Zenon, <1>2, <1>3 DEF ListIInv, TimersInOrder, Before
  <2>3. \A i, j \in DOMAIN pending_list :
           PendingTimer(i) /\ PendingTimer(j) /\ i < j =>
             timeout'[pending_list[i]] <= timeout'[pending_list[j]]
    BY Zenon, <1>3 DEF ListIInv, TimersInOrder, Before
  <2>4. cur' \notin TimerEvents
    BY Zenon, <1>1, ConstantsAssumption
  <2> QED BY Zenon, <1>1, <2>1, <2>2, <2>3, <2>4 DEF TimersInOrder, Before, PendingTimer
<1> QED BY Zenon, <1>4, <1>5, <1>6 DEF ListIInv

\* A step that leaves the lists and the running function alone, moves the loop only
\* between rounds or out of the callbacks, and watches no waiting one-shot event.
LEMMA ListFrame ==
    ASSUME TypeOK, ListIInv, UNCHANGED <<timers, pending_list, cur>>, now' \in Nat,
           now' >= now, Watched' \subseteq Watched \/ 
           \E e \in FdEvents : Watched' \subseteq Watched \cup {e}
                               /\ (e \in Persistent \/ e \notin ToSet(pending_list)),
           \/ lpc' = lpc
           \/ lpc' \notin {"readies", "callback"} /\ pending_list = << >> /\ cur = NULL
    PROVE  ListIInv'
<1>1. ListInv'
  BY DEF ListIInv, ListInv, PendingTimer, timers
<1>2. FiredOnce'
  BY DEF ListIInv, FiredOnce, ToSet, timers
<1>3. TimersInOrder'
  <2>1. \A e \in TimerEvents : timeout[e] <= now => timeout[e] <= now'
    <3>1. now \in Nat /\ \A e \in TimerEvents : timeout[e] \in Nat
      BY DEF TypeOK
    <3> QED BY <3>1
  <2> QED BY <2>1 DEF ListIInv, TimersInOrder, Before, PendingTimer, timers
<1> QED BY <1>1, <1>2, <1>3 DEF ListIInv

LEMMA ListStep == TableIInv /\ ListIInv /\ [Next]_vars => ListIInv'
<1> SUFFICES ASSUME TableIInv, ListIInv, [Next]_vars PROVE ListIInv'
  OBVIOUS
<1>0. TypeOK /\ now \in Nat /\ now' \in Nat /\ now' >= now
  <2>1. TypeOK /\ now \in Nat
    BY Zenon DEF TableIInv, TypeOK
  <2>2. now' = now \/ now' = now + 1
    BY Zenon DEF Next, LoopStep, LoopInit, LoopPipe, LoopWatchWake, LoopCopy, LoopCopied,
       LoopCalcTimeout, LoopSelect, LoopSelectReturns, LoopProcessTimeouts,
       LoopProcessReadReadies, LoopFire, LoopFired, CallbackReturn, DrainWakePipe,
       LoopInterrupted, LoopSelectFails, CallbackStep, CallbackDel, CallbackAdd,
       CallbackTimer, ThreadStep, AddEvent, AddEventFull, GrowNfds, AddTimer, Trigger,
       Tick, InputArrives, Restart, vars
  <2> QED BY <2>1, <2>2
<1> USE ConstantsAssumption
<1>1. CASE UNCHANGED <<timers, pending_list, cur, watch_table, lpc>>
  BY Zenon, <1>0, <1>1, ListFrame DEF Watched
<1>2. CASE /\ UNCHANGED <<timers, pending_list, cur, watch_table>>
           /\ lpc \notin {"readies", "fire", "callback"}
           /\ lpc' \notin {"readies", "callback"}
  BY Zenon, <1>0, <1>2, ListFrame DEF Watched, ListIInv, ListInv
<1>3. CASE LoopFired
  BY Zenon, <1>0, <1>3, ListFrame DEF LoopFired, Watched, tables, ListIInv, ListInv
<1>4. CASE LoopWatchWake
  <2>1. Watched' \subseteq Watched \cup {WakeEvent}
    BY <1>0, <1>4 DEF LoopWatchWake, PutInSlot, Watched, TypeOK, tables
  <2> QED BY Zenon, <1>0, <1>4, <2>1, ListFrame DEF LoopWatchWake, ListIInv, ListInv
<1>5. CASE DrainWakePipe
  <2>1. ListInv'
    BY <1>0, <1>5 DEF DrainWakePipe, ListIInv, ListInv, timers, TypeOK
  <2>2. \A i \in DOMAIN pending_list : pending_list[i] # NULL
    <3>1. pending_list \in Seq(Events) /\ NULL \notin Events
      BY Zenon, <1>0 DEF TypeOK, Events
    <3> QED BY ONLY <3>1
  <2>3. FiredOnce'
    <3>1. /\ UNCHANGED <<timers, pending_list, watch_table>> /\ cur' = NULL
      BY Zenon, <1>5 DEF DrainWakePipe, tables
    <3>2. timer_list' = timer_list /\ Watched' = Watched
      BY Zenon, <3>1 DEF timers, Watched
    <3> QED BY Zenon, <2>2, <3>1, <3>2 DEF ListIInv, FiredOnce, ToSet
  <2>4. TimersInOrder'
    BY <1>5 DEF DrainWakePipe, ListIInv, TimersInOrder, Before, PendingTimer, timers
  <2> QED BY Zenon, <2>1, <2>3, <2>4 DEF ListIInv
<1>6. CASE CallbackDel
  <2>1. Watched' \subseteq Watched
    BY <1>0, <1>6 DEF CallbackDel, RemoveWatch, Watched, TypeOK
  <2> QED BY Zenon, <1>0, <1>6, <2>1, ListFrame DEF CallbackDel
<1>7. ASSUME NEW e \in FdEvents, NEW f \in Fds, CallbackAdd(e, f) PROVE ListIInv'
  <2>1. Watched' \subseteq Watched \cup {e}
    BY <1>0, <1>7 DEF CallbackAdd, PutInSlot, Watched, TypeOK, tables
  <2> QED BY Zenon, <1>0, <1>7, <2>1, ListFrame DEF CallbackAdd
<1>8. ASSUME NEW e \in TimerEvents, NEW d \in Delays, CallbackTimer(e, d)
      PROVE  ListIInv'
  BY <1>0, <1>8, InsertTimerLists DEF CallbackTimer, tables
<1>9. ASSUME NEW t \in Threads, NEW e \in FdEvents, NEW f \in Fds, AddEvent(t, e, f)
      PROVE  ListIInv'
  <2>1. Watched' \subseteq Watched \cup {e}
    BY <1>0, <1>9 DEF AddEvent, PutInSlot, Watched, TypeOK
  <2> QED BY Zenon, <1>0, <1>9, <2>1, ListFrame DEF AddEvent, Idle
<1>10. ASSUME NEW t \in Threads, NEW e \in TimerEvents, NEW d \in Delays,
              AddTimer(t, e, d)
       PROVE  ListIInv'
  BY <1>0, <1>10, InsertTimerLists DEF AddTimer, tables
<1>11. CASE Restart
  <2>1. ListInv'
    BY <1>11 DEF Restart, ListInv
  <2>2. FiredOnce'
    BY <1>11 DEF Restart, FiredOnce, ToSet
  <2>3. TimersInOrder'
    BY <1>11 DEF Restart, TimersInOrder
  <2> QED BY Zenon, <2>1, <2>2, <2>3 DEF ListIInv
<1> QED
  <2>1. CASE LoopStep
    <3>1. CASE LoopInit \/ LoopPipe \/ LoopCopy \/ LoopCopied \/ LoopCalcTimeout
               \/ LoopSelect \/ LoopSelectReturns
      BY <1>2, <3>1 DEF LoopInit, LoopPipe, LoopCopy, LoopCopied, LoopCalcTimeout,
         LoopSelect, LoopSelectReturns, tables
    <3> QED BY Zenon, <1>0, <1>3, <1>4, <1>5, <2>1, <3>1, ProcessTimeoutsLists,
               ReadReadiesLists,
               FireLists, CallbackReturnLists DEF LoopStep
  <2>2. CASE LoopInterrupted \/ LoopSelectFails
    BY Zenon, <1>2, <2>2 DEF LoopInterrupted, LoopSelectFails, tables
  <2>3. CASE Tick \/ UNCHANGED vars \/ \E f \in Fds : InputArrives(f)
    BY <1>1, <2>3 DEF Tick, InputArrives, vars, tables
  <2>4. CASE CallbackStep
    BY Zenon, <1>6, <1>7, <1>8, <2>4 DEF CallbackStep
  <2>5. ASSUME NEW t \in Threads, ThreadStep(t) PROVE ListIInv'
    BY Zenon, <1>1, <1>9, <1>10, <2>5 DEF ThreadStep, AddEventFull, GrowNfds, Trigger, tables
  <2> QED BY <1>11, <2>1, <2>2, <2>3, <2>4, <2>5 DEF Next

LEMMA ListInit == Init => ListIInv
<1> SUFFICES ASSUME Init PROVE ListIInv
  OBVIOUS
<1>1. ListInv
  BY DEF Init, ListInv
<1>2. FiredOnce
  BY DEF Init, FiredOnce, ToSet
<1>3. TimersInOrder
  BY ConstantsAssumption DEF Init, TimersInOrder
<1> QED BY Zenon, <1>1, <1>2, <1>3 DEF ListIInv

\* Every reachable state satisfies the invariants of the table and of the lists.
LEMMA ListsAlways == Spec => [](TableIInv /\ ListIInv)
<1>1. Init => TableIInv /\ ListIInv
  BY ListInit, TableIInvInductive
<1>2. (TableIInv /\ ListIInv) /\ [Next]_vars => (TableIInv /\ ListIInv)'
  BY ListStep, TableIInvInductive
<1> QED BY <1>1, <1>2, PTL DEF Spec

\* Timers run in the order of their timeouts and never early (ril_timer_add,
\* processTimeouts, firePending).
THEOREM TimersRunInOrder == Spec => []TimersInOrder
<1>1. TableIInv /\ ListIInv => TimersInOrder
  BY Zenon DEF ListIInv
<1> QED BY <1>1, ListsAlways, PTL

\* firePending runs an event once for each time it was added or found ready: it is in the
\* pending list once and in no other list, and a one-shot event that waits to run is
\* watched no more.
THEOREM EventsFiredOnce == Spec => []FiredOnce
<1>1. TableIInv /\ ListIInv => FiredOnce
  BY Zenon DEF ListIInv
<1> QED BY <1>1, ListsAlways, PTL

-----------------------------------------------------------------------------
(* No wake-up is lost.                                                     *)

BeforeSelect == {"copying", "timeout", "select", "blocked"}

\* Outside the steps from the copy of readFds to the return of select there is
\* nothing to show.
LEMMA WakeElsewhere == ASSUME lpc' \notin BeforeSelect PROVE WakeInv'
BY Zenon DEF WakeInv, BeforeSelect

\* A step during select that leaves a wake-up coming, or changes nothing select
\* depends on, keeps the invariant.
LEMMA WakeFrame ==
    ASSUME WakeInv, lpc' = lpc, UNCHANGED <<rfds, selNfds, tv, tvNow>>,
           WakeEvent \in Watched' => WakeEvent \in Watched /\ fd'[WakeEvent] = fd[WakeEvent],
           Waking' \/ /\ ~Waking
                      /\ Watched' \subseteq Watched /\ \A e \in Watched' : fd'[e] = fd[e]
                      /\ UNCHANGED timers
    PROVE  WakeInv'
<1>1. CASE Waking'
  BY Zenon, <1>1 DEF WakeInv
<1>2. CASE ~Waking'
  BY <1>2 DEF WakeInv, InTime, timers
<1> QED BY Zenon, <1>1, <1>2

LEMMA WakeStep == TableIInv /\ ListIInv /\ WakeInv /\ [Next]_vars => WakeInv'
<1> SUFFICES ASSUME TableIInv, ListIInv, WakeInv, [Next]_vars PROVE WakeInv'
  OBVIOUS
<1> USE ConstantsAssumption
<1>0. TypeOK /\ Watched \subseteq FdEvents
  BY Zenon, WatchedType DEF TableIInv
<1>1. CASE LoopCopy
  <2>1. \A e \in Watched' : fd'[e] \in rfds'
    BY <1>1 DEF LoopCopy, tables, TableIInv, TableInv, ReadFdsAgree, WatchedFds, Watched
  <2> QED BY Zenon, <1>1, <2>1 DEF LoopCopy, WakeInv
<1>2. CASE LoopCopied
  <2>1. /\ lpc = "copying" /\ lpc' = "timeout" /\ rfds \subseteq rfds'
        /\ Watched' = Watched /\ fd' = fd /\ (Waking' <=> Waking)
    BY <1>2 DEF LoopCopied, tables, thrs, Watched, Waking
  <2> QED BY <2>1 DEF WakeInv
<1>3. CASE LoopCalcTimeout
  <2>1. /\ lpc = "timeout" /\ lpc' = "select" /\ rfds = rfds' /\ tvNow' = now
        /\ Watched' = Watched /\ fd' = fd /\ (Waking' <=> Waking) /\ tv' = NextTimeout
        /\ timer_list' = timer_list /\ timeout' = timeout
    BY <1>3 DEF LoopCalcTimeout, tables, timers, thrs, Watched, Waking
  <2>2. ASSUME NEW i \in DOMAIN timer_list PROVE InTime(timer_list[i])'
    <3>1. /\ timer_list # << >> /\ Head(timer_list) = timer_list[1] /\ 1 \in DOMAIN timer_list
          /\ i \in Int /\ (i = 1 \/ 1 < i)
      BY <1>0 DEF TypeOK
    <3>2. timeout[timer_list[1]] \in Nat /\ timeout[timer_list[i]] \in Nat /\ now \in Nat
      BY <1>0, <3>1 DEF TypeOK
    <3>3. timeout[timer_list[1]] <= timeout[timer_list[i]]
      BY <3>1, <3>2 DEF ListIInv, TimersInOrder, Before
    <3>4. tv' = IF timeout[timer_list[1]] > now THEN timeout[timer_list[1]] - now ELSE 0
      BY <2>1, <3>1 DEF NextTimeout
    <3> QED BY <2>1, <3>2, <3>3, <3>4 DEF InTime, Forever
  <2> QED BY <2>1, <2>2 DEF WakeInv
<1>4. CASE LoopSelect
  <2>1. /\ lpc = "select" /\ lpc' = "blocked" /\ UNCHANGED <<rfds, tv, tvNow, timers>>
        /\ Watched' = Watched /\ fd' = fd /\ (Waking' <=> Waking) /\ selNfds' = nfds
    BY <1>4 DEF LoopSelect, tables, timers, thrs, Watched, Waking
  <2>2. ASSUME NEW e \in Watched PROVE Growing(e) \/ fd[e] < nfds
    BY DEF TableIInv, TableInv, NfdsAgrees
  <2>3. (\E e \in Watched : Growing(e)) => Waking
    BY DEF Growing, Waking
  <2>4. ~Growing(WakeEvent)
    BY DEF TableIInv, GrowInv, Growing
  <2>5. /\ WakeEvent \in Watched' => fd'[WakeEvent] < selNfds'
        /\ Waking' \/ \A e \in Watched' : fd'[e] < selNfds'
    BY <2>1, <2>2, <2>3, <2>4
  <2>6. (Waking \/ \A i \in DOMAIN timer_list : InTime(timer_list[i]))'
    BY <2>1 DEF WakeInv, InTime, timers
  <2>7. /\ WakeEvent \in Watched' => fd'[WakeEvent] \in rfds'
        /\ Waking' \/ \A e \in Watched' : fd'[e] \in rfds'
    BY Zenon, <2>1 DEF WakeInv
  <2> QED BY Zenon, <2>1, <2>5, <2>6, <2>7 DEF WakeInv
<1>5. CASE LoopStep
  BY Zenon, <1>1, <1>2, <1>3, <1>4, <1>5, WakeElsewhere DEF LoopStep, LoopInit, LoopPipe,
     LoopWatchWake, LoopSelectReturns, LoopProcessTimeouts, LoopProcessReadReadies,
     LoopFire, LoopFired, CallbackReturn, DrainWakePipe, BeforeSelect
<1>6. CASE LoopInterrupted \/ LoopSelectFails \/ CallbackStep \/ Restart
  BY <1>6, WakeElsewhere DEF LoopInterrupted, LoopSelectFails, CallbackStep, CallbackDel,
     CallbackAdd, CallbackTimer, InCallback, Restart, BeforeSelect
<1>7. CASE Tick \/ UNCHANGED vars \/ \E f \in Fds : InputArrives(f)
  <2>1. lpc' = lpc /\ UNCHANGED <<rfds, selNfds, tv, tvNow, timers, watch_table, fd,
                                  wakeByte, tpc>>
    BY Zenon, <1>7 DEF Tick, InputArrives, vars, tables, loopSel, thrs
  <2>2. Watched' = Watched /\ (Waking' <=> Waking)
    BY Zenon, <2>1 DEF Watched, Waking
  <2> QED BY <2>1, <2>2, WakeFrame
<1>8. ASSUME NEW t \in Threads, NEW e \in FdEvents, NEW f \in Fds, AddEvent(t, e, f)
      PROVE  WakeInv'
  <2>1. /\ lpc' = lpc /\ UNCHANGED <<rfds, selNfds, tv, tvNow>>
        /\ tpc' = [tpc EXCEPT ![t] = "grow"] /\ e # WakeEvent
        /\ \E i \in Slots : PutInSlot(e, f, i)
    BY <1>8 DEF AddEvent, loopSel
  <2>2. Waking'
    BY <1>0, <2>1 DEF Waking, TypeOK
  <2>3. Watched' \subseteq Watched \cup {e} /\ fd' = [fd EXCEPT ![e] = f]
    BY <1>0, <2>1 DEF Watched, PutInSlot, TypeOK
  <2>4. fd'[WakeEvent] = fd[WakeEvent]
    <3>1. fd \in [FdEvents -> Fds \cup {-1}] /\ WakeEvent \in FdEvents
      BY Zenon, <1>0, ConstantsAssumption DEF TypeOK
    <3> QED BY Zenon, <2>1, <2>3, <3>1
  <2> QED BY <2>1, <2>2, <2>3, <2>4, WakeFrame
<1>9. ASSUME NEW t \in Threads, lpc' = lpc, UNCHANGED <<loopSel, watch_table, fd>>, Waking'
      PROVE  WakeInv'
  BY Zenon, <1>9, WakeFrame DEF Watched, loopSel
<1>10. ASSUME NEW t \in Threads, ThreadStep(t) PROVE WakeInv'
  <2>1. ASSUME NEW e \in FdEvents, AddEventFull(t, e) PROVE WakeInv'
    BY <1>0, <1>9, <2>1 DEF AddEventFull, Waking, TypeOK, tables
  <2>2. CASE GrowNfds(t)
    BY <1>0, <1>9, <2>2 DEF GrowNfds, Waking, TypeOK
  <2>3. ASSUME NEW e \in TimerEvents, NEW d \in Delays, AddTimer(t, e, d) PROVE WakeInv'
    BY <1>0, <1>9, <2>3 DEF AddTimer, Waking, TypeOK, tables
  <2>4. CASE Trigger(t)
    <3>1. CASE lpc = "pipe"
      BY <2>4, <3>1, WakeElsewhere DEF Trigger, BeforeSelect
    <3>2. CASE lpc # "pipe"
      BY Zenon, <1>9, <2>4, <3>2 DEF Trigger, Waking, tables
    <3> QED BY <3>1, <3>2
  <2> QED BY <1>8, <1>10, <2>1, <2>2, <2>3, <2>4 DEF ThreadStep
<1> QED BY <1>5, <1>6, <1>7, <1>10 DEF Next

\* No wake-up is lost: the loop never blocks in select on a stale copy of the watched
\* descriptors, of nfds or of the next timeout without a byte in the wake pipe or a
\* thread about to write one.
THEOREM WakeupNeverLost == Spec => []NoLostWakeup
<1> DEFINE IInv == TableIInv /\ ListIInv /\ WakeInv
<1>1. Init => IInv
  BY ListInit, TableIInvInductive DEF Init, WakeInv
<1>2. IInv /\ [Next]_vars => IInv'
  BY ListStep, WakeStep, TableIInvInductive
<1>3. IInv => NoLostWakeup
  BY DEF WakeInv, NoLostWakeup, Covered, ToSet
<1> QED BY <1>1, <1>2, <1>3, PTL DEF Spec
=============================================================================
