------------------------- MODULE RilEventRoomProofs -------------------------
(***************************************************************************)
(* The watch table of RilEvent has room: a proof by counting, from the     *)
(* table invariant of RilEventProofs.                                      *)
(***************************************************************************)
EXTENDS RilEventProofs, FiniteSetTheorems

USE SMTT(20), ZenonT(20)

\* Distinct slots hold distinct events, so a full table watches MAX_FD_EVENTS events.
LEMMA RoomForUnwatched ==
    ASSUME TableIInv, EventsFit, NEW e \in FdEvents, e \notin Watched PROVE ~TableFull
<1> SUFFICES ASSUME TableFull PROVE FALSE
  OBVIOUS
<1> USE ConstantsAssumption
<1>1. TypeOK /\ Watched \subseteq FdEvents \ {e}
  BY WatchedType DEF TableIInv
<1>2. watch_table \in [Slots -> Watched]
  BY <1>1 DEF TypeOK, TableFull, Watched
<1>3. \A i, j \in Slots : watch_table[i] = watch_table[j] => i = j
  BY Zenon, <1>2 DEF TableIInv, TableInv, SlotsAndIndexAgree, TableFull
<1>4. IsFiniteSet(FdEvents \ {e}) /\ Cardinality(FdEvents \ {e}) = Cardinality(FdEvents) - 1
  BY Zenon, FS_RemoveElement
<1>5. /\ Cardinality(FdEvents) \in Nat
      /\ IsFiniteSet(Watched) /\ Cardinality(Watched) <= Cardinality(FdEvents \ {e})
      /\ Cardinality(Watched) \in Nat
  BY Zenon, <1>1, <1>4, FS_Subset, FS_CardinalityType
<1>6. IsFiniteSet(Slots) /\ Cardinality(Slots) = MaxFdEvents
  BY FS_Interval DEF Slots
<1>7. Cardinality(Watched) < Cardinality(Slots)
  BY <1>4, <1>5, <1>6 DEF EventsFit
<1>8. \E i, j \in Slots : i # j /\ watch_table[i] = watch_table[j]
  BY <1>2, <1>5, <1>6, <1>7, FS_PigeonHole
<1> QED BY Zenon, <1>3, <1>8

WakeStaysWatched == EventsFit /\ lpc \notin SettingUp => WakeEvent \in Watched

LEMMA WakeStaysWatchedStep ==
    TableIInv /\ WakeStaysWatched /\ [Next]_vars => WakeStaysWatched'
<1> SUFFICES ASSUME TableIInv, WakeStaysWatched, [Next]_vars, EventsFit,
                    lpc' \notin SettingUp
             PROVE  WakeEvent \in Watched'
  BY DEF WakeStaysWatched, EventsFit
<1> USE ConstantsAssumption
<1>0. TypeOK /\ WakeEvent # NULL
  BY DEF TableIInv
<1>1. ASSUME NEW e, NEW f, NEW i \in Slots, PutInSlot(e, f, i)
      PROVE  Watched \subseteq Watched' /\ (e # NULL => e \in Watched')
  <2>1. /\ watch_table' = [watch_table EXCEPT ![i] = e] /\ watch_table[i] = NULL
    BY <1>1 DEF PutInSlot, FirstFree
  <2>2. \A j \in Slots : watch_table[j] # NULL => watch_table'[j] = watch_table[j]
    BY <1>0, <2>1 DEF TypeOK
  <2>3. watch_table'[i] = e
    BY <1>0, <2>1 DEF TypeOK
  <2> QED BY <2>2, <2>3 DEF Watched
<1>2. CASE watch_table' = watch_table /\ lpc \notin SettingUp
  BY <1>2 DEF WakeStaysWatched, Watched
<1>3. CASE LoopWatchWake
  <2>1. ~TableFull
    BY <1>3, RoomForUnwatched DEF LoopWatchWake, TableIInv, SetupInv, SettingUp
  <2>2. \E i \in Slots, f \in Fds : PutInSlot(WakeEvent, f, i)
    BY <1>3, <2>1 DEF LoopWatchWake
  <2> QED BY <1>0, <1>1, <2>2
<1>4. ASSUME NEW S, RemoveWatch(S), WakeEvent \notin S, lpc \notin SettingUp
      PROVE  WakeEvent \in Watched'
  <2>1. PICK i \in Slots : watch_table[i] = WakeEvent
    BY Zenon, <1>4 DEF WakeStaysWatched, Watched
  <2>2. watch_table'[i] = WakeEvent
    BY <1>4, <2>1 DEF RemoveWatch
  <2> QED BY <1>0, <2>2 DEF Watched
<1>5. CASE LoopProcessReadReadies
  BY <1>4, <1>5 DEF LoopProcessReadReadies, OneShot, SettingUp
<1>6. CASE CallbackDel
  <2>1. CASE index[cur] \in Slots
    BY <1>4, <1>6, <2>1 DEF CallbackDel, InCallback, SettingUp
  <2>2. CASE index[cur] \notin Slots
    BY <1>2, <1>6, <2>2 DEF CallbackDel, InCallback, SettingUp
  <2> QED BY <2>1, <2>2
<1>7. ASSUME NEW e \in FdEvents, NEW f \in Fds, CallbackAdd(e, f)
      PROVE  WakeEvent \in Watched'
  <2>1. CASE UNCHANGED tables
    BY <1>2, <1>7, <2>1 DEF CallbackAdd, InCallback, SettingUp, tables
  <2>2. CASE \E i \in Slots : PutInSlot(e, f, i)
    BY <1>1, <1>7, <2>2 DEF CallbackAdd, InCallback, SettingUp, WakeStaysWatched
  <2> QED BY <1>7, <2>1, <2>2 DEF CallbackAdd
<1>8. ASSUME NEW t \in Threads, NEW e \in FdEvents, NEW f \in Fds, AddEvent(t, e, f)
      PROVE  WakeEvent \in Watched'
  BY <1>1, <1>8 DEF AddEvent, WakeStaysWatched
<1>9. CASE LoopStep
  BY <1>2, <1>3, <1>5, <1>9 DEF LoopStep, LoopInit, LoopPipe, LoopCopy, LoopCopied,
     LoopCalcTimeout, LoopSelect, LoopSelectReturns, LoopProcessTimeouts, LoopFire,
     LoopFired, CallbackReturn, DrainWakePipe, SettingUp, tables
<1>10. CASE LoopInterrupted \/ LoopSelectFails
  BY <1>2, <1>10 DEF LoopInterrupted, LoopSelectFails, SettingUp, tables
<1>11. CASE CallbackStep
  BY <1>2, <1>6, <1>7, <1>11 DEF CallbackStep, CallbackTimer, InCallback, SettingUp, tables
<1>12. ASSUME NEW t \in Threads, ThreadStep(t) PROVE WakeEvent \in Watched'
  BY <1>2, <1>8, <1>12 DEF ThreadStep, AddEventFull, GrowNfds, AddTimer, Trigger, tables
<1>13. CASE Tick \/ UNCHANGED vars \/ \E f \in Fds : InputArrives(f)
  BY <1>2, <1>13 DEF Tick, InputArrives, vars, tables
<1>14. CASE Restart
  BY <1>14 DEF Restart, SettingUp
<1> QED BY Zenon, <1>9, <1>10, <1>11, <1>12, <1>13, <1>14 DEF Next

\* With at most MAX_FD_EVENTS events in the daemon, no ril_event_add is dropped and the
\* wake pipe is watched as soon as the loop runs.
THEOREM AddNeverDropped == Spec => []NoDroppedAdd
<1>1. Init => TableIInv /\ WakeStaysWatched
  BY TableIInvInductive DEF Init, WakeStaysWatched, SettingUp
<1>2. (TableIInv /\ WakeStaysWatched) /\ [Next]_vars => (TableIInv /\ WakeStaysWatched)'
  BY WakeStaysWatchedStep, TableIInvInductive
<1>3. TableIInv /\ WakeStaysWatched => NoDroppedAdd
  BY Zenon, RoomForUnwatched DEF WakeStaysWatched, NoDroppedAdd
<1> QED BY <1>1, <1>2, <1>3, PTL DEF Spec
=============================================================================
