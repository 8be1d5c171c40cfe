------------------------------ MODULE RilEvent ------------------------------
(***************************************************************************)
(* The event library of the RIL daemon, libril/ril_event.cpp, and the way  *)
(* libril/ril.cpp drives it.                                               *)
(*                                                                         *)
(* One thread runs ril_event_loop: it copies the set of watched            *)
(* descriptors, computes the next timeout, blocks in select and then calls *)
(* the functions of the events that are due.  Other threads (the thread    *)
(* that registers the radio, the threads of the vendor radio library) add  *)
(* descriptor events and timers while the loop runs and then write a byte  *)
(* to a pipe the loop watches (rilEventAddWakeup, triggerEvLoop).          *)
(*                                                                         *)
(* The tables are guarded by listMutex, but three reads of the loop are    *)
(* not: the memcpy of readFds, the head of timer_list in calcNextTimeout,  *)
(* and nfds as an argument of select.  Each is a step of its own here.     *)
(***************************************************************************)
EXTENDS Integers, Sequences, FiniteSets

CONSTANTS
    FdEvents,       \* the ril_event structures that watch a descriptor
    WakeEvent,      \* s_wakeupfd_event, the read end of the wake pipe
    Persistent,     \* the events set with persist = true
    TimerEvents,    \* the ril_event structures used as timers
    Threads,        \* the threads other than the event loop
    Fds,            \* descriptor numbers the kernel hands out
    MaxFdEvents,    \* MAX_FD_EVENTS
    Delays,         \* relative timeouts given to ril_timer_add
    MaxTime,        \* bound of the clock
    SelectMayFail,  \* whether select may fail with an errno other than EINTR
    NULL

ASSUME ConstantsAssumption ==
    /\ WakeEvent \in FdEvents /\ WakeEvent \in Persistent
    /\ Persistent \subseteq FdEvents /\ IsFiniteSet(FdEvents)
    /\ FdEvents \cap TimerEvents = {}
    /\ NULL \notin FdEvents \cup TimerEvents
    /\ Fds \subseteq Nat
    /\ MaxFdEvents \in Nat \ {0}
    /\ Delays \subseteq Nat
    /\ MaxTime \in Nat
    /\ SelectMayFail \in BOOLEAN

Events  == FdEvents \cup TimerEvents
Slots   == 0 .. MaxFdEvents - 1
Forever == -1       \* ptv = NULL: select has no timeout

VARIABLES
    readFds,        \* fd_set readFds
    nfds,           \* int nfds
    watch_table,    \* watch_table[MAX_FD_EVENTS]
    fd,             \* ril_event.fd of each descriptor event
    index,          \* ril_event.index of each descriptor event
    timer_list,     \* the timer list, from its head
    timeout,        \* ril_event.timeout of each timer
    pending_list,   \* the pending list, from its head
    lpc,            \* where the event loop is
    rfds,           \* the loop's local fd_set
    selNfds,        \* the nfds select was called with
    tv, tvNow,      \* the relative timeout, and the time it was computed at
    deadline,       \* when the select in progress times out
    cur,            \* the event whose function is running
    tpc, tev,       \* where each thread is, and the event it is adding
    wakeByte,       \* the wake pipe holds a byte
    readable,       \* descriptors with input to read
    now             \* CLOCK_MONOTONIC

tables  == <<readFds, nfds, watch_table, fd, index>>
timers  == <<timer_list, timeout>>
loopSel == <<rfds, selNfds, tv, tvNow, deadline>>
thrs    == <<tpc, tev>>
vars    == <<tables, timers, pending_list, lpc, loopSel, cur, thrs,
             wakeByte, readable, now>>

LoopPcs == {"init", "pipe", "watchWake", "copy", "copying", "timeout",
            "select", "blocked", "timeouts", "readies", "fire", "callback",
            "dead"}

-----------------------------------------------------------------------------
(* The tables.                                                             *)

ToSet(s) == {s[i] : i \in DOMAIN s}

Watched    == {watch_table[i] : i \in Slots} \ {NULL}
WatchedFds == {fd[e] : e \in Watched}

\* The descriptor of an event: the one it has, or one the kernel has free.
IsFdFor(f, e) == IF fd[e] = -1 THEN f \notin {fd[g] : g \in FdEvents} ELSE f = fd[e]

\* listMutex is held across steps only by a thread between the FD_SET and the
\* update of nfds of ril_event_add.
MutexFree == \A t \in Threads : tpc[t] # "grow"

\* The structure is not in use: ril.cpp adds a descriptor event only when it is
\* not watched and its function is not about to run on the loop's thread, and
\* mallocs a new structure for every timer.
Idle(e) == /\ e \notin Watched
           /\ e \notin ToSet(timer_list) \cup ToSet(pending_list)
           /\ e # cur

\* The first free slot of the table, as ril_event_add searches it.
FirstFree(i) == /\ watch_table[i] = NULL
                /\ \A j \in Slots : j < i => watch_table[j] # NULL

TableFull == \A i \in Slots : watch_table[i] # NULL

\* Mutant: without the break of ril_event_add the event takes every free slot.
PutInSlotNoBreak(e, f, i) ==
    /\ FirstFree(i)
    /\ watch_table' = [j \in Slots |-> IF watch_table[j] = NULL THEN e
                                       ELSE watch_table[j]]
    /\ fd' = [fd EXCEPT ![e] = f]
    /\ index' = [index EXCEPT ![e] = i]
    /\ readFds' = readFds \cup {f}

\* The body of ril_event_add up to the FD_SET: slot i for event e on descriptor f.
PutInSlot(e, f, i) ==
    /\ FirstFree(i)
    /\ watch_table' = [watch_table EXCEPT ![i] = e]
    /\ fd' = [fd EXCEPT ![e] = f]
    /\ index' = [index EXCEPT ![e] = i]
    /\ readFds' = readFds \cup {f}

\* Mutant: the comparison is strict.
GrownNfdsOffByOne(f) == IF f > nfds THEN f + 1 ELSE nfds

GrownNfds(f) == IF f >= nfds THEN f + 1 ELSE nfds

\* removeWatch for the events of S, one after the other.  nfds is recomputed when
\* the event with the largest descriptor goes: the search starts from 0, so an
\* empty table leaves nfds = 1.
RemoveWatch(S) ==
    LET left == Watched \ S IN
    /\ watch_table' = [i \in Slots |-> IF watch_table[i] \in S THEN NULL
                                       ELSE watch_table[i]]
    /\ index' = [e \in FdEvents |-> IF e \in S THEN -1 ELSE index[e]]
    /\ readFds' = readFds \ {fd[e] : e \in S}
    /\ IF \E e \in S : fd[e] + 1 = nfds
         THEN \E n \in {0} \cup {fd[e] : e \in left} :
                 /\ \A e \in left : fd[e] <= n
                 /\ nfds' = n + 1
         ELSE nfds' = nfds

\* Mutant: the new timer goes to the end of the list.
InsertTimerUnsorted(e, delay) ==
    /\ timer_list' = Append(timer_list, e)
    /\ timeout' = [timeout EXCEPT ![e] = now + delay]

\* ril_timer_add: e goes before the first timer that does not expire earlier.
InsertTimer(e, delay) ==
    LET due == now + delay
        n   == Len(timer_list)
    IN  \E k \in 1 .. n + 1 :
          /\ \A i \in 1 .. k - 1 : timeout[timer_list[i]] < due
          /\ k <= n => timeout[timer_list[k]] >= due
          /\ timer_list' = [i \in 1 .. n + 1 |->
                              IF i < k THEN timer_list[i]
                              ELSE IF i = k THEN e ELSE timer_list[i - 1]]
          /\ timeout' = [timeout EXCEPT ![e] = due]

\* A timer whose due time lies within the bounded clock.
DelayFits(delay) == now + delay < MaxTime

-----------------------------------------------------------------------------
(* Threads other than the loop.  They start once the loop has set          *)
(* s_started, and stop when the process is killed.                         *)

Running == lpc \notin {"init", "dead"}

\* ril_event_add by thread t, up to the FD_SET, the mutex still held.
AddEvent(t, e, f) ==
    /\ Running /\ tpc[t] = "idle" /\ MutexFree
    /\ e \in FdEvents \ {WakeEvent} /\ Idle(e)
    /\ IsFdFor(f, e)
    /\ \E i \in Slots : PutInSlot(e, f, i)
    /\ tpc' = [tpc EXCEPT ![t] = "grow"]
    /\ tev' = [tev EXCEPT ![t] = e]
    /\ UNCHANGED <<nfds, timers, pending_list, lpc, loopSel, cur, wakeByte,
                   readable, now>>

\* ril_event_add with no slot free: the event is dropped without a word.
AddEventFull(t, e) ==
    /\ Running /\ tpc[t] = "idle" /\ MutexFree
    /\ e \in FdEvents \ {WakeEvent} /\ Idle(e)
    /\ TableFull
    /\ tpc' = [tpc EXCEPT ![t] = "trigger"]
    /\ UNCHANGED <<tables, timers, pending_list, lpc, loopSel, cur, tev,
                   wakeByte, readable, now>>

\* Mutant: ril_event_add is called where rilEventAddWakeup should be.
GrowNfdsNoWakeup(t) ==
    /\ Running /\ tpc[t] = "grow"
    /\ nfds' = GrownNfds(fd[tev[t]])
    /\ tpc' = [tpc EXCEPT ![t] = "idle"]
    /\ tev' = [tev EXCEPT ![t] = WakeEvent]
    /\ UNCHANGED <<readFds, watch_table, fd, index, timers, pending_list, lpc,
                   loopSel, cur, wakeByte, readable, now>>

\* The end of ril_event_add: nfds, then the mutex is released.
GrowNfds(t) ==
    /\ Running /\ tpc[t] = "grow"
    /\ nfds' = GrownNfds(fd[tev[t]])
    /\ tpc' = [tpc EXCEPT ![t] = "trigger"]
    /\ tev' = [tev EXCEPT ![t] = WakeEvent]
    /\ UNCHANGED <<readFds, watch_table, fd, index, timers, pending_list, lpc,
                   loopSel, cur, wakeByte, readable, now>>

\* Mutant: the timer is added without the wake-up that follows it.
AddTimerNoWakeup(t, e, delay) ==
    /\ Running /\ tpc[t] = "idle" /\ MutexFree
    /\ Idle(e) /\ DelayFits(delay)
    /\ InsertTimer(e, delay)
    /\ UNCHANGED <<tables, pending_list, lpc, loopSel, cur, thrs, wakeByte,
                   readable, now>>

\* internalRequestTimedCallback by thread t: a timer is added.
AddTimer(t, e, delay) ==
    /\ Running /\ tpc[t] = "idle" /\ MutexFree
    /\ Idle(e) /\ DelayFits(delay)
    /\ InsertTimer(e, delay)
    /\ tpc' = [tpc EXCEPT ![t] = "trigger"]
    /\ UNCHANGED <<tables, pending_list, lpc, loopSel, cur, tev, wakeByte,
                   readable, now>>

\* triggerEvLoop by another thread.  Before eventLoop has made the pipe,
\* s_fdWakeupWrite is still 0 and the byte goes elsewhere.
Trigger(t) ==
    /\ Running /\ tpc[t] = "trigger"
    /\ wakeByte' = (wakeByte \/ lpc # "pipe")
    /\ tpc' = [tpc EXCEPT ![t] = "idle"]
    /\ UNCHANGED <<tables, timers, pending_list, lpc, loopSel, cur, tev,
                   readable, now>>

ThreadStep(t) ==
    \/ \E e \in FdEvents, f \in Fds : AddEvent(t, e, f)
    \/ \E e \in FdEvents : AddEventFull(t, e)
    \/ GrowNfds(t)
    \/ \E e \in TimerEvents, delay \in Delays : AddTimer(t, e, delay)
    \/ Trigger(t)

-----------------------------------------------------------------------------
(* The event loop's thread.                                                *)

\* eventLoop: ril_event_init, then s_started is set.
LoopInit ==
    /\ lpc = "init"
    /\ lpc' = "pipe"
    /\ UNCHANGED <<tables, timers, pending_list, loopSel, cur, thrs, wakeByte,
                   readable, now>>

\* eventLoop: the pipe is made and its ends are published.
LoopPipe ==
    /\ lpc = "pipe"
    /\ lpc' = "watchWake"
    /\ UNCHANGED <<tables, timers, pending_list, loopSel, cur, thrs, wakeByte,
                   readable, now>>

\* eventLoop: the read end is watched.  triggerEvLoop compares the thread with
\* s_tid_dispatch, which pthread_create may not have stored yet, so the loop may
\* write itself a byte.
LoopWatchWake ==
    /\ lpc = "watchWake" /\ MutexFree
    /\ \/ \E i \in Slots, f \in Fds :
            /\ IsFdFor(f, WakeEvent)
            /\ PutInSlot(WakeEvent, f, i)
            /\ nfds' = GrownNfds(f)
       \/ TableFull /\ UNCHANGED tables
    /\ lpc' = "copy"
    /\ wakeByte' \in {wakeByte, TRUE}
    /\ UNCHANGED <<timers, pending_list, loopSel, cur, thrs, readable, now>>

\* memcpy(&rfds, &readFds): not under the mutex, and not atomic.  Only this
\* thread clears bits, so what a second look adds is what a thread set meanwhile.
LoopCopy ==
    /\ lpc = "copy"
    /\ rfds' = readFds
    /\ lpc' = "copying"
    /\ UNCHANGED <<tables, timers, pending_list, selNfds, tv, tvNow, deadline,
                   cur, thrs, wakeByte, readable, now>>

LoopCopied ==
    /\ lpc = "copying"
    /\ \E seen \in SUBSET (readFds \ rfds) : rfds' = rfds \cup seen
    /\ lpc' = "timeout"
    /\ UNCHANGED <<tables, timers, pending_list, selNfds, tv, tvNow, deadline,
                   cur, thrs, wakeByte, readable, now>>

\* calcNextTimeout, not under the mutex: only the head of the list counts.
NextTimeout ==
    IF timer_list = << >> THEN Forever
    ELSE LET due == timeout[Head(timer_list)]
         IN  IF due > now THEN due - now ELSE 0

LoopCalcTimeout ==
    /\ lpc = "timeout"
    /\ tv' = NextTimeout
    /\ tvNow' = now
    /\ lpc' = "select"
    /\ UNCHANGED <<tables, timers, pending_list, rfds, selNfds, deadline, cur,
                   thrs, wakeByte, readable, now>>

\* The call of select: nfds is read without the mutex, the timeout is relative
\* to the time of the call.
LoopSelect ==
    /\ lpc = "select"
    /\ selNfds' = nfds
    /\ deadline' = IF tv = Forever THEN Forever ELSE now + tv
    /\ lpc' = "blocked"
    /\ UNCHANGED <<tables, timers, pending_list, rfds, tv, tvNow, cur, thrs,
                   wakeByte, readable, now>>

HasInput(f) == f \in readable \/ (wakeByte /\ f = fd[WakeEvent])
ReadyFds    == {f \in rfds : f < selNfds /\ HasInput(f)}
TimedOut    == deadline # Forever /\ now >= deadline

\* select returns the descriptors with input, or times out with none.  What the
\* loop computed for the call is dead from here on, and forgotten.
LoopSelectReturns ==
    /\ lpc = "blocked"
    /\ ReadyFds # {} \/ TimedOut
    /\ rfds' = ReadyFds
    /\ selNfds' = 0 /\ tv' = 0 /\ tvNow' = 0 /\ deadline' = 0
    /\ lpc' = "timeouts"
    /\ UNCHANGED <<tables, timers, pending_list, cur, thrs, wakeByte, readable,
                   now>>

\* select fails with EINTR (nothing was ready): the loop starts over.
LoopInterrupted ==
    /\ lpc = "blocked"
    /\ ReadyFds = {} /\ ~TimedOut
    /\ rfds' = {}
    /\ selNfds' = 0 /\ tv' = 0 /\ tvNow' = 0 /\ deadline' = 0
    /\ lpc' = "copy"
    /\ UNCHANGED <<tables, timers, pending_list, cur, thrs, wakeByte, readable,
                   now>>

\* select fails with another errno: ril_event_loop returns and eventLoop kills
\* the process.
LoopSelectFails ==
    /\ SelectMayFail
    /\ lpc = "blocked"
    /\ lpc' = "dead"
    /\ UNCHANGED <<tables, timers, pending_list, loopSel, cur, thrs, wakeByte,
                   readable, now>>

\* processTimeouts: the timers with timeout < now move to the pending list.
Expired(e) == now > timeout[e]

LoopProcessTimeouts ==
    /\ lpc = "timeouts" /\ MutexFree
    /\ \E k \in 0 .. Len(timer_list) :
          /\ \A i \in 1 .. k : Expired(timer_list[i])
          /\ k < Len(timer_list) => ~Expired(timer_list[k + 1])
          /\ pending_list' = pending_list \o SubSeq(timer_list, 1, k)
          /\ timer_list' = SubSeq(timer_list, k + 1, Len(timer_list))
    /\ lpc' = "readies"
    /\ UNCHANGED <<tables, timeout, loopSel, cur, thrs, wakeByte, readable, now>>

\* processReadReadies(&rfds, n): at most n events, in the order of their slots;
\* those that are not persistent leave the table.
IsReady(i) == watch_table[i] # NULL /\ fd[watch_table[i]] \in rfds

ReadySlots ==
    {i \in Slots : /\ IsReady(i)
                   /\ Cardinality({j \in Slots : IsReady(j) /\ j < i})
                        < Cardinality(rfds)}

InSlotOrder(S) == {s \in UNION {[1 .. n -> S] : n \in 0 .. MaxFdEvents} :
                     /\ ToSet(s) = S
                     /\ \A i, j \in DOMAIN s : i < j => s[i] < s[j]}

\* Mutant: processReadReadies does not look at persist.
OneShotIgnored(S) == {}

OneShot(S) == {watch_table[i] : i \in S} \ Persistent

LoopProcessReadReadies ==
    /\ lpc = "readies" /\ MutexFree
    /\ \E s \in InSlotOrder(ReadySlots) :
          pending_list' = pending_list \o [i \in DOMAIN s |-> watch_table[s[i]]]
    /\ RemoveWatch(OneShot(ReadySlots))
    /\ rfds' = {}
    /\ lpc' = "fire"
    /\ UNCHANGED <<fd, timers, selNfds, tv, tvNow, deadline, cur, thrs, wakeByte,
                   readable, now>>

\* firePending: the next event leaves the list and its function is called.
LoopFire ==
    /\ lpc = "fire"
    /\ pending_list # << >>
    /\ cur' = Head(pending_list)
    /\ pending_list' = Tail(pending_list)
    /\ lpc' = "callback"
    /\ UNCHANGED <<tables, timers, loopSel, thrs, wakeByte, readable, now>>

LoopFired ==
    /\ lpc = "fire"
    /\ pending_list = << >>
    /\ lpc' = "copy"
    /\ UNCHANGED <<tables, timers, pending_list, loopSel, cur, thrs, wakeByte,
                   readable, now>>

-----------------------------------------------------------------------------
(* What the functions called by firePending do to the event library, on    *)
(* the loop's own thread, where triggerEvLoop writes nothing.  They delete *)
(* no event but their own (processCommandsCallback, socketRequestsHandler).*)

InCallback == lpc = "callback" /\ cur # WakeEvent /\ MutexFree

\* The end of a connection: the function closes its descriptor and calls
\* ril_event_del, which is removeWatch, or nothing when the event has no slot.
CallbackDel ==
    /\ InCallback /\ cur \in Persistent
    /\ IF index[cur] \in Slots THEN RemoveWatch({cur})
       ELSE UNCHANGED <<readFds, nfds, watch_table, index>>
    /\ fd' = [fd EXCEPT ![cur] = -1]
    /\ readable' = readable \ {fd[cur]}
    /\ UNCHANGED <<timers, pending_list, lpc, loopSel, cur, thrs, wakeByte, now>>

\* rilEventAddWakeup in a function: its own event again, or another one.
CallbackAdd(e, f) ==
    /\ InCallback
    /\ e \in FdEvents \ {WakeEvent} /\ e \notin Watched
    /\ e \notin ToSet(pending_list)
    /\ IsFdFor(f, e)
    /\ \/ \E i \in Slots : PutInSlot(e, f, i) /\ nfds' = GrownNfds(f)
       \/ TableFull /\ UNCHANGED tables
    /\ UNCHANGED <<timers, pending_list, lpc, loopSel, cur, thrs, wakeByte,
                   readable, now>>

CallbackTimer(e, delay) ==
    /\ InCallback
    /\ Idle(e) /\ DelayFits(delay)
    /\ InsertTimer(e, delay)
    /\ UNCHANGED <<tables, pending_list, lpc, loopSel, cur, thrs, wakeByte,
                   readable, now>>

\* The function returns, having read its descriptor's input or left some;
\* userTimerCallback frees its timer.
CallbackReturn ==
    /\ lpc = "callback" /\ cur # WakeEvent
    /\ readable' \in {readable} \cup
                     {readable \ {fd[e]} : e \in FdEvents \cap {cur}}
    /\ timeout' = [e \in TimerEvents |-> IF e = cur THEN 0 ELSE timeout[e]]
    /\ cur' = NULL
    /\ lpc' = "fire"
    /\ UNCHANGED <<tables, timer_list, pending_list, loopSel, thrs, wakeByte, now>>

\* processWakeupCallback reads until the pipe is empty.
DrainWakePipe ==
    /\ lpc = "callback" /\ cur = WakeEvent
    /\ wakeByte' = FALSE
    /\ cur' = NULL
    /\ lpc' = "fire"
    /\ UNCHANGED <<tables, timers, pending_list, loopSel, thrs, readable, now>>

LoopStep ==
    \/ LoopInit \/ LoopPipe \/ LoopWatchWake
    \/ LoopCopy \/ LoopCopied \/ LoopCalcTimeout \/ LoopSelect
    \/ LoopSelectReturns \/ LoopProcessTimeouts \/ LoopProcessReadReadies
    \/ LoopFire \/ LoopFired \/ CallbackReturn \/ DrainWakePipe

CallbackStep ==
    \/ CallbackDel
    \/ \E e \in FdEvents, f \in Fds : CallbackAdd(e, f)
    \/ \E e \in TimerEvents, delay \in Delays : CallbackTimer(e, delay)

-----------------------------------------------------------------------------
(* The environment.                                                        *)

\* Time passes.  The loop's thread is not held up between computing its timeout
\* and calling select for longer than the bounded clock leaves room for.
Tick ==
    /\ now < MaxTime /\ lpc # "dead"
    /\ lpc = "select" /\ tv # Forever => now + tv < MaxTime
    /\ now' = now + 1
    /\ UNCHANGED <<tables, timers, pending_list, lpc, loopSel, cur, thrs,
                   wakeByte, readable>>

\* Input arrives on a watched descriptor other than the wake pipe.
InputArrives(f) ==
    /\ Running /\ f \in WatchedFds \ (readable \cup {fd[WakeEvent]})
    /\ readable' = readable \cup {f}
    /\ UNCHANGED <<tables, timers, pending_list, lpc, loopSel, cur, thrs,
                   wakeByte, now>>

Init ==
    /\ readFds = {} /\ nfds = 0
    /\ watch_table = [i \in Slots |-> NULL]
    /\ fd = [e \in FdEvents |-> -1]
    /\ index = [e \in FdEvents |-> -1]
    /\ timer_list = << >> /\ timeout = [e \in TimerEvents |-> 0]
    /\ pending_list = << >>
    /\ lpc = "init"
    /\ rfds = {} /\ selNfds = 0 /\ tv = 0 /\ tvNow = 0 /\ deadline = 0
    /\ cur = NULL
    /\ tpc = [t \in Threads |-> "idle"]
    /\ tev = [t \in Threads |-> WakeEvent]
    /\ wakeByte = FALSE /\ readable = {}
    /\ now = 0

\* init starts the daemon again after eventLoop has killed it.
Restart ==
    /\ lpc = "dead"
    /\ readFds' = {} /\ nfds' = 0
    /\ watch_table' = [i \in Slots |-> NULL]
    /\ fd' = [e \in FdEvents |-> -1]
    /\ index' = [e \in FdEvents |-> -1]
    /\ timer_list' = << >> /\ timeout' = [e \in TimerEvents |-> 0]
    /\ pending_list' = << >>
    /\ lpc' = "init"
    /\ rfds' = {} /\ selNfds' = 0 /\ tv' = 0 /\ tvNow' = 0 /\ deadline' = 0
    /\ cur' = NULL
    /\ tpc' = [t \in Threads |-> "idle"]
    /\ tev' = [t \in Threads |-> WakeEvent]
    /\ wakeByte' = FALSE /\ readable' = {}
    /\ UNCHANGED now

Next ==
    \/ LoopStep
    \/ LoopInterrupted \/ LoopSelectFails
    \/ CallbackStep
    \/ \E t \in Threads : ThreadStep(t)
    \/ Tick
    \/ \E f \in Fds : InputArrives(f)
    \/ Restart

Spec == Init /\ [][Next]_vars

\* The loop's thread and the threads in the middle of an operation are scheduled,
\* select returns when it can, a callback returns, and time passes.
FairSpec ==
    /\ Spec
    /\ WF_vars(LoopStep)
    /\ \A t \in Threads : WF_vars(GrowNfds(t) \/ Trigger(t))
    /\ WF_vars(Tick)

-----------------------------------------------------------------------------
(* Properties.                                                             *)

\* Every variable keeps its type.
TypeOK ==
    /\ readFds \subseteq Fds /\ nfds \in Nat
    /\ watch_table \in [Slots -> FdEvents \cup {NULL}]
    /\ fd \in [FdEvents -> Fds \cup {-1}]
    /\ index \in [FdEvents -> Slots \cup {-1}]
    /\ timer_list \in Seq(TimerEvents)
    /\ timeout \in [TimerEvents -> Nat]
    /\ pending_list \in Seq(Events)
    /\ lpc \in LoopPcs
    /\ rfds \subseteq Fds /\ selNfds \in Nat
    /\ tv \in Nat \cup {Forever} /\ tvNow \in Nat
    /\ deadline \in Nat \cup {Forever}
    /\ cur \in Events \cup {NULL}
    /\ tpc \in [Threads -> {"idle", "grow", "trigger"}]
    /\ tev \in [Threads -> FdEvents]
    /\ wakeByte \in BOOLEAN /\ readable \subseteq Fds
    /\ now \in Nat

\* A slot and its event point at each other (watch_table[i] and ev->index).
SlotsAndIndexAgree ==
    /\ \A i \in Slots : watch_table[i] # NULL => index[watch_table[i]] = i
    /\ \A e \in FdEvents : index[e] # -1 => watch_table[index[e]] = e

\* The bits set in readFds are those of the watched events, whose descriptors are
\* open and differ.
ReadFdsAgree ==
    /\ readFds = WatchedFds /\ -1 \notin WatchedFds
    /\ \A e, g \in FdEvents : fd[e] = fd[g] => e = g \/ fd[e] = -1

\* nfds covers every watched descriptor (but the one an add in progress has yet to
\* account for) and is not larger than the table needs.
Growing(e) == \E t \in Threads : tpc[t] = "grow" /\ tev[t] = e
NfdsAgrees ==
    /\ \A e \in Watched : Growing(e) \/ fd[e] < nfds
    /\ nfds <= 1 \/ \E e \in Watched : fd[e] + 1 = nfds

\* The redundant tables of ril_event.cpp agree: the watch table, the index kept in
\* each event, the fd_set and nfds, across adds by any thread, deletions and the
\* removal of one-shot events by processReadReadies.
TableInv == SlotsAndIndexAgree /\ ReadFdsAgree /\ NfdsAgrees

\* One add at a time is between its two steps, and its event has its slot.
GrowInv ==
    \A t \in Threads : tpc[t] = "grow" =>
        /\ tev[t] \in Watched /\ tev[t] # WakeEvent
        /\ \A u \in Threads : tpc[u] = "grow" => u = t

\* eventLoop adds the wake event once, before it enters ril_event_loop.
SettingUp == {"init", "pipe", "watchWake"}
SetupInv  == lpc \in SettingUp => WakeEvent \notin Watched

\* A thread has written the byte that wakes the loop, or is about to.
Waking == wakeByte \/ \E t \in Threads : tpc[t] \in {"grow", "trigger"}

\* The select in progress covers an event: its bit and its number are seen.
Covered(e) == fd[e] \in rfds /\ fd[e] < selNfds

\* The select in progress does not sleep past a timer (up to the time that passed
\* between computing the timeout and calling select).
InTime(e) == tv # Forever /\ (tv = 0 \/ tvNow + tv <= timeout[e])

\* While the loop blocks in select, the wake pipe is covered, and any event or timer
\* the unlocked reads of readFds, nfds and timer_list missed will be noticed: its
\* adder has written the wake byte or is about to (the order of ril_event_add and
\* triggerEvLoop in rilEventAddWakeup and internalRequestTimedCallback).
NoLostWakeup ==
    lpc = "blocked" /\ WakeEvent \in Watched =>
        /\ Covered(WakeEvent)
        /\ \/ Waking
           \/ /\ \A e \in Watched : Covered(e)
              /\ \A e \in ToSet(timer_list) : InTime(e)

\* As long as the daemon has no more events than MAX_FD_EVENTS, ril_event_add never
\* finds the table full, for the wake pipe or for any other event: no slot is leaked
\* by a removal or taken twice.
EventsFit    == Cardinality(FdEvents) <= MaxFdEvents
NoDroppedAdd ==
    EventsFit => /\ \A e \in FdEvents : e \in Watched \/ ~TableFull
                 /\ lpc \in SettingUp \/ WakeEvent \in Watched

\* Timers run in the order of their timeouts and never early: ril_timer_add keeps the
\* list sorted, and those processTimeouts has moved to the pending list are due, no
\* later than any that is still in the list or that is added meanwhile.
Before(e, g) == timeout[e] <= timeout[g]
PendingTimer(i) == pending_list[i] \in TimerEvents

TimersInOrder ==
    /\ \A i, j \in DOMAIN timer_list : i < j => Before(timer_list[i], timer_list[j])
    /\ \A i \in DOMAIN pending_list : PendingTimer(i) =>
          /\ timeout[pending_list[i]] <= now
          /\ \A j \in DOMAIN timer_list : Before(pending_list[i], timer_list[j])
          /\ \A j \in DOMAIN pending_list :
                i < j /\ PendingTimer(j) => Before(pending_list[i], pending_list[j])
    /\ cur \in TimerEvents => timeout[cur] <= now

\* firePending calls an event once for each time it was added or found ready: an event
\* is in the pending list once and in no other list, and a one-shot event that is
\* waiting to run is no longer watched.
FiredOnce ==
    /\ \A i, j \in DOMAIN pending_list :
          pending_list[i] = pending_list[j] => i = j
    /\ \A e \in ToSet(pending_list) :
          /\ e # cur /\ e \notin ToSet(timer_list)
          /\ e \in Persistent \/ e \notin Watched

\* What the two properties of the lists rest on: no event runs while another waits,
\* a timer is in the timer list once, and the pending list is filled and emptied
\* within one round of the loop.
ListInv ==
    /\ cur = NULL \/ lpc = "callback"
    /\ \A i, j \in DOMAIN timer_list : timer_list[i] = timer_list[j] => i = j
    /\ \A i \in DOMAIN timer_list : timer_list[i] # cur
    /\ lpc \notin {"readies", "fire", "callback"} => pending_list = << >>
    /\ lpc = "readies" => \A i \in DOMAIN pending_list : PendingTimer(i)

\* What NoLostWakeup rests on: what the loop has read so far, before it blocks, is up
\* to date or a wake-up is coming.
WakeInv ==
    /\ lpc \in {"copying", "timeout", "select", "blocked"} =>
          /\ WakeEvent \in Watched => fd[WakeEvent] \in rfds
          /\ Waking \/ \A e \in Watched : fd[e] \in rfds
    /\ lpc \in {"select", "blocked"} =>
          Waking \/ \A i \in DOMAIN timer_list : InTime(timer_list[i])
    /\ lpc = "blocked" =>
          /\ WakeEvent \in Watched => fd[WakeEvent] < selNfds
          /\ Waking \/ \A e \in Watched : fd[e] < selNfds

\* Input on a watched descriptor leads to a call of its function, whatever thread
\* added the event and whatever the loop was doing then.
ReadyServed ==
    \A e \in FdEvents \ {WakeEvent} :
        (e \in Watched /\ fd[e] \in readable) ~> (cur = e)

\* A timer added by any thread is called: the loop never sleeps past it for ever.
TimerServed ==
    \A e \in TimerEvents : (e \in ToSet(timer_list)) ~> (cur = e)
=============================================================================
