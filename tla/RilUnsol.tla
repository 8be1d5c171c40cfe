------------------------------ MODULE RilUnsol ------------------------------
(***************************************************************************)
(* Unsolicited messages of the RIL daemon (libril/ril.cpp): the wake lock  *)
(* each message takes, the timer that gives it back, and the copy of the   *)
(* network time (NITZ) that is kept for a client that is not connected.    *)
(*                                                                         *)
(* RIL_onUnsolicitedResponse is called by any thread of the vendor radio   *)
(* library and, when a client connects, by the event loop's thread.  No    *)
(* mutex guards s_last_wake_timeout_info or s_lastNITZTimeData, so every   *)
(* read and write of them is a step.  The loop runs timers and connections *)
(* one at a time (RilEvent); a message to a connected client is one write  *)
(* here (RilRequest takes it apart).                                       *)
(***************************************************************************)
EXTENDS Integers, Sequences

CONSTANTS
    Vendors,        \* the threads of the vendor radio library
    Loop,           \* the thread of the event loop
    Addrs,          \* addresses malloc returns for a UserCallbackInfo
    MaxMsg,         \* messages of the vendor library
    MaxConn,        \* connections of the client
    MaxNested,      \* messages of one radio state change (the code sends up to 3)
    Kinds,          \* the kinds of messages the vendor library sends
    NULL

Thr      == Vendors \cup {Loop}
AllKinds == {"wake", "quiet", "nitz", "radio"}

ASSUME ConstantsAssumption ==
    /\ Loop \notin Vendors /\ NULL \notin Addrs \cup (0 .. MaxMsg)
    /\ MaxMsg \in Nat /\ MaxConn \in Nat /\ MaxNested \in 0 .. 3
    /\ Kinds \subseteq AllKinds

Torn == 0           \* bytes that are no message: the copy is being written, or was freed
Nitz == 1 .. MaxMsg

VARIABLES
    conn,           \* the command connection, as the loop and the client see it
    lock,           \* the wake lock is held (it has a name and does not count)
    timers,         \* the UserCallbackInfo structures in the timer list
    alloc,          \* the live ones
    cancelled,      \* UserCallbackInfo.userParam # NULL
    last,           \* s_last_wake_timeout_info
    pc, kind,       \* where each thread is in RIL_onUnsolicitedResponse, and with what
    nitz,           \* the number of its NITZ message
    nested, inner,  \* messages processRadioState has yet to send; it is sending one
    ptr,            \* the UserCallbackInfo it read or made
    lpc, cur,       \* where the loop is, and the timer it is calling
    lastNITZ,       \* s_lastNITZTimeData: NULL, a message or Torn
    got,            \* the NITZ messages the client got
    msgLeft, connLeft

wake  == <<timers, alloc, cancelled, last>>
thrs  == <<pc, kind, nitz, nested, inner, ptr>>
times == <<lastNITZ, got>>
left  == <<msgLeft, connLeft>>
vars  == <<conn, lock, wake, thrs, lpc, cur, times, left>>

-----------------------------------------------------------------------------
(* RIL_onUnsolicitedResponse, by thread t.  Codes it does not know, and    *)
(* calls before RIL_register, return at once and change nothing.           *)

\* All messages take the wake lock but ON_USSD_REQUEST and SIGNAL_STRENGTH.
Wakes(k) == k # "quiet"

Begin(t, k) ==
    /\ pc[t] = "idle"
    /\ lock' = (lock \/ Wakes(k))
    /\ kind' = [kind EXCEPT ![t] = k]
    /\ pc' = [pc EXCEPT ![t] = "marshal"]

\* The end of the function; processRadioState goes on if it sent the message.
Return(t) ==
    /\ pc' = [pc EXCEPT ![t] = IF inner[t] THEN "nested" ELSE "idle"]
    /\ inner' = [inner EXCEPT ![t] = FALSE]

VendorBegins(v) ==
    /\ msgLeft > 0
    /\ \E k \in Kinds :
          /\ Begin(v, k)
          /\ nitz' = [nitz EXCEPT ![v] = IF k = "nitz" THEN msgLeft ELSE 0]
    /\ msgLeft' = msgLeft - 1
    /\ UNCHANGED <<conn, wake, nested, inner, ptr, lpc, cur, times, connLeft>>

\* The response function refuses the vendor's data: error_exit.
MarshalFails(t) ==
    /\ pc[t] = "marshal" /\ t # Loop /\ kind[t] \in {"wake", "quiet"}
    /\ lock' = (lock /\ ~Wakes(kind[t]))
    /\ Return(t)
    /\ UNCHANGED <<conn, wake, kind, nitz, nested, ptr, lpc, cur, times, left>>

\* RADIO_STATE_CHANGED: processRadioState sends a message for each of the voice radio
\* technology, the subscription source and the SIM status that has changed.
Marshalled(t) ==
    /\ pc[t] = "marshal"
    /\ \/ /\ kind[t] # "radio"
          /\ pc' = [pc EXCEPT ![t] = "send"]
          /\ UNCHANGED nested
       \/ /\ kind[t] = "radio"
          /\ pc' = [pc EXCEPT ![t] = "nested"]
          /\ \E n \in 0 .. MaxNested : nested' = [nested EXCEPT ![t] = n]
    /\ UNCHANGED <<conn, lock, wake, kind, nitz, inner, ptr, lpc, cur, times, left>>

NestedBegins(t) ==
    /\ pc[t] = "nested" /\ nested[t] > 0
    /\ lock' = TRUE
    /\ nested' = [nested EXCEPT ![t] = @ - 1]
    /\ inner' = [inner EXCEPT ![t] = TRUE]
    /\ pc' = [pc EXCEPT ![t] = "send"]
    /\ UNCHANGED <<conn, wake, kind, nitz, ptr, lpc, cur, times, left>>

NestedDone(t) ==
    /\ pc[t] = "nested" /\ nested[t] = 0
    /\ pc' = [pc EXCEPT ![t] = "send"]
    /\ UNCHANGED <<conn, lock, wake, kind, nitz, nested, inner, ptr, lpc, cur, times, left>>

\* sendResponse succeeds when the client is there.
SendSucceeds(t) ==
    /\ pc[t] = "send" /\ conn = "open"
    /\ got' = IF kind[t] = "nitz" THEN Append(got, nitz[t]) ELSE got
    /\ \/ Wakes(kind[t]) /\ pc' = [pc EXCEPT ![t] = "cancel"] /\ UNCHANGED inner
       \/ ~Wakes(kind[t]) /\ Return(t)
    /\ UNCHANGED <<conn, lock, wake, kind, nitz, nested, ptr, lpc, cur, lastNITZ, left>>

\* It fails otherwise; a copy of a NITZ message is kept then.
SendFails(t) ==
    /\ pc[t] = "send" /\ conn # "open"
    /\ \/ /\ Wakes(kind[t])
          /\ pc' = [pc EXCEPT ![t] = IF kind[t] = "nitz" THEN "drop" ELSE "cancel"]
          /\ UNCHANGED inner
       \/ ~Wakes(kind[t]) /\ Return(t)
    /\ UNCHANGED <<conn, lock, wake, kind, nitz, nested, ptr, lpc, cur, times, left>>

\* The previous copy is freed, a new one allocated, and then written.
DropCopy(t) ==
    /\ pc[t] = "drop"
    /\ lastNITZ' = NULL
    /\ pc' = [pc EXCEPT ![t] = "allocate"]
    /\ UNCHANGED <<conn, lock, wake, kind, nitz, nested, inner, ptr, lpc, cur, got, left>>

AllocateCopy(t) ==
    /\ pc[t] = "allocate"
    /\ lastNITZ' = Torn
    /\ pc' = [pc EXCEPT ![t] = "copy"]
    /\ UNCHANGED <<conn, lock, wake, kind, nitz, nested, inner, ptr, lpc, cur, got, left>>

\* The loop may have freed the new copy already; then the bytes go to freed memory (or the
\* process dies, and nothing follows).
WriteCopy(t) ==
    /\ pc[t] = "copy"
    /\ lastNITZ' = IF lastNITZ = NULL THEN NULL ELSE nitz[t]
    /\ pc' = [pc EXCEPT ![t] = "cancel"]
    /\ UNCHANGED <<conn, lock, wake, kind, nitz, nested, inner, ptr, lpc, cur, got, left>>

\* The timer of the previous message is cancelled: its address is read ...
ReadLast(t) ==
    /\ pc[t] = "cancel"
    /\ ptr' = [ptr EXCEPT ![t] = last]
    /\ pc' = [pc EXCEPT ![t] = IF last = NULL THEN "timer" ELSE "mark"]
    /\ UNCHANGED <<conn, lock, wake, kind, nitz, nested, inner, lpc, cur, times, left>>

\* ... and its userParam written, whatever the address is used for by then.
MarkLast(t) ==
    /\ pc[t] = "mark"
    /\ cancelled' = [cancelled EXCEPT ![ptr[t]] = TRUE]
    /\ pc' = [pc EXCEPT ![t] = "timer"]
    /\ UNCHANGED <<conn, lock, timers, alloc, last, kind, nitz, nested, inner, ptr, lpc, cur,
                   times, left>>

\* Mutant: the timer is made with a parameter that is not NULL.
ScheduleCancelled(t) ==
    /\ pc[t] = "timer"
    /\ \E a \in Addrs \ alloc :
          /\ alloc' = alloc \cup {a}
          /\ cancelled' = [cancelled EXCEPT ![a] = TRUE]
          /\ timers' = timers \cup {a}
          /\ ptr' = [ptr EXCEPT ![t] = a]
    /\ pc' = [pc EXCEPT ![t] = "publish"]
    /\ UNCHANGED <<conn, lock, last, kind, nitz, nested, inner, lpc, cur, times, left>>

\* internalRequestTimedCallback.  RilEvent says when a timer expires; here any may be next.
Schedule(t) ==
    /\ pc[t] = "timer"
    /\ \E a \in Addrs \ alloc :
          /\ alloc' = alloc \cup {a}
          /\ cancelled' = [cancelled EXCEPT ![a] = FALSE]
          /\ timers' = timers \cup {a}
          /\ ptr' = [ptr EXCEPT ![t] = a]
    /\ pc' = [pc EXCEPT ![t] = "publish"]
    /\ UNCHANGED <<conn, lock, last, kind, nitz, nested, inner, lpc, cur, times, left>>

\* Its address is stored, though the timer may have run and been freed by then.
StoreLast(t) ==
    /\ pc[t] = "publish"
    /\ last' = ptr[t]
    /\ Return(t)
    /\ UNCHANGED <<conn, lock, timers, alloc, cancelled, kind, nitz, nested, ptr, lpc, cur,
                   times, left>>

UnsolStep(t) ==
    \/ MarshalFails(t) \/ Marshalled(t) \/ NestedBegins(t) \/ NestedDone(t)
    \/ SendSucceeds(t) \/ SendFails(t) \/ DropCopy(t) \/ AllocateCopy(t) \/ WriteCopy(t)
    \/ ReadLast(t) \/ MarkLast(t) \/ Schedule(t) \/ StoreLast(t)

-----------------------------------------------------------------------------
(* The event loop's thread: one callback at a time.                        *)

LoopIdle == lpc = "idle" /\ pc[Loop] = "idle"

\* listenCallback accepts a client, and onNewCommandConnect greets it ...
Connect ==
    /\ LoopIdle /\ conn = "none" /\ connLeft > 0
    /\ conn' = "open" /\ connLeft' = connLeft - 1
    /\ lpc' = "connected"
    /\ UNCHANGED <<lock, wake, thrs, cur, times, msgLeft>>

\* ... with RIL_CONNECTED and RADIO_STATE_CHANGED ...
Greet ==
    /\ \/ lpc = "connected" /\ Begin(Loop, "wake") /\ lpc' = "radio"
       \/ lpc = "radio" /\ Begin(Loop, "radio") /\ lpc' = "nitz"
    /\ UNCHANGED <<conn, wake, nitz, nested, inner, ptr, cur, times, left>>

\* ... and, if there is a copy of a NITZ message, ...
CheckCopy ==
    /\ lpc = "nitz" /\ pc[Loop] = "idle"
    /\ lpc' = IF lastNITZ = NULL THEN "idle" ELSE "send"
    /\ UNCHANGED <<conn, lock, wake, thrs, cur, times, left>>

\* ... sends it, whatever the copy holds by then, with no look at the outcome, ...
SendCopy ==
    /\ lpc = "send"
    /\ got' = IF conn # "open" THEN got
              ELSE Append(got, IF lastNITZ = NULL THEN Torn ELSE lastNITZ)
    /\ lpc' = "free"
    /\ UNCHANGED <<conn, lock, wake, thrs, cur, lastNITZ, left>>

\* Mutant: the copy is not forgotten once it is sent.
KeepCopy ==
    /\ lpc = "free"
    /\ lpc' = "idle"
    /\ UNCHANGED <<conn, lock, wake, thrs, cur, times, left>>

\* ... and frees it.
FreeCopy ==
    /\ lpc = "free"
    /\ lastNITZ' = NULL
    /\ lpc' = "idle"
    /\ UNCHANGED <<conn, lock, wake, thrs, cur, got, left>>

\* processCommandsCallback finds the end of the client's stream.
Disconnect ==
    /\ LoopIdle /\ conn = "closed"
    /\ conn' = "none"
    /\ UNCHANGED <<lock, wake, thrs, lpc, cur, times, left>>

\* Mutant: wakeTimeoutCallback tests its parameter the wrong way round.
TimeoutInverted ==
    /\ LoopIdle
    /\ \E a \in timers :
          /\ cur' = a /\ timers' = timers \ {a}
          /\ lpc' = IF cancelled[a] THEN "release" ELSE "called"
    /\ UNCHANGED <<conn, lock, alloc, cancelled, last, thrs, times, left>>

\* A timer expires: userTimerCallback reads userParam for wakeTimeoutCallback, which ...
Timeout ==
    /\ LoopIdle
    /\ \E a \in timers :
          /\ cur' = a /\ timers' = timers \ {a}
          /\ lpc' = IF cancelled[a] THEN "called" ELSE "release"
    /\ UNCHANGED <<conn, lock, alloc, cancelled, last, thrs, times, left>>

\* ... releases the lock if the timer was not cancelled.  Then userTimerCallback ...
Release ==
    /\ lpc = "release"
    /\ lock' = FALSE
    /\ lpc' = "called"
    /\ UNCHANGED <<conn, wake, thrs, cur, times, left>>

\* Mutant: the structure is freed before it is compared.
CompareFreed ==
    /\ lpc = "called"
    /\ alloc' = alloc \ {cur}
    /\ lpc' = IF last = cur THEN "clear" ELSE "freeInfo"
    /\ UNCHANGED <<conn, lock, timers, cancelled, last, thrs, cur, times, left>>

\* ... compares the structure with the last one, ...
CompareLast ==
    /\ lpc = "called"
    /\ lpc' = IF last = cur THEN "clear" ELSE "freeInfo"
    /\ UNCHANGED <<conn, lock, wake, thrs, cur, times, left>>

\* ... forgets the last one if they were the same, ...
ClearLast ==
    /\ lpc = "clear"
    /\ last' = NULL
    /\ lpc' = "freeInfo"
    /\ UNCHANGED <<conn, lock, timers, alloc, cancelled, thrs, cur, times, left>>

\* ... and frees the structure.
FreeInfo ==
    /\ lpc = "freeInfo"
    /\ alloc' = alloc \ {cur}
    /\ lpc' = "idle"
    /\ UNCHANGED <<conn, lock, timers, cancelled, last, thrs, cur, times, left>>

LoopStep ==
    \/ Greet \/ CheckCopy \/ SendCopy \/ FreeCopy \/ Disconnect
    \/ Timeout \/ Release \/ CompareLast \/ ClearLast \/ FreeInfo

\* The client closes its end.
ClientCloses ==
    /\ conn = "open"
    /\ conn' = "closed"
    /\ UNCHANGED <<lock, wake, thrs, lpc, cur, times, left>>

-----------------------------------------------------------------------------
Init ==
    /\ conn = "none" /\ lock = FALSE
    /\ timers = {} /\ alloc = {} /\ cancelled = [a \in Addrs |-> FALSE] /\ last = NULL
    /\ pc = [t \in Thr |-> "idle"] /\ kind = [t \in Thr |-> "wake"]
    /\ nitz = [t \in Thr |-> 0] /\ nested = [t \in Thr |-> 0]
    /\ inner = [t \in Thr |-> FALSE] /\ ptr = [t \in Thr |-> NULL]
    /\ lpc = "idle" /\ cur = NULL
    /\ lastNITZ = NULL /\ got = <<>>
    /\ msgLeft = MaxMsg /\ connLeft = MaxConn

Next ==
    \/ \E v \in Vendors : VendorBegins(v)
    \/ \E t \in Thr : UnsolStep(t)
    \/ LoopStep \/ Connect \/ ClientCloses

Spec == Init /\ [][Next]_vars

\* Threads that run go on running; an expired timer is called, since the loop waits for
\* the first of its list (RilEvent).  Nobody has to connect, to close or to send.
Fairness == WF_vars(LoopStep) /\ \A t \in Thr : WF_vars(UnsolStep(t))
FairSpec == Spec /\ Fairness

-----------------------------------------------------------------------------
TypeOK ==
    /\ conn \in {"none", "open", "closed"} /\ lock \in BOOLEAN
    /\ timers \subseteq Addrs /\ alloc \subseteq Addrs
    /\ cancelled \in [Addrs -> BOOLEAN] /\ last \in Addrs \cup {NULL}
    /\ pc \in [Thr -> {"idle", "marshal", "nested", "send", "drop", "allocate", "copy",
                       "cancel", "mark", "timer", "publish"}]
    /\ kind \in [Thr -> AllKinds] /\ nitz \in [Thr -> 0 .. MaxMsg]
    /\ nested \in [Thr -> 0 .. MaxNested] /\ inner \in [Thr -> BOOLEAN]
    /\ ptr \in [Thr -> Addrs \cup {NULL}]
    /\ lpc \in {"idle", "connected", "radio", "nitz", "send", "free",
                "release", "called", "clear", "freeInfo"}
    /\ cur \in Addrs \cup {NULL}
    /\ lastNITZ \in Nitz \cup {NULL, Torn} /\ got \in Seq(0 .. MaxMsg)
    /\ msgLeft \in 0 .. MaxMsg /\ connLeft \in 0 .. MaxConn

\* A thread that has taken the lock and has not yet made the timer that gives it back.
Owes(t) == pc[t] \notin {"idle", "publish"} /\ Wakes(kind[t])

\* The wake lock is never orphaned: while it is held, a thread has yet to make a timer, or
\* a timer that is not cancelled is in the list, or the loop is releasing it.  This keeps
\* the phone from staying awake for ever, though cancelling the previous timer
\* (RIL_onUnsolicitedResponse) may hit one that another message has made at the same
\* address in the meantime.
LockHasReleaser ==
    lock => \/ \E t \in Thr : Owes(t)
            \/ \E a \in timers : ~cancelled[a]
            \/ lpc = "release"

\* The structures in the timer list and the one userTimerCallback works on are live, and
\* the latter is in the list no more: it is freed once, after its only call.
TimersLive ==
    /\ timers \subseteq alloc
    /\ lpc \in {"release", "called", "clear", "freeInfo"} => cur \in alloc \ timers

\* A NITZ message reaches the client at most once: one that was delivered is not kept for
\* the next connection, and a copy is delivered to one connection.
NitzAtMostOnce ==
    \A i, j \in 1 .. Len(got) : got[i] = got[j] /\ got[i] # Torn => i = j

\* The lock is given back once no more messages come.
LockReleased == lock ~> ~lock

\* The wake lock taken for a message is held until RIL_onUnsolicitedResponse exits ("as we
\* exit we'll either release it immediately or set a timer to release it later").
LockHeldUntilExit == \A t \in Thr : Owes(t) => lock

\* A copy that is kept for a client is delivered to it when it is connected.
KeptIsDelivered ==
    \A n \in Nitz : (lastNITZ = n /\ conn = "open") ~> (lastNITZ # n \/ conn # "open")
=============================================================================
