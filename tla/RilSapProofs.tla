---------------------------- MODULE RilSapProofs ----------------------------
(***************************************************************************)
(* Proofs about RilSap: no wakeup is lost, every request is at one place,  *)
(* responses are written whole, and, as long as tokens differ, nothing is  *)
(* used that was freed.                                                    *)
(*                                                                         *)
(* The invariant puts together the types, that a thread exists once its    *)
(* connection was accepted, the place of each request by kind, who holds   *)
(* one, how far the response on each open connection is, and what is       *)
(* allocated for whom.                                                     *)
(***************************************************************************)
EXTENDS RilSap, TLAPS

USE SMTT(20), ZenonT(20)

(* The socket alone: the parts run steps it beside other components. *)
SapSpec == SapInit /\ [][SapNext]_sapVars

-----------------------------------------------------------------------------
(* Threads and dispatchQueue.                                              *)

(* What the variables range over. *)
Halves == {"half1", "half2"}
ResponseHalf == Nat \X Halves

ThreadPlaces == {"none", "dequeue", "waiting", "dispatch", "call"}
VendorPlaces == {"idle", "lock", "encoded", "half1", "half2", "close", "unlock", "remove", "free"}

(* What the variables hold. *)
SapTypeOK ==
    /\ commandFd \in SapFds \union {-1}
    /\ sapFile \in [SapFds -> 0 .. SapConns] /\ accepted \in 0 .. SapConns
    /\ loopAt \in {"listen", "serve", "closed", "killed"}
    /\ records \in [SapThreads -> Nat] /\ token \in Seq(Nat)
    /\ dispatchQueue \in Seq(Nat)
    /\ threadAt \in [SapThreads -> ThreadPlaces] /\ threadReq \in [SapThreads -> Nat]
    /\ withVendor \subseteq Nat /\ unsolSent \in Nat
    /\ vendorAt \in [SapVendors -> VendorPlaces] /\ vendorMsg \in [SapVendors -> Nat]
    /\ vendorFd \in [SapVendors -> SapFds \union {-1}]
    /\ written \in [SapThreads -> Seq(ResponseHalf)]

\* The threads that were started are there for ever.
Started ==
    /\ loopAt \in {"serve", "closed"} => accepted # 0
    /\ \A t \in SapThreads : threadAt[t] # "none" <=> t <= accepted

-----------------------------------------------------------------------------
(* The places of a request.                                                *)

AtQueue(r) == {i \in DOMAIN dispatchQueue : dispatchQueue[i] = r}
AtThread(r) == {t \in SapThreads : threadReq[t] = r}
AtVendor(r) == {r} \intersect withVendor
AtAnswer(r) == {v \in SapVendors : vendorMsg[v] = r}
AtDone(r) == {r} \intersect sapDone

\* Of the five sets one has an element, k, and that is the set of this kind.
OnePlace(queue, thread, vendor, answer, done, kind, k) ==
    /\ queue = IF kind = "queued" THEN {k} ELSE {}
    /\ thread = IF kind = "thread" THEN {k} ELSE {}
    /\ vendor = IF kind = "vendor" THEN {k} ELSE {}
    /\ answer = IF kind = "answer" THEN {k} ELSE {}
    /\ done = IF kind = "done" THEN {k} ELSE {}

(* The request has one place, k, of this kind. *)
Placed(r, kind, k) ==
    OnePlace(AtQueue(r), AtThread(r), AtVendor(r), AtAnswer(r), AtDone(r), kind, k)

Kinds == {"queued", "thread", "vendor", "answer", "done"}

(* Every request that was pushed has one place: what SapOnce says, by      *)
(* kind.                                                                   *)
SapPlaced ==
    \A r \in 1 .. Pushed : \E kind \in Kinds, k \in Int \union SapVendors : Placed(r, kind, k)

\* Who has a request in their hands, and that it is one that was pushed.
InHand ==
    /\ \A t \in SapThreads : threadReq[t] # 0 <=> threadAt[t] \in {"dispatch", "call"}
    /\ \A v \in SapVendors : vendorAt[v] = "idle" => vendorMsg[v] = Unsolicited
    /\ \A v \in SapVendors : vendorAt[v] = "free" => vendorMsg[v] # Unsolicited

(* A request that is somewhere was pushed. *)
Known ==
    /\ \A i \in DOMAIN dispatchQueue : dispatchQueue[i] \in 1 .. Pushed
    /\ \A t \in SapThreads : threadReq[t] \in 0 .. Pushed
    /\ withVendor \subseteq 1 .. Pushed
    /\ \A v \in SapVendors : vendorMsg[v] \in 0 .. Pushed
    /\ sapDone \subseteq 1 .. Pushed

-----------------------------------------------------------------------------
(* Memory.                                                                 *)

\* Who a SapSocketRequest is kept for: the thread that made it and calls the vendor
\* library, that library, or its thread that has not looked for it yet.
CallsWith(r) == \E t \in SapThreads : threadAt[t] = "call" /\ threadReq[t] = r
AnswersWith(r) == \E v \in SapVendors : vendorAt[v] \in BeforeRemove /\ vendorMsg[v] = r
Awaited(r) == CallsWith(r) \/ r \in withVendor \/ AnswersWith(r)

(* No request is in a queue twice. *)
Apart(q) == \A i, j \in DOMAIN q : q[i] = q[j] => i = j

\* A client that goes on counting gives each request a token of its own; then a request is at one
\* place of pendingQueue while somebody has it, and its header lives until it is done.
SapMemoryOK ==
    /\ \A r \in 1 .. Pushed : token[r] = r
    /\ liveHdr = (1 .. Pushed) \ sapDone
    /\ pendingQueue \in Seq(Nat) /\ Entries(pendingQueue) = liveReq
    /\ Apart(pendingQueue)
    /\ liveReq = {r \in 1 .. Pushed : Awaited(r)}

-----------------------------------------------------------------------------
(* Responses.                                                              *)

Inside == {"encoded", "half1", "half2", "close", "unlock"}
(* Who is between taking write_lock and releasing it holds it. *)
SapLocked == \A v \in SapVendors : vendorAt[v] \in Inside => writeLock = {v}

\* Connections have descriptors of their own, and those to come were not written to.
SapFresh ==
    /\ \A f \in SapFds : sapFile[f] <= accepted
    /\ \A f, g \in SapFds : sapFile[f] = sapFile[g] /\ sapFile[f] # Closed => f = g
    /\ \A c \in SapThreads : c > accepted => written[c] = <<>>

(* The last half written to a stream. *)
EndOf(s) == s[Len(s)]

\* A response is unfinished on an open connection only while its sender is about to write
\* the rest or to close the descriptor.
HalfWay(v, f) ==
    /\ vendorAt[v] \in {"half2", "close"} /\ vendorFd[v] = f
    /\ EndOf(written[sapFile[f]]) = <<vendorMsg[v], "half1">>

SapBegun ==
    /\ \A f \in SapFds : /\ sapFile[f] # Closed
                         /\ written[sapFile[f]] # <<>>
                         /\ EndOf(written[sapFile[f]])[2] = "half1"
                         => \E v \in SapVendors : HalfWay(v, f)
    /\ \A v \in SapVendors :
         /\ vendorAt[v] = "half2" /\ vendorFd[v] \in SapFds /\ sapFile[vendorFd[v]] # Closed
         /\ written[sapFile[vendorFd[v]]] # <<>>
         => HalfWay(v, vendorFd[v])

(* What the two halves of a response rest on. *)
SapResponses == SapLocked /\ SapFresh /\ SapBegun /\ SapWhole

(* The inductive invariant. *)
SapIInv ==
    /\ SapTypeOK /\ Started /\ SapAwake /\ SapPlaced /\ InHand /\ Known
    /\ SapResponses
    /\ ~TokensRestart => SapMemoryOK

-----------------------------------------------------------------------------
(* Types.                                                                  *)

(* The state RilSapSocket starts in has its types. *)
LEMMA SapTypesStart == ASSUME SapInit PROVE SapTypeOK
  BY SapAssumption DEF SapInit, SapTypeOK, ThreadPlaces, VendorPlaces, SapThreads, Closed,
     Unsolicited

(* VendorGoes moves one thread of the vendor library and no other. *)
LEMMA VendorGoesLaw ==
    ASSUME vendorAt \in [SapVendors -> VendorPlaces], NEW v \in SapVendors,
           NEW place \in VendorPlaces, VendorGoes(v, place)
    PROVE  /\ vendorAt' \in [SapVendors -> VendorPlaces] /\ vendorAt'[v] = place
           /\ \A w \in SapVendors \ {v} : vendorAt'[w] = vendorAt[w]
  BY Zenon DEF VendorGoes

(* Ril_queue.enqueue links the request in front: the others go one place   *)
(* back.                                                                   *)
LEMMA EnqueueLaw ==
    ASSUME NEW q \in Seq(Nat), NEW r \in Nat
    PROVE  /\ Enqueue(q, r) \in Seq(Nat) /\ Len(Enqueue(q, r)) = Len(q) + 1
           /\ Enqueue(q, r)[1] = r
           /\ \A i \in 1 .. Len(q) : Enqueue(q, r)[i + 1] = q[i]
  BY DEF Enqueue

(* Ril_queue.dequeue takes the front entry and leaves the others in their  *)
(* order.                                                                  *)
LEMMA TailLaw ==
    ASSUME NEW q \in Seq(Nat), q # <<>>
    PROVE  /\ Tail(q) \in Seq(Nat) /\ Len(Tail(q)) = Len(q) - 1 /\ Len(q) \in Nat \ {0}
           /\ Head(q) = q[1] /\ Head(q) \in Nat
           /\ \A i \in 1 .. Len(q) - 1 : Tail(q)[i] = q[i + 1]
  OBVIOUS

(* checkAndDequeue takes one entry out: those behind it move up. *)
LEMMA UnlinkLaw ==
    ASSUME NEW q \in Seq(Nat), NEW i \in 1 .. Len(q)
    PROVE  /\ Unlink(q, i) \in Seq(Nat) /\ Len(Unlink(q, i)) = Len(q) - 1
           /\ \A j \in 1 .. Len(q) - 1 : Unlink(q, i)[j] = IF j < i THEN q[j] ELSE q[j + 1]
  <1> DEFINE a == SubSeq(q, 1, i - 1)
             b == SubSeq(q, i + 1, Len(q))
             c == a \o b
  <1>1. a \in Seq(Nat) /\ Len(a) = i - 1 /\ \A j \in 1 .. i - 1 : a[j] = q[j]
    OBVIOUS
  <1>2. /\ b \in Seq(Nat) /\ Len(b) = Len(q) - i
        /\ \A j \in 1 .. Len(q) - i : b[j] = q[j + i]
    OBVIOUS
  <1>3. Unlink(q, i) = c /\ Len(q) \in Nat
    BY DEF Unlink
  <1> HIDE DEF a, b
  <1>4. a \in Seq(Nat) /\ b \in Seq(Nat)
    BY Zenon, <1>1, <1>2
  <1>5. /\ c \in Seq(Nat) /\ Len(c) = Len(a) + Len(b)
        /\ \A j \in 1 .. Len(a) : c[j] = a[j]
        /\ \A j \in Len(a) + 1 .. Len(a) + Len(b) : c[j] = b[j - Len(a)]
    BY <1>4
  <1> HIDE DEF c
  <1>6. ASSUME NEW j \in 1 .. Len(q) - 1
        PROVE  c[j] = IF j < i THEN q[j] ELSE q[j + 1]
    <2>1. CASE j < i
      <3>1. j \in 1 .. i - 1
        BY <2>1
      <3> QED
        BY Zenon, <1>1, <1>5, <2>1, <3>1
    <2>2. CASE ~(j < i)
      <3>1. /\ j \in Len(a) + 1 .. Len(a) + Len(b) /\ j - Len(a) \in 1 .. Len(q) - i
            /\ (j - Len(a)) + i = j + 1
        BY <1>1, <1>2, <1>3, <2>2
      <3> QED
        BY Zenon, <1>2, <1>5, <2>2, <3>1
    <2> QED
      BY Zenon, <2>1, <2>2
  <1>7. Len(c) = Len(q) - 1
    BY <1>1, <1>2, <1>3, <1>5
  <1> QED
    BY Zenon, <1>3, <1>5, <1>6, <1>7

(* What a write adds to a connection is at its end. *)
LEMMA AppendLaw ==
    ASSUME NEW S, NEW s \in Seq(S), NEW x \in S
    PROVE  /\ Append(s, x) \in Seq(S) /\ Len(Append(s, x)) = Len(s) + 1 /\ Len(s) \in Nat
           /\ \A i \in 1 .. Len(s) : Append(s, x)[i] = s[i]
           /\ Append(s, x)[Len(s) + 1] = x
  OBVIOUS

(* Every step keeps the types. *)
LEMMA SapTypesKept == ASSUME SapTypeOK, SapNext, Started PROVE SapTypeOK'
  <1>1. CASE SapAccept
    <2>1. PICK f \in SapFds : sapFile' = [sapFile EXCEPT ![f] = accepted + 1] /\ commandFd' = f
      BY Zenon, <1>1 DEF SapAccept
    <2>2. /\ accepted' = accepted + 1 /\ accepted + 1 \in 0 .. SapConns
          /\ sapFile' \in [SapFds -> 0 .. SapConns]
      BY <1>1, <2>1, SapAssumption DEF SapAccept, SapTypeOK
    <2>3. threadAt' \in [SapThreads -> ThreadPlaces] /\ loopAt' = "serve"
      BY Zenon, <1>1 DEF SapAccept, SapTypeOK, ThreadPlaces
    <2>4. UNCHANGED <<records, sapQueues, threadReq, sapRadio, sapSenders>>
      BY Zenon, <1>1 DEF SapAccept
    <2> QED
      BY Zenon, <2>1, <2>2, <2>3, <2>4 DEF SapTypeOK, sapQueues, sapRadio, sapSenders
  <1>2. CASE PushRecord
    <2>1. accepted \in SapThreads
      BY <1>2 DEF PushRecord, Started, SapTypeOK, SapThreads
    <2>2. records' \in [SapThreads -> Nat] /\ token' \in Seq(Nat) /\ Pushed + 1 \in Nat
      BY <1>2, <2>1 DEF PushRecord, SapTypeOK, Pushed
    <2>3. dispatchQueue' \in Seq(Nat)
      BY Zenon, <1>2, <2>2, EnqueueLaw DEF PushRecord, SapTypeOK
    <2>4. threadAt' \in [SapThreads -> ThreadPlaces]
      BY Zenon, <1>2 DEF PushRecord, SapTypeOK, Broadcast, ThreadPlaces
    <2> QED
      <3>1. UNCHANGED <<commandFd, sapFile, accepted, loopAt, threadReq, sapRadio, sapSenders>>
        BY Zenon, <1>2 DEF PushRecord
      <3> QED
        BY Zenon, <2>2, <2>3, <2>4, <3>1 DEF SapTypeOK, sapRadio, sapSenders
  <1>3. CASE SapClose \/ SapForget \/ SapKilled
    <2>1. sapFile' \in [SapFds -> 0 .. SapConns]
      <3>1. sapFile' = sapFile \/ sapFile' = [sapFile EXCEPT ![commandFd] = Closed]
        BY Zenon, <1>3 DEF SapClose, SapForget, SapKilled
      <3>2. Closed \in 0 .. SapConns
        BY SapAssumption DEF Closed
      <3> QED
        BY Zenon, <3>1, <3>2 DEF SapTypeOK
    <2>2. /\ commandFd' \in SapFds \union {-1}
          /\ loopAt' \in {"listen", "serve", "closed", "killed"}
      BY Zenon, <1>3 DEF SapClose, SapForget, SapKilled, SapTypeOK
    <2>3. UNCHANGED <<accepted, records, sapQueues, sapThreads, sapRadio, sapSenders>>
      BY Zenon, <1>3 DEF SapClose, SapForget, SapKilled
    <2> QED
      BY Zenon, <2>1, <2>2, <2>3 DEF SapTypeOK, sapQueues, sapThreads, sapRadio, sapSenders
  <1>4. ASSUME NEW t \in SapThreads, Dequeue(t) PROVE SapTypeOK'
    <2>1. threadAt' \in [SapThreads -> ThreadPlaces]
      BY Zenon, <1>4 DEF Dequeue, SapTypeOK, ThreadPlaces
    <2>2. dispatchQueue' \in Seq(Nat) /\ threadReq' \in [SapThreads -> Nat]
      BY Zenon, <1>4, TailLaw DEF Dequeue, SapTypeOK
    <2> QED
      BY Zenon, <1>4, <2>1, <2>2 DEF Dequeue, SapTypeOK, sapSocket, sapRadio, sapSenders
  <1>5. ASSUME NEW t \in SapThreads, DispatchRequest(t) PROVE SapTypeOK'
    <2>1. threadAt' \in [SapThreads -> ThreadPlaces]
      BY Zenon, <1>5 DEF DispatchRequest, SapTypeOK, ThreadPlaces
    <2> QED
      BY Zenon, <1>5, <2>1 DEF DispatchRequest, SapTypeOK, sapSocket, sapRadio, sapSenders
  <1>6. ASSUME NEW t \in SapThreads, CallOnRequest(t) PROVE SapTypeOK'
    <2>1. threadAt' \in [SapThreads -> ThreadPlaces] /\ threadReq' \in [SapThreads -> Nat]
      BY Zenon, <1>6 DEF CallOnRequest, SapTypeOK, ThreadPlaces
    <2>2. withVendor' \subseteq Nat
      BY Zenon, <1>6 DEF CallOnRequest, SapTypeOK
    <2>3. UNCHANGED <<sapSocket, sapQueues, unsolSent, sapSenders>>
      BY Zenon, <1>6 DEF CallOnRequest
    <2> QED
      BY Zenon, <2>1, <2>2, <2>3 DEF SapTypeOK, sapSocket, sapQueues, sapSenders
  <1>7. ASSUME NEW v \in SapVendors, SapComplete(v) \/ SapUnsolicited(v) PROVE SapTypeOK'
    <2>1. vendorAt' \in [SapVendors -> VendorPlaces]
      BY Zenon, <1>7 DEF SapComplete, SapUnsolicited, VendorGoes, SapTypeOK, VendorPlaces
    <2>2. vendorMsg' \in [SapVendors -> Nat] /\ withVendor' \subseteq Nat /\ unsolSent' \in Nat
      <3>1. CASE SapComplete(v)
        <4>1. PICK r \in withVendor : /\ vendorMsg' = [vendorMsg EXCEPT ![v] = r]
                                       /\ withVendor' = withVendor \ {r} /\ unsolSent' = unsolSent
          BY Zenon, <3>1 DEF SapComplete
        <4> QED
          BY Zenon, <4>1 DEF SapTypeOK
      <3>2. CASE SapUnsolicited(v)
        BY <3>2 DEF SapUnsolicited, SapTypeOK, Unsolicited
      <3> QED
        BY Zenon, <1>7, <3>1, <3>2
    <2>3. UNCHANGED <<sapSocket, sapQueues, sapThreads, vendorFd, writeLock, written>>
      BY Zenon, <1>7 DEF SapComplete, SapUnsolicited
    <2> QED
      BY Zenon, <2>1, <2>2, <2>3 DEF SapTypeOK, sapSocket, sapQueues, sapThreads
  <1>8. ASSUME NEW v \in SapVendors, SapLock(v) \/ SapReadFd(v) \/ SapUnlock(v) PROVE SapTypeOK'
    <2>1. vendorAt' \in [SapVendors -> VendorPlaces]
      BY Zenon, <1>8 DEF SapLock, SapReadFd, SapUnlock, VendorGoes, SapTypeOK, VendorPlaces
    <2>2. vendorFd' \in [SapVendors -> SapFds \union {-1}]
      BY Zenon, <1>8 DEF SapLock, SapReadFd, SapUnlock, SapTypeOK
    <2>3. UNCHANGED <<sapSocket, sapQueues, sapThreads, sapRadio, vendorMsg, written>>
      BY Zenon, <1>8 DEF SapLock, SapReadFd, SapUnlock
    <2> QED
      BY Zenon, <2>1, <2>2, <2>3 DEF SapTypeOK, sapSocket, sapQueues, sapThreads, sapRadio
  <1>9. ASSUME NEW v \in SapVendors, SapWrite(v) PROVE SapTypeOK'
    <2>1. vendorAt' \in [SapVendors -> VendorPlaces]
      BY Zenon, <1>9 DEF SapWrite, VendorGoes, SapTypeOK, VendorPlaces
    <2>2. <<vendorMsg[v], vendorAt[v]>> \in ResponseHalf
      BY Zenon, <1>9 DEF SapWrite, SapTypeOK, ResponseHalf, Halves
    <2>3. written' \in [SapThreads -> Seq(ResponseHalf)]
      <3>1. CASE IsOpen(vendorFd[v])
        <4>1. sapFile[vendorFd[v]] \in SapThreads
          BY <3>1, SapAssumption DEF SapTypeOK, IsOpen, Closed, SapThreads
        <4> HIDE DEF SapThreads
        <4> QED
          <5> DEFINE c == sapFile[vendorFd[v]]
                     S == ResponseHalf
                     x == <<vendorMsg[v], vendorAt[v]>>
          <5>1. written' = written \/ written' = [written EXCEPT ![c] = Append(@, x)]
            BY Zenon, <1>9 DEF SapWrite
          <5>2. written \in [SapThreads -> Seq(S)] /\ x \in S /\ c \in SapThreads
            BY Zenon, <2>2, <4>1 DEF SapTypeOK
          <5> HIDE DEF S, x, c
          <5>3. written' \in [SapThreads -> Seq(S)]
            <6>1. Append(written[c], x) \in Seq(S)
              BY Zenon, <5>2, AppendLaw
            <6> QED
              BY Zenon, <5>1, <5>2, <6>1
          <5> QED
            BY Zenon, <5>3 DEF S
      <3>2. CASE ~IsOpen(vendorFd[v])
        BY Zenon, <1>9, <3>2 DEF SapWrite, SapTypeOK
      <3> QED
        BY Zenon, <3>1, <3>2
    <2> QED
      BY Zenon, <1>9, <2>1, <2>3 DEF SapWrite, SapTypeOK, sapSocket, sapQueues, sapThreads,
         sapRadio
  <1>10. ASSUME NEW v \in SapVendors, SapCloseFd(v) PROVE SapTypeOK'
    BY <1>10, SapAssumption DEF SapCloseFd, VendorGoes, SapTypeOK, VendorPlaces, Closed,
       sapQueues, sapThreads,
       sapRadio
  <1>11. ASSUME NEW v \in SapVendors, CheckAndDequeue(v) PROVE SapTypeOK'
    <2>1. vendorAt' \in [SapVendors -> VendorPlaces]
      BY Zenon, <1>11 DEF CheckAndDequeue, VendorGoes, SapTypeOK, VendorPlaces
    <2> QED
      BY Zenon, <1>11, <2>1 DEF CheckAndDequeue, SapTypeOK, sapSocket, sapThreads, sapRadio
  <1>12. ASSUME NEW v \in SapVendors, FreeHeader(v) PROVE SapTypeOK'
    BY Zenon, <1>12 DEF FreeHeader, VendorGoes, SapTypeOK, VendorPlaces, Unsolicited,
       sapSocket, sapQueues,
       sapThreads, sapRadio
  <1> QED
    BY Zenon, <1>1, <1>2, <1>3, <1>4, <1>5, <1>6, <1>7, <1>8, <1>9, <1>10, <1>11, <1>12
       DEF SapNext, SapLoop, SapThread, SapVendor

-----------------------------------------------------------------------------
(* Somebody is awake.                                                      *)

(* At the start nothing is queued, so nobody need be awake. *)
LEMMA AwakeStart == ASSUME SapInit PROVE Started /\ SapAwake
  BY DEF SapInit, Started, SapAwake, SapThreads

(* enqueue signals the condition, and a thread that dequeues looks at the  *)
(* queue again before it waits: no step leaves a queued request with every *)
(* thread asleep.                                                          *)
LEMMA AwakeKept ==
    ASSUME SapTypeOK, Started, SapAwake, SapNext PROVE Started' /\ SapAwake'
  <1>1. CASE SapAccept
    <2>1. /\ accepted' = accepted + 1 /\ accepted + 1 \in SapThreads /\ loopAt' = "serve"
          /\ threadAt' = [threadAt EXCEPT ![accepted + 1] = "dequeue"]
          /\ dispatchQueue' = dispatchQueue
      BY <1>1, SapAssumption DEF SapAccept, SapTypeOK, SapThreads, sapQueues
    <2>2. /\ threadAt'[accepted + 1] = "dequeue"
          /\ \A t \in SapThreads : t # accepted + 1 => threadAt'[t] = threadAt[t]
      BY Zenon, <2>1 DEF SapTypeOK
    <2>3. Started'
      BY <2>1, <2>2 DEF Started, SapTypeOK, SapThreads
    <2>4. SapAwake'
      BY Zenon, <2>1, <2>2 DEF SapAwake
    <2> QED
      BY Zenon, <2>3, <2>4
  <1>2. CASE PushRecord
    <2>1. /\ accepted' = accepted /\ loopAt' = loopAt /\ threadAt' = Broadcast(threadAt)
          /\ loopAt = "serve"
      BY Zenon, <1>2 DEF PushRecord
    <2>2. /\ \A t \in SapThreads : threadAt'[t] # "waiting"
          /\ \A t \in SapThreads : threadAt'[t] = "none" <=> threadAt[t] = "none"
      BY Zenon, <2>1 DEF Broadcast
    <2>3. accepted \in SapThreads
      BY <2>1 DEF Started, SapTypeOK, SapThreads
    <2>4. threadAt'[accepted] \notin {"none", "waiting"}
      BY <2>2, <2>3 DEF Started, SapThreads
    <2>5. SapAwake'
      BY Zenon, <2>3, <2>4 DEF SapAwake
    <2>6. Started'
      BY Zenon, <2>1, <2>2 DEF Started
    <2> QED
      BY Zenon, <2>5, <2>6
  <1>3. CASE SapClose \/ SapForget \/ SapKilled
    <2>1. /\ UNCHANGED <<accepted, dispatchQueue, threadAt>>
          /\ loopAt' \in {"serve", "closed"} => loopAt \in {"serve", "closed"}
      BY Zenon, <1>3 DEF SapClose, SapForget, SapKilled, sapQueues, sapThreads
    <2> QED
      BY Zenon, <2>1 DEF Started, SapAwake
  <1>4. ASSUME NEW t \in SapThreads, SapThread(t) PROVE Started' /\ SapAwake'
    <2>1. /\ UNCHANGED <<accepted, loopAt>> /\ threadAt[t] # "none" /\ threadAt'[t] # "none"
          /\ threadAt'[t] = "waiting" => dispatchQueue' = <<>>
          /\ \A u \in SapThreads \ {t} : threadAt'[u] = threadAt[u]
      BY Zenon, <1>4 DEF SapThread, Dequeue, DispatchRequest, CallOnRequest, SapTypeOK,
         sapSocket
    <2>2. Started'
      BY Zenon, <2>1 DEF Started
    <2>3. SapAwake'
      BY Zenon, <2>1 DEF SapAwake
    <2> QED
      BY Zenon, <2>2, <2>3
  <1>5. ASSUME NEW v \in SapVendors, SapVendor(v) PROVE Started' /\ SapAwake'
    <2>1. UNCHANGED <<accepted, loopAt, dispatchQueue, threadAt>>
      BY Zenon, <1>5 DEF SapVendor, SapComplete, SapUnsolicited, SapLock, SapReadFd, SapWrite,
         SapCloseFd, SapUnlock, CheckAndDequeue, FreeHeader, sapSocket, sapQueues, sapThreads
    <2> QED
      BY Zenon, <2>1 DEF Started, SapAwake
  <1> QED
    BY Zenon, <1>1, <1>2, <1>3, <1>4, <1>5 DEF SapNext, SapLoop

-----------------------------------------------------------------------------
(* A request is at one place.                                              *)

(* Requests are numbered from 1; 0 stands for none. *)
LEMMA PushedLaw == ASSUME SapTypeOK PROVE Pushed \in Nat /\ 1 .. Pushed \subseteq Nat /\ 0 \notin 1 .. Pushed
  BY DEF Pushed, SapTypeOK

(* A request found in dispatchQueue is there once and nowhere else. *)
LEMMA FoundQueued ==
    ASSUME SapPlaced, NEW r \in 1 .. Pushed, NEW k \in AtQueue(r)
    PROVE  /\ AtQueue(r) = {k} /\ AtThread(r) = {} /\ AtVendor(r) = {}
           /\ AtAnswer(r) = {} /\ AtDone(r) = {}
  BY DEF SapPlaced, Placed, OnePlace

(* A request found with a dispatch thread is with that one and nowhere     *)
(* else.                                                                   *)
LEMMA FoundThread ==
    ASSUME SapPlaced, NEW r \in 1 .. Pushed, NEW k \in AtThread(r)
    PROVE  /\ AtQueue(r) = {} /\ AtThread(r) = {k} /\ AtVendor(r) = {}
           /\ AtAnswer(r) = {} /\ AtDone(r) = {}
  BY DEF SapPlaced, Placed, OnePlace

(* A request found with the vendor library is nowhere else. *)
LEMMA FoundVendor ==
    ASSUME SapPlaced, NEW r \in 1 .. Pushed, NEW k \in AtVendor(r)
    PROVE  /\ AtQueue(r) = {} /\ AtThread(r) = {} /\ AtVendor(r) = {k}
           /\ AtAnswer(r) = {} /\ AtDone(r) = {}
  BY DEF SapPlaced, Placed, OnePlace

(* A request a vendor thread answers is with that thread and nowhere else. *)
LEMMA FoundAnswer ==
    ASSUME SapPlaced, NEW r \in 1 .. Pushed, NEW k \in AtAnswer(r)
    PROVE  /\ AtQueue(r) = {} /\ AtThread(r) = {} /\ AtVendor(r) = {}
           /\ AtAnswer(r) = {k} /\ AtDone(r) = {}
  BY DEF SapPlaced, Placed, OnePlace

(* A request that was freed is nowhere else. *)
LEMMA FoundDone ==
    ASSUME SapPlaced, NEW r \in 1 .. Pushed, NEW k \in AtDone(r)
    PROVE  /\ AtQueue(r) = {} /\ AtThread(r) = {} /\ AtVendor(r) = {}
           /\ AtAnswer(r) = {} /\ AtDone(r) = {k}
  BY DEF SapPlaced, Placed, OnePlace

(* One place, in dispatchQueue, is a place of that kind. *)
LEMMA PlaceQueued == ASSUME NEW k PROVE OnePlace({k}, {}, {}, {}, {}, "queued", k) /\ "queued" \in Kinds
  BY Zenon DEF OnePlace, Kinds

(* One place, with a dispatch thread, is a place of that kind. *)
LEMMA PlaceThread == ASSUME NEW k PROVE OnePlace({}, {k}, {}, {}, {}, "thread", k) /\ "thread" \in Kinds
  BY Zenon DEF OnePlace, Kinds

(* One place, with the vendor library, is a place of that kind. *)
LEMMA PlaceVendor == ASSUME NEW k PROVE OnePlace({}, {}, {k}, {}, {}, "vendor", k) /\ "vendor" \in Kinds
  BY Zenon DEF OnePlace, Kinds

(* One place, in an answer, is a place of that kind. *)
LEMMA PlaceAnswer == ASSUME NEW k PROVE OnePlace({}, {}, {}, {k}, {}, "answer", k) /\ "answer" \in Kinds
  BY Zenon DEF OnePlace, Kinds

(* One place, among the requests that were freed, is a place of that kind. *)
LEMMA PlaceDone == ASSUME NEW k PROVE OnePlace({}, {}, {}, {}, {k}, "done", k) /\ "done" \in Kinds
  BY Zenon DEF OnePlace, Kinds

(* A request's places other than those in dispatchQueue stay as they are. *)
Outside(r) ==
    /\ AtThread(r)' = AtThread(r) /\ AtVendor(r)' = AtVendor(r)
    /\ AtAnswer(r)' = AtAnswer(r) /\ AtDone(r)' = AtDone(r)

(* A request none of whose places a step touches still has one. *)
LEMMA OthersPlacedStill ==
    ASSUME SapPlaced, NEW r \in 1 .. Pushed, Outside(r), AtQueue(r)' = AtQueue(r)
    PROVE  \E kind \in Kinds, k \in Int \union SapVendors : Placed(r, kind, k)'
  <1>1. PICK kind \in Kinds, k \in Int \union SapVendors : Placed(r, kind, k)
    BY Zenon DEF SapPlaced
  <1>2. Placed(r, kind, k)'
    BY Zenon, <1>1 DEF Placed, Outside
  <1> QED
    BY Zenon, <1>2

(* A request whose entry moves n places in dispatchQueue still has one     *)
(* place.                                                                  *)
LEMMA QueueMoves ==
    ASSUME SapTypeOK, SapTypeOK', SapPlaced, NEW r \in 1 .. Pushed, Outside(r), NEW n \in Int,
           \A i \in Int : i \in AtQueue(r)' <=> i - n \in AtQueue(r)
    PROVE  \E kind \in Kinds, k \in Int \union SapVendors : Placed(r, kind, k)'
  <1>1. PICK kind \in Kinds, k \in Int \union SapVendors : Placed(r, kind, k)
    BY Zenon DEF SapPlaced
  <1>2. AtQueue(r) \subseteq Int /\ AtQueue(r)' \subseteq Int
    BY DEF AtQueue, SapTypeOK
  <1>3. CASE kind = "queued"
    <2>1. /\ AtQueue(r) = {k} /\ AtThread(r) = {} /\ AtVendor(r) = {}
          /\ AtAnswer(r) = {} /\ AtDone(r) = {}
      BY Zenon, <1>1, <1>3 DEF Placed, OnePlace
    <2>2. k \in Int
      BY Zenon, <1>2, <2>1
    <2>3. AtQueue(r)' = {k + n}
      BY <1>2, <2>1, <2>2
    <2>4. Placed(r, "queued", k + n)'
      <3>1. /\ AtThread(r)' = {} /\ AtVendor(r)' = {} /\ AtAnswer(r)' = {} /\ AtDone(r)' = {}
        BY Zenon, <2>1 DEF Outside
      <3> QED
        BY Zenon, <2>3, <3>1, PlaceQueued DEF Placed
    <2>5. k + n \in Int \union SapVendors /\ "queued" \in Kinds
      BY <2>2 DEF Kinds
    <2> QED
      BY Zenon, <2>4, <2>5
  <1>4. CASE kind # "queued"
    <2>1. AtQueue(r) = {}
      BY Zenon, <1>1, <1>4 DEF Placed, OnePlace
    <2>2. AtQueue(r)' = {}
      BY Zenon, <1>2, <2>1
    <2> QED
      BY Zenon, <2>1, <2>2, OthersPlacedStill
  <1> QED
    BY Zenon, <1>3, <1>4

(* At the start no request was pushed. *)
LEMMA PlacedStart == ASSUME SapInit PROVE SapPlaced /\ InHand /\ Known
  BY DEF SapInit, SapPlaced, InHand, Known, Pushed, Unsolicited

(* A step that moves no request leaves every request its place. *)
LEMMA PlacesAlone ==
    ASSUME SapPlaced, Known,
           UNCHANGED <<token, dispatchQueue, threadReq, withVendor, vendorMsg, sapDone>>
    PROVE  SapPlaced' /\ Known'
  <1>1. Known'
    BY Zenon DEF Known, Pushed
  <1>2. SapPlaced'
    <2>1. Pushed' = Pushed
      BY Zenon DEF Pushed
    <2>2. \A r : /\ AtQueue(r)' = AtQueue(r) /\ AtThread(r)' = AtThread(r) /\ AtVendor(r)' = AtVendor(r)
                 /\ AtAnswer(r)' = AtAnswer(r) /\ AtDone(r)' = AtDone(r)
      BY Zenon DEF AtQueue, AtThread, AtVendor, AtAnswer, AtDone
    <2> QED
      BY Zenon, <2>1, <2>2 DEF SapPlaced, Placed
  <1> QED
    BY Zenon, <1>1, <1>2

(* pushRecord puts the new request in dispatchQueue, the others one place  *)
(* back.                                                                   *)
LEMMA PlacedPush ==
    ASSUME SapTypeOK, SapTypeOK', SapPlaced, Known, PushRecord
    PROVE  SapPlaced' /\ Known'
  <1> DEFINE n == Pushed + 1
  <1>1. /\ dispatchQueue' = Enqueue(dispatchQueue, n) /\ Len(token') = Len(token) + 1
        /\ UNCHANGED <<threadReq, withVendor, vendorMsg, sapDone>>
    <2>1. \E x : token' = Append(token, x)
      BY Zenon DEF PushRecord
    <2> QED
      BY <2>1 DEF PushRecord, SapTypeOK, sapRadio, sapSenders
  <1>2. Pushed' = n /\ Pushed \in Nat /\ n \in Nat /\ n # 0
    BY <1>1 DEF Pushed, SapTypeOK
  <1>3. /\ Len(dispatchQueue') = Len(dispatchQueue) + 1 /\ dispatchQueue'[1] = n
        /\ \A i \in 1 .. Len(dispatchQueue) : dispatchQueue'[i + 1] = dispatchQueue[i]
    <2>1. dispatchQueue \in Seq(Nat)
      BY Zenon DEF SapTypeOK
    <2> QED
      BY Zenon, <1>1, <1>2, <2>1, EnqueueLaw
  <1> HIDE DEF n
  <1>4. /\ Len(dispatchQueue) \in Nat /\ DOMAIN dispatchQueue = 1 .. Len(dispatchQueue)
        /\ DOMAIN dispatchQueue' = 1 .. Len(dispatchQueue) + 1
    BY <1>3 DEF SapTypeOK
  <1>5. n = Pushed + 1
    BY Zenon DEF n
  <1>6. Known'
    <2>1. \A i \in DOMAIN dispatchQueue' : dispatchQueue'[i] \in 1 .. Pushed'
      <3> SUFFICES ASSUME NEW i \in 1 .. Len(dispatchQueue) + 1
                   PROVE  dispatchQueue'[i] \in 1 .. n
        BY Zenon, <1>2, <1>4
      <3>1. CASE i = 1
        BY <1>2, <1>3, <1>5, <3>1
      <3>2. CASE i # 1
        <4>1. i - 1 \in 1 .. Len(dispatchQueue) /\ (i - 1) + 1 = i
          BY <1>4, <3>2
        <4>2. dispatchQueue'[i] = dispatchQueue[i - 1] /\ dispatchQueue[i - 1] \in 1 .. Pushed
          BY Zenon, <1>3, <1>4, <4>1 DEF Known
        <4> QED
          BY <1>2, <1>5, <4>2
      <3> QED
        BY Zenon, <3>1, <3>2
    <2>2. 1 .. Pushed \subseteq 1 .. Pushed' /\ 0 .. Pushed \subseteq 0 .. Pushed'
      BY <1>2, <1>5
    <2> QED
      BY Zenon, <1>1, <2>1, <2>2 DEF Known
  <1>7. ASSUME NEW r \in 1 .. Pushed' PROVE Outside(r)
    BY Zenon, <1>1 DEF Outside, AtThread, AtVendor, AtAnswer, AtDone
  <1>8. SapPlaced'
    <2> SUFFICES ASSUME NEW r \in 1 .. Pushed'
                 PROVE  \E kind \in Kinds, k \in Int \union SapVendors : Placed(r, kind, k)'
      BY Zenon DEF SapPlaced
    <2>1. CASE r = n
      <3>1. r \notin 1 .. Pushed /\ r \notin 0 .. Pushed
        BY <1>2, <1>5, <2>1
      <3>2. /\ AtThread(r)' = {} /\ AtVendor(r)' = {} /\ AtAnswer(r)' = {} /\ AtDone(r)' = {}
        BY Zenon, <1>1, <3>1 DEF Known, AtThread, AtVendor, AtAnswer, AtDone
      <3>3. AtQueue(r)' = {1}
        <4>1. ASSUME NEW i \in 1 .. Len(dispatchQueue) + 1, i # 1 PROVE dispatchQueue'[i] # r
          <5>1. i - 1 \in 1 .. Len(dispatchQueue) /\ (i - 1) + 1 = i
            BY <1>4, <4>1
          <5> QED
            BY Zenon, <1>3, <1>4, <3>1, <5>1 DEF Known
        <4>2. 1 \in 1 .. Len(dispatchQueue) + 1
          BY <1>4
        <4> QED
          BY Zenon, <1>3, <1>4, <2>1, <4>1, <4>2 DEF AtQueue
      <3>4. Placed(r, "queued", 1)'
        BY Zenon, <3>2, <3>3, PlaceQueued DEF Placed
      <3>5. 1 \in Int \union SapVendors /\ "queued" \in Kinds
        BY DEF Kinds
      <3> QED
        BY Zenon, <3>4, <3>5
    <2>2. CASE r # n
      <3>1. r \in 1 .. Pushed
        BY <1>2, <1>5, <2>2
      <3>2. \A i \in Int : i \in AtQueue(r)' <=> i - 1 \in AtQueue(r)
        <4> SUFFICES ASSUME NEW i \in Int PROVE i \in AtQueue(r)' <=> i - 1 \in AtQueue(r)
          OBVIOUS
        <4>1. CASE i \in 2 .. Len(dispatchQueue) + 1
          <5>1. i \in 1 .. Len(dispatchQueue) + 1 /\ i - 1 \in 1 .. Len(dispatchQueue) /\ (i - 1) + 1 = i
            BY <1>4, <4>1
          <5> QED
            BY Zenon, <1>3, <1>4, <5>1 DEF AtQueue
        <4>2. CASE i = 1
          <5>1. i - 1 \notin 1 .. Len(dispatchQueue)
            BY <4>2
          <5> QED
            BY Zenon, <1>3, <1>4, <2>2, <4>2, <5>1 DEF AtQueue
        <4>3. CASE i \notin 1 .. Len(dispatchQueue) + 1
          <5>1. i - 1 \notin 1 .. Len(dispatchQueue)
            BY <1>4, <4>3
          <5> QED
            BY Zenon, <1>4, <4>3, <5>1 DEF AtQueue
        <4> QED
          BY <1>4, <4>1, <4>2, <4>3
      <3>3. Outside(r) /\ 1 \in Int
        BY <1>7
      <3> QED
        BY Zenon, <3>1, <3>2, <3>3, QueueMoves
    <2> QED
      BY Zenon, <2>1, <2>2
  <1> QED
    BY Zenon, <1>6, <1>8

(* A step that leaves the queue alone and moves at most request m need     *)
(* only say where m is.                                                    *)
LEMMA OthersStay ==
    ASSUME SapPlaced, token' = token, dispatchQueue' = dispatchQueue, NEW m,
           \A r \in 1 .. Pushed : r # m => Outside(r),
           \E kind \in Kinds, k \in Int \union SapVendors : m \in 1 .. Pushed => Placed(m, kind, k)'
    PROVE  SapPlaced'
  <1>1. Pushed' = Pushed
    BY Zenon DEF Pushed
  <1>2. \A r : AtQueue(r)' = AtQueue(r)
    BY Zenon DEF AtQueue
  <1>3. \A r \in 1 .. Pushed : \E kind \in Kinds, k \in Int \union SapVendors : Placed(r, kind, k)'
    BY Zenon, <1>2, OthersPlacedStill
  <1> QED
    BY Zenon, <1>1, <1>3 DEF SapPlaced

(* dequeue moves the front request from the queue to the thread. *)
LEMMA PlacedDequeue ==
    ASSUME SapTypeOK, SapTypeOK', SapPlaced, InHand, Known, NEW t \in SapThreads, Dequeue(t)
    PROVE  SapPlaced' /\ Known'
  <1>1. CASE dispatchQueue = <<>>
    <2>1. UNCHANGED <<token, dispatchQueue, threadReq, withVendor, vendorMsg, sapDone>>
      BY Zenon, <1>1 DEF Dequeue, sapRadio, sapSenders, sapMemory
    <2> QED
      BY Zenon, <2>1, PlacesAlone
  <1>2. CASE dispatchQueue # <<>>
    <2>1. PICK m : m = dispatchQueue[1]
      BY Zenon
    <2>2. /\ dispatchQueue' = Tail(dispatchQueue) /\ m = Head(dispatchQueue)
          /\ threadReq' = [threadReq EXCEPT ![t] = m] /\ threadAt[t] = "dequeue"
          /\ UNCHANGED <<token, withVendor, vendorMsg, sapDone>>
      <3>1. m = Head(dispatchQueue)
        BY Zenon, <1>2, <2>1, TailLaw DEF SapTypeOK
      <3> QED
        BY Zenon, <1>2, <3>1 DEF Dequeue, sapRadio, sapSenders, sapMemory
    <2>3. /\ Len(dispatchQueue') = Len(dispatchQueue) - 1
          /\ \A i \in 1 .. Len(dispatchQueue) - 1 : dispatchQueue'[i] = dispatchQueue[i + 1]
          /\ Len(dispatchQueue) \in Nat \ {0}
      BY Zenon, <1>2, <2>2, TailLaw DEF SapTypeOK
    <2>4. /\ DOMAIN dispatchQueue = 1 .. Len(dispatchQueue) /\ 1 \in DOMAIN dispatchQueue
          /\ DOMAIN dispatchQueue' = 1 .. Len(dispatchQueue) - 1
      <3>1. dispatchQueue \in Seq(Nat) /\ dispatchQueue' \in Seq(Nat)
        BY Zenon DEF SapTypeOK
      <3>2. Len(dispatchQueue') = Len(dispatchQueue) - 1 /\ Len(dispatchQueue) \in Nat \ {0}
        BY Zenon, <2>3
      <3> QED
        BY <3>1, <3>2
    <2>5. /\ threadReq[t] = 0 /\ threadReq'[t] = m
          /\ \A u \in SapThreads \ {t} : threadReq'[u] = threadReq[u]
      BY Zenon, <2>2 DEF InHand, SapTypeOK
    <2>6. Pushed' = Pushed /\ m \in 1 .. Pushed /\ Pushed \in Nat
      BY Zenon, <2>1, <2>2, <2>4, PushedLaw DEF Pushed, Known
    <2>7. Known'
      <3>1. \A i \in 1 .. Len(dispatchQueue) - 1 : i + 1 \in 1 .. Len(dispatchQueue)
        BY <2>3
      <3>2. \A i \in DOMAIN dispatchQueue' : dispatchQueue'[i] \in 1 .. Pushed
        BY Zenon, <2>3, <2>4, <3>1 DEF Known
      <3>3. \A u \in SapThreads : threadReq'[u] \in 0 .. Pushed
        BY <2>5, <2>6 DEF Known
      <3> QED
        BY Zenon, <2>2, <2>6, <3>2, <3>3 DEF Known
    <2>8. ASSUME NEW r \in 1 .. Pushed
          PROVE  AtVendor(r)' = AtVendor(r) /\ AtAnswer(r)' = AtAnswer(r) /\ AtDone(r)' = AtDone(r)
      BY Zenon, <2>2 DEF AtVendor, AtAnswer, AtDone
    <2>9. ASSUME NEW r \in 1 .. Pushed
          PROVE  \E kind \in Kinds, k \in Int \union SapVendors : Placed(r, kind, k)'
      <3>1. CASE r = m
        <4>2. 1 \in AtQueue(r)
          BY Zenon, <2>1, <2>4, <3>1 DEF AtQueue
        <4>4. /\ AtQueue(r) = {1} /\ AtThread(r) = {} /\ AtVendor(r) = {}
              /\ AtAnswer(r) = {} /\ AtDone(r) = {}
          BY Zenon, <4>2, FoundQueued
        <4>5. AtQueue(r)' = {}
          <5> SUFFICES ASSUME NEW i \in 1 .. Len(dispatchQueue) - 1 PROVE dispatchQueue'[i] # r
            BY Zenon, <2>4 DEF AtQueue
          <5>1. i + 1 \in 1 .. Len(dispatchQueue) /\ i + 1 # 1
            BY <2>3
          <5> QED
            BY Zenon, <2>3, <2>4, <4>4, <5>1 DEF AtQueue
        <4>6. AtThread(r)' = {t}
          BY Zenon, <2>5, <3>1, <4>4 DEF AtThread
        <4>7. Placed(r, "thread", t)'
          BY Zenon, <2>8, <4>4, <4>5, <4>6, PlaceThread DEF Placed
        <4>8. t \in Int \union SapVendors
          BY DEF SapThreads
        <4> QED
          BY Zenon, <4>7, <4>8, PlaceThread
      <3>2. CASE r # m
        <4>1. AtThread(r)' = AtThread(r)
          <5>1. r # 0
            BY Zenon, PushedLaw
          <5> QED
            BY Zenon, <2>5, <3>2, <5>1 DEF AtThread
        <4>2. Outside(r) /\ -1 \in Int
          BY <2>8, <4>1 DEF Outside
        <4>3. ASSUME NEW i \in Int PROVE i \in AtQueue(r)' <=> i - (-1) \in AtQueue(r)
          <5>1. CASE i \in 1 .. Len(dispatchQueue) - 1
            <6>1. i - (-1) = i + 1 /\ i + 1 \in 1 .. Len(dispatchQueue)
              BY <2>3, <5>1
            <6> QED
              BY Zenon, <2>3, <2>4, <5>1, <6>1 DEF AtQueue
          <5>2. CASE i = 0
            <6>1. i - (-1) = 1 /\ i \notin 1 .. Len(dispatchQueue) - 1
              BY <5>2
            <6> QED
              BY Zenon, <2>1, <2>4, <3>2, <6>1 DEF AtQueue
          <5>3. CASE i \notin 0 .. Len(dispatchQueue) - 1
            <6>1. i - (-1) \notin 1 .. Len(dispatchQueue) /\ i \notin 1 .. Len(dispatchQueue) - 1
              BY <2>3, <5>3
            <6> QED
              BY Zenon, <2>4, <6>1 DEF AtQueue
          <5> QED
            BY <2>3, <5>1, <5>2, <5>3
        <4> QED
          BY Zenon, <4>2, <4>3, QueueMoves
      <3> QED
        BY Zenon, <3>1, <3>2
    <2> QED
      BY Zenon, <2>6, <2>7, <2>9 DEF SapPlaced
  <1> QED
    BY Zenon, <1>1, <1>2

(* The call hands the thread's request to the vendor library. *)
LEMMA PlacedCall ==
    ASSUME SapTypeOK, SapPlaced, InHand, Known, NEW t \in SapThreads, CallOnRequest(t)
    PROVE  SapPlaced' /\ Known'
  <1>1. PICK m : m = threadReq[t]
    BY Zenon
  <1>2. /\ withVendor' = withVendor \union {m} /\ threadReq' = [threadReq EXCEPT ![t] = 0]
        /\ threadAt[t] = "call" /\ UNCHANGED <<token, dispatchQueue, vendorMsg, sapDone>>
    BY Zenon, <1>1 DEF CallOnRequest, sapQueues, sapSenders, sapMemory
  <1>3. m \in 1 .. Pushed /\ Pushed \in Nat /\ Pushed' = Pushed
    BY <1>1, <1>2, PushedLaw DEF InHand, Known, Pushed
  <1>4. threadReq'[t] = 0 /\ \A u \in SapThreads \ {t} : threadReq'[u] = threadReq[u]
    BY Zenon, <1>2 DEF SapTypeOK
  <1>5. Known'
    BY <1>2, <1>3, <1>4 DEF Known
  <1>6. ASSUME NEW r \in 1 .. Pushed, r # m PROVE Outside(r)
    <2>1. r # 0
      BY Zenon, PushedLaw
    <2> QED
      BY Zenon, <1>1, <1>2, <1>4, <1>6, <2>1 DEF Outside, AtThread, AtVendor, AtAnswer, AtDone
  <1>7. Placed(m, "vendor", m)'
    <2>2. t \in AtThread(m)
      BY Zenon, <1>1 DEF AtThread
    <2>4. /\ AtQueue(m) = {} /\ AtThread(m) = {t} /\ AtVendor(m) = {}
          /\ AtAnswer(m) = {} /\ AtDone(m) = {}
      BY Zenon, <1>3, <2>2, FoundThread
    <2>5. AtQueue(m)' = {} /\ AtAnswer(m)' = {} /\ AtDone(m)' = {}
      BY Zenon, <1>2, <2>4 DEF AtQueue, AtAnswer, AtDone
    <2>6. AtThread(m)' = {} /\ AtVendor(m)' = {m}
      <3>1. m # 0
        BY Zenon, <1>3, PushedLaw
      <3> QED
        BY Zenon, <1>2, <1>4, <2>4, <3>1 DEF AtThread, AtVendor
    <2> QED
      BY Zenon, <2>5, <2>6, PlaceVendor DEF Placed
  <1>8. m \in Int \union SapVendors
    BY <1>3
  <1>9. SapPlaced'
    BY Zenon, <1>2, <1>6, <1>7, <1>8, OthersStay, PlaceVendor
  <1> QED
    BY Zenon, <1>5, <1>9

(* onRequestComplete takes a request from the library into an answer. *)
LEMMA PlacedComplete ==
    ASSUME SapTypeOK, SapPlaced, InHand, Known, NEW v \in SapVendors, SapComplete(v)
    PROVE  SapPlaced' /\ Known'
  <1>1. PICK m \in withVendor :
          /\ vendorMsg' = [vendorMsg EXCEPT ![v] = m] /\ withVendor' = withVendor \ {m}
          /\ vendorAt[v] = "idle" /\ UNCHANGED <<token, dispatchQueue, threadReq, sapDone>>
    BY Zenon DEF SapComplete, sapQueues, sapThreads, sapMemory
  <1>2. /\ m \in 1 .. Pushed /\ Pushed \in Nat /\ Pushed' = Pushed
        /\ m # Unsolicited /\ \A r \in 1 .. Pushed : r # Unsolicited
    BY Zenon, <1>1, PushedLaw DEF Known, Pushed, Unsolicited
  <1>3. /\ vendorMsg[v] = Unsolicited /\ vendorMsg'[v] = m
        /\ \A u \in SapVendors \ {v} : vendorMsg'[u] = vendorMsg[u]
    BY Zenon, <1>1 DEF SapTypeOK, InHand
  <1>4. Known'
    <2>1. \A u \in SapVendors : vendorMsg'[u] \in 0 .. Pushed
      BY <1>2, <1>3 DEF Known
    <2> QED
      BY Zenon, <1>1, <1>2, <2>1 DEF Known
  <1>5. ASSUME NEW r \in 1 .. Pushed, r # m PROVE Outside(r)
    BY Zenon, <1>1, <1>2, <1>3, <1>5 DEF Outside, AtThread, AtVendor, AtAnswer, AtDone
  <1>6. Placed(m, "answer", v)'
    <2>2. m \in AtVendor(m)
      BY Zenon, <1>1 DEF AtVendor
    <2>4. /\ AtQueue(m) = {} /\ AtThread(m) = {} /\ AtVendor(m) = {m}
          /\ AtAnswer(m) = {} /\ AtDone(m) = {}
      BY Zenon, <1>2, <2>2, FoundVendor
    <2>5. AtQueue(m)' = {} /\ AtThread(m)' = {} /\ AtDone(m)' = {}
      BY Zenon, <1>1, <2>4 DEF AtQueue, AtThread, AtDone
    <2>6. AtAnswer(m)' = {v} /\ AtVendor(m)' = {}
      BY Zenon, <1>1, <1>3, <2>4 DEF AtAnswer, AtVendor
    <2> QED
      BY Zenon, <2>5, <2>6, PlaceAnswer DEF Placed
  <1>7. v \in Int \union SapVendors
    OBVIOUS
  <1>8. SapPlaced'
    BY Zenon, <1>1, <1>5, <1>6, <1>7, OthersStay, PlaceAnswer
  <1> QED
    BY Zenon, <1>4, <1>8

(* The header of an answered request is freed once. *)
LEMMA PlacedFree ==
    ASSUME SapTypeOK, SapPlaced, InHand, Known, NEW v \in SapVendors, FreeHeader(v)
    PROVE  SapPlaced' /\ Known'
  <1>1. PICK m : m = vendorMsg[v]
    BY Zenon
  <1>2. /\ sapDone' = sapDone \union {m} /\ vendorMsg' = [vendorMsg EXCEPT ![v] = Unsolicited]
        /\ vendorAt[v] = "free" /\ UNCHANGED <<token, dispatchQueue, threadReq, withVendor>>
    BY Zenon, <1>1 DEF FreeHeader, sapQueues, sapThreads, sapRadio
  <1>3. /\ m \in 1 .. Pushed /\ Pushed \in Nat /\ Pushed' = Pushed
        /\ m # Unsolicited /\ \A r \in 1 .. Pushed : r # Unsolicited
    BY <1>1, <1>2, PushedLaw DEF InHand, Known, Pushed, Unsolicited
  <1>4. /\ vendorMsg'[v] = Unsolicited
        /\ \A u \in SapVendors \ {v} : vendorMsg'[u] = vendorMsg[u]
    BY Zenon, <1>2 DEF SapTypeOK
  <1>5. Known'
    <2>1. Unsolicited \in 0 .. Pushed
      BY <1>3 DEF Unsolicited
    <2>2. \A u \in SapVendors : vendorMsg'[u] \in 0 .. Pushed
      BY Zenon, <1>4, <2>1 DEF Known
    <2>3. sapDone' \subseteq 1 .. Pushed
      BY Zenon, <1>2, <1>3 DEF Known
    <2> QED
      BY Zenon, <1>2, <1>3, <2>2, <2>3 DEF Known
  <1>6. ASSUME NEW r \in 1 .. Pushed, r # m PROVE Outside(r)
    BY Zenon, <1>1, <1>2, <1>3, <1>4, <1>6 DEF Outside, AtThread, AtVendor, AtAnswer, AtDone
  <1>7. Placed(m, "done", m)'
    <2>2. v \in AtAnswer(m)
      BY Zenon, <1>1 DEF AtAnswer
    <2>4. /\ AtQueue(m) = {} /\ AtThread(m) = {} /\ AtVendor(m) = {}
          /\ AtAnswer(m) = {v} /\ AtDone(m) = {}
      BY Zenon, <1>3, <2>2, FoundAnswer
    <2>5. AtQueue(m)' = {} /\ AtThread(m)' = {} /\ AtVendor(m)' = {}
      BY Zenon, <1>2, <2>4 DEF AtQueue, AtThread, AtVendor
    <2>6. AtAnswer(m)' = {} /\ AtDone(m)' = {m}
      BY Zenon, <1>2, <1>3, <1>4, <2>4 DEF AtAnswer, AtDone
    <2> QED
      BY Zenon, <2>5, <2>6, PlaceDone DEF Placed
  <1>8. m \in Int \union SapVendors
    BY <1>3
  <1>9. SapPlaced'
    BY Zenon, <1>2, <1>6, <1>7, <1>8, OthersStay, PlaceDone
  <1> QED
    BY Zenon, <1>5, <1>9

(* Every step leaves every pushed request at one place. *)
LEMMA PlacedKept ==
    ASSUME SapTypeOK, SapTypeOK', SapPlaced, InHand, Known, SapNext
    PROVE  SapPlaced' /\ Known'
  <1>1. CASE SapAccept \/ SapClose \/ SapForget \/ SapKilled
    <2>1. UNCHANGED <<token, dispatchQueue, threadReq, withVendor, vendorMsg, sapDone>>
      BY Zenon, <1>1 DEF SapAccept, SapClose, SapForget, SapKilled, sapQueues, sapThreads,
         sapRadio,
         sapSenders, sapMemory
    <2> QED
      BY Zenon, <2>1, PlacesAlone
  <1>2. ASSUME NEW t \in SapThreads, DispatchRequest(t) PROVE SapPlaced' /\ Known'
    <2>1. UNCHANGED <<token, dispatchQueue, threadReq, withVendor, vendorMsg, sapDone>>
      BY Zenon, <1>2 DEF DispatchRequest, sapRadio, sapSenders
    <2> QED
      BY Zenon, <2>1, PlacesAlone
  <1>3. ASSUME NEW v \in SapVendors, SapUnsolicited(v) PROVE SapPlaced' /\ Known'
    <2>1. vendorMsg[v] = Unsolicited /\ vendorMsg \in [SapVendors -> Nat]
      BY Zenon, <1>3 DEF SapUnsolicited, InHand, SapTypeOK
    <2>2. vendorMsg' = [vendorMsg EXCEPT ![v] = Unsolicited]
      BY Zenon, <1>3 DEF SapUnsolicited
    <2>3. vendorMsg' = vendorMsg
      BY Zenon, <2>1, <2>2
    <2>4. UNCHANGED <<token, dispatchQueue, threadReq, withVendor, vendorMsg, sapDone>>
      BY Zenon, <1>3, <2>3 DEF SapUnsolicited, sapQueues, sapThreads, sapMemory
    <2> QED
      BY Zenon, <2>4, PlacesAlone
  <1>4. ASSUME NEW v \in SapVendors,
               SapLock(v) \/ SapReadFd(v) \/ SapWrite(v) \/ SapCloseFd(v) \/ SapUnlock(v)
        PROVE  SapPlaced' /\ Known'
    <2>1. UNCHANGED <<token, dispatchQueue, threadReq, withVendor, vendorMsg, sapDone>>
      BY Zenon, <1>4 DEF SapLock, SapReadFd, SapWrite, SapCloseFd, SapUnlock, sapQueues,
         sapThreads,
         sapRadio, sapMemory
    <2> QED
      BY Zenon, <2>1, PlacesAlone
  <1>5. ASSUME NEW v \in SapVendors, CheckAndDequeue(v) PROVE SapPlaced' /\ Known'
    <2>1. UNCHANGED <<token, dispatchQueue, threadReq, withVendor, vendorMsg, sapDone>>
      BY Zenon, <1>5 DEF CheckAndDequeue, sapThreads, sapRadio
    <2> QED
      BY Zenon, <2>1, PlacesAlone
  <1> QED
    BY Zenon, <1>1, <1>2, <1>3, <1>4, <1>5, PlacedPush, PlacedDequeue, PlacedCall,
       PlacedComplete, PlacedFree DEF SapNext, SapLoop, SapThread, SapVendor

(* A thread has a request in its hands exactly while it dispatches it, and *)
(* a vendor thread that frees one has one.                                 *)
LEMMA InHandKept ==
    ASSUME SapTypeOK, Started, InHand, Known, SapNext
    PROVE  InHand'
  <1>1. CASE SapClose \/ SapForget \/ SapKilled
    <2>1. UNCHANGED <<threadAt, threadReq, vendorAt, vendorMsg>>
      BY Zenon, <1>1 DEF SapClose, SapForget, SapKilled, sapThreads, sapSenders
    <2> QED
      BY Zenon, <2>1 DEF InHand
  <1>2. CASE SapAccept
    <2>1. /\ threadAt' = [threadAt EXCEPT ![accepted + 1] = "dequeue"]
          /\ UNCHANGED <<threadReq, vendorAt, vendorMsg>>
      BY Zenon, <1>2 DEF SapAccept, sapSenders
    <2>2. accepted + 1 \in SapThreads => threadAt[accepted + 1] = "none"
      BY <1>2 DEF Started, SapTypeOK, SapThreads
    <2>3. \A t \in SapThreads : threadAt'[t] \in {"dispatch", "call"} <=> threadAt[t] \in {"dispatch", "call"}
      BY Zenon, <2>1, <2>2 DEF SapTypeOK
    <2> QED
      BY Zenon, <2>1, <2>3 DEF InHand
  <1>3. CASE PushRecord
    <2>1. threadAt' = Broadcast(threadAt) /\ UNCHANGED <<threadReq, vendorAt, vendorMsg>>
      BY Zenon, <1>3 DEF PushRecord, sapSenders
    <2>2. \A t \in SapThreads : threadAt'[t] \in {"dispatch", "call"} <=> threadAt[t] \in {"dispatch", "call"}
      BY Zenon, <2>1 DEF Broadcast
    <2> QED
      BY Zenon, <2>1, <2>2 DEF InHand
  <1>4. ASSUME NEW t \in SapThreads, Dequeue(t) PROVE InHand'
    <2>1. UNCHANGED <<vendorAt, vendorMsg>> /\ threadAt[t] = "dequeue"
      BY Zenon, <1>4 DEF Dequeue, sapSenders
    <2>2. CASE dispatchQueue = <<>>
      <3>1. threadAt' = [threadAt EXCEPT ![t] = "waiting"] /\ threadReq' = threadReq
        BY Zenon, <1>4, <2>2 DEF Dequeue
      <3> QED
        BY Zenon, <2>1, <3>1 DEF InHand, SapTypeOK
    <2>3. CASE dispatchQueue # <<>>
      <3>1. /\ threadAt' = [threadAt EXCEPT ![t] = "dispatch"]
            /\ threadReq' = [threadReq EXCEPT ![t] = Head(dispatchQueue)]
        BY Zenon, <1>4, <2>3 DEF Dequeue
      <3>2. Head(dispatchQueue) # 0
        <4>1. Head(dispatchQueue) = dispatchQueue[1] /\ 1 \in DOMAIN dispatchQueue
          BY <2>3 DEF SapTypeOK
        <4> QED
          BY Zenon, <4>1, PushedLaw DEF Known
      <3> QED
        BY Zenon, <2>1, <3>1, <3>2 DEF InHand, SapTypeOK
    <2> QED
      BY Zenon, <2>2, <2>3
  <1>5. ASSUME NEW t \in SapThreads, DispatchRequest(t) PROVE InHand'
    BY Zenon, <1>5 DEF DispatchRequest, InHand, SapTypeOK, sapSenders
  <1>6. ASSUME NEW t \in SapThreads, CallOnRequest(t) PROVE InHand'
    BY Zenon, <1>6 DEF CallOnRequest, InHand, SapTypeOK, sapSenders
  <1>7. ASSUME NEW v \in SapVendors, SapComplete(v) \/ SapUnsolicited(v) PROVE InHand'
    <2>1. /\ UNCHANGED <<threadAt, threadReq>>
          /\ \E r : \E place \in {"lock", "remove"} :
                vendorMsg' = [vendorMsg EXCEPT ![v] = r] /\ vendorAt' = [vendorAt EXCEPT ![v] = place]
      BY Zenon, <1>7 DEF SapComplete, SapUnsolicited, VendorGoes, sapThreads
    <2> QED
      BY Zenon, <2>1 DEF InHand, SapTypeOK
  <1>8. ASSUME NEW v \in SapVendors,
               SapLock(v) \/ SapReadFd(v) \/ SapWrite(v) \/ SapCloseFd(v)
        PROVE  InHand'
    <2>1. /\ UNCHANGED <<threadAt, threadReq, vendorMsg>>
          /\ \E place \in {"remove", "encoded", "half1", "half2", "unlock", "close"} :
                vendorAt' = [vendorAt EXCEPT ![v] = place]
      BY Zenon, <1>8 DEF SapLock, SapReadFd, SapWrite, SapCloseFd, VendorGoes, sapThreads
    <2> QED
      BY Zenon, <2>1 DEF InHand, SapTypeOK
  <1>9. ASSUME NEW v \in SapVendors, SapUnlock(v) \/ CheckAndDequeue(v) PROVE InHand'
    <2>1. /\ UNCHANGED <<threadAt, threadReq, vendorMsg>>
          /\ \E place \in {"remove", "free"} :
                vendorAt' = [vendorAt EXCEPT ![v] =
                                IF vendorMsg[v] = Unsolicited THEN "idle" ELSE place]
      BY Zenon, <1>9 DEF SapUnlock, CheckAndDequeue, VendorGoes, sapThreads
    <2> QED
      BY Zenon, <2>1 DEF InHand, SapTypeOK
  <1>10. ASSUME NEW v \in SapVendors, FreeHeader(v) PROVE InHand'
    BY Zenon, <1>10 DEF FreeHeader, VendorGoes, InHand, SapTypeOK, sapThreads
  <1> QED
    BY Zenon, <1>1, <1>2, <1>3, <1>4, <1>5, <1>6, <1>7, <1>8, <1>9, <1>10
       DEF SapNext, SapLoop, SapThread, SapVendor

(* One place of one kind is what SapOnce counts. *)
LEMMA PlacedOnce == ASSUME SapPlaced PROVE SapOnce
  <1> SUFFICES ASSUME NEW r \in 1 .. Pushed
               PROVE  \E p \in SapPlaces(r) : SapPlaces(r) = {p}
    BY Zenon DEF SapOnce
  <1>1. PICK kind \in Kinds, k \in Int \union SapVendors : Placed(r, kind, k)
    BY Zenon DEF SapPlaced
  <1>2. SapPlaces(r) = ({"queued"} \X AtQueue(r)) \union ({"thread"} \X AtThread(r))
          \union ({"vendor"} \X AtVendor(r)) \union ({"answer"} \X AtAnswer(r))
          \union ({"done"} \X AtDone(r))
    BY Zenon DEF SapPlaces, AtQueue, AtThread, AtVendor, AtAnswer, AtDone
  <1>3. ({"queued"} \X AtQueue(r)) \union ({"thread"} \X AtThread(r))
          \union ({"vendor"} \X AtVendor(r)) \union ({"answer"} \X AtAnswer(r))
          \union ({"done"} \X AtDone(r)) = {<<kind, k>>}
    BY <1>1 DEF Placed, OnePlace, Kinds
  <1>4. SapPlaces(r) = {<<kind, k>>}
    BY Zenon, <1>2, <1>3
  <1> QED
    BY Zenon, <1>4

-----------------------------------------------------------------------------
(* Responses are whole.                                                    *)

(* At the start nothing was written and nobody is inside writeLock. *)
LEMMA ResponsesStart == ASSUME SapInit PROVE SapResponses
  <1>1. SapLocked
    BY Zenon DEF SapInit, SapLocked, Inside
  <1>2. SapFresh
    BY DEF SapInit, SapFresh, Closed
  <1>3. SapBegun
    BY Zenon DEF SapInit, SapBegun, Closed
  <1>4. SapWhole
    BY DEF SapInit, SapWhole
  <1> QED
    BY Zenon, <1>1, <1>2, <1>3, <1>4 DEF SapResponses

(* An open descriptor belongs to a connection that was accepted. *)
LEMMA OpenLaw ==
    ASSUME SapTypeOK, NEW f \in SapFds, sapFile[f] # Closed
    PROVE  sapFile[f] \in SapThreads /\ f # -1
  BY SapAssumption DEF SapTypeOK, Closed, SapThreads

(* One sender at a time is inside writeLock. *)
LEMMA OneInside ==
    ASSUME SapLocked, NEW v \in SapVendors, NEW w \in SapVendors, vendorAt[v] \in Inside,
           vendorAt[w] \in Inside
    PROVE  v = w
  BY Zenon DEF SapLocked

(* A sender between the halves of a response is inside writeLock. *)
LEMMA HalfWayInside ==
    ASSUME NEW v, NEW f, HalfWay(v, f) PROVE vendorAt[v] \in Inside
  BY Zenon DEF HalfWay, Inside

(* A step outside sendResponse and the connections leaves the responses    *)
(* alone.                                                                  *)
LEMMA ResponsesAlone ==
    ASSUME SapResponses, UNCHANGED <<sapFile, accepted, vendorAt, vendorMsg, vendorFd, writeLock, written>>
    PROVE  SapResponses'
  <1>1. SapLocked'
    BY Zenon DEF SapResponses, SapLocked
  <1>2. SapFresh'
    BY Zenon DEF SapResponses, SapFresh
  <1>3. SapBegun'
    BY Zenon DEF SapResponses, SapBegun, HalfWay
  <1>4. SapWhole'
    BY Zenon DEF SapResponses, SapWhole
  <1> QED
    BY Zenon, <1>1, <1>2, <1>3, <1>4 DEF SapResponses

(* Closing a descriptor, by the loop or by a sender whose write failed,    *)
(* leaves no unfinished response on an open one.                           *)
LEMMA ClosedBegun ==
    ASSUME SapTypeOK, SapBegun, written' = written, vendorMsg' = vendorMsg, vendorFd' = vendorFd,
           \A f \in SapFds : sapFile'[f] = sapFile[f] \/ sapFile'[f] = Closed,
           \A v \in SapVendors : \/ vendorAt'[v] = vendorAt[v]
                                 \/ /\ vendorAt[v] = "close" /\ vendorAt'[v] = "unlock"
                                    /\ vendorFd[v] \in SapFds => sapFile'[vendorFd[v]] = Closed
    PROVE  SapBegun'
  <1>1. ASSUME NEW v \in SapVendors, NEW f \in SapFds, HalfWay(v, f), sapFile'[f] # Closed
        PROVE  HalfWay(v, f)'
    <2>1. sapFile'[f] = sapFile[f]
      BY Zenon, <1>1
    <2>2. vendorAt'[v] = vendorAt[v]
      BY Zenon, <1>1 DEF HalfWay
    <2> QED
      BY Zenon, <1>1, <2>1, <2>2 DEF HalfWay
  <1>2. ASSUME NEW f \in SapFds, sapFile'[f] # Closed, written'[sapFile'[f]] # <<>>,
               EndOf(written'[sapFile'[f]])[2] = "half1"
        PROVE  \E v \in SapVendors : HalfWay(v, f)'
    <2>1. sapFile'[f] = sapFile[f]
      BY Zenon, <1>2
    <2>2. \E v \in SapVendors : HalfWay(v, f)
      BY Zenon, <1>2, <2>1 DEF SapBegun
    <2> QED
      BY Zenon, <1>1, <1>2, <2>2
  <1>3. ASSUME NEW v \in SapVendors, vendorAt'[v] = "half2", vendorFd'[v] \in SapFds,
               sapFile'[vendorFd'[v]] # Closed, written'[sapFile'[vendorFd'[v]]] # <<>>
        PROVE  HalfWay(v, vendorFd[v])'
    <2>1. sapFile'[vendorFd[v]] = sapFile[vendorFd[v]] /\ vendorAt[v] = "half2"
      BY Zenon, <1>3
    <2>2. HalfWay(v, vendorFd[v])
      BY Zenon, <1>3, <2>1 DEF SapBegun
    <2> QED
      BY Zenon, <1>1, <1>3, <2>2 DEF HalfWay
  <1> QED
    BY Zenon, <1>2, <1>3 DEF SapBegun, EndOf

(* The half at i has its other half beside it. *)
WholeHalf(s, i) ==
    \/ s[i][2] = "half1" /\ (i < Len(s) => s[i + 1] = <<s[i][1], "half2">>)
    \/ s[i][2] = "half2" /\ (i > 1 => s[i - 1] = <<s[i][1], "half1">>)

(* SapWhole is WholeHalf of every half that was written. *)
LEMMA WholeIs == SapWhole <=> \A c \in SapThreads : \A i \in DOMAIN written[c] : WholeHalf(written[c], i)
  BY Zenon DEF SapWhole, WholeHalf

(* The same after a step. *)
LEMMA WholeIsNext ==
    SapWhole' <=> \A c \in SapThreads : \A i \in DOMAIN written'[c] : WholeHalf(written'[c], i)
  BY Zenon DEF SapWhole, WholeHalf

(* A half that may be written next: a first half after a finished          *)
(* response, or the second half of the one that ends the stream.           *)
Follows(s, m, half) ==
    \/ half = "half1" /\ (s # <<>> => EndOf(s)[2] # "half1")
    \/ half = "half2" /\ (s # <<>> => EndOf(s) = <<m, "half1">>)

(* Writing a half that may follow keeps every half of the stream beside    *)
(* its other half.                                                         *)
LEMMA WholeAppend ==
    ASSUME NEW S, NEW s \in Seq(S), \A i \in DOMAIN s : WholeHalf(s, i), NEW m, NEW half,
           <<m, half>> \in S, Follows(s, m, half)
    PROVE  \A i \in DOMAIN Append(s, <<m, half>>) : WholeHalf(Append(s, <<m, half>>), i)
  <1> DEFINE x == <<m, half>>
             d == Append(s, x)
  <1>1. x[1] = m /\ x[2] = half /\ x \in S
    OBVIOUS
  <1>2. half = "half1" \/ half = "half2"
    BY Zenon DEF Follows
  <1> HIDE DEF x
  <1>3. /\ d \in Seq(S) /\ Len(d) = Len(s) + 1 /\ Len(s) \in Nat
        /\ \A i \in 1 .. Len(s) : d[i] = s[i]
        /\ d[Len(s) + 1] = x
    BY <1>1
  <1>4. DOMAIN d = 1 .. Len(s) + 1 /\ DOMAIN s = 1 .. Len(s)
    <2>1. DOMAIN d = 1 .. Len(d) /\ DOMAIN s = 1 .. Len(s)
      BY <1>1
    <2> QED
      BY Zenon, <1>3, <2>1
  <1> HIDE DEF d
  <1>5. ASSUME NEW i \in 1 .. Len(s) + 1 PROVE WholeHalf(d, i)
    <2>1. CASE i = Len(s) + 1
      <3>1. d[i] = x /\ ~(i < Len(d))
        BY <1>3, <2>1
      <3>2. CASE half = "half1"
        BY Zenon, <1>1, <3>1, <3>2 DEF WholeHalf
      <3>3. CASE half = "half2"
        <4>1. ASSUME i > 1 PROVE d[i - 1] = <<m, "half1">>
          <5>1. i - 1 = Len(s) /\ Len(s) \in 1 .. Len(s) /\ s # <<>>
            BY <1>3, <2>1, <4>1
          <5>2. EndOf(s) = <<m, "half1">>
            BY Zenon, <3>3, <5>1 DEF Follows
          <5> QED
            BY Zenon, <1>3, <5>1, <5>2 DEF EndOf
        <4> QED
          BY Zenon, <1>1, <3>1, <3>3, <4>1 DEF WholeHalf
      <3> QED
        BY Zenon, <1>2, <3>2, <3>3
    <2>2. CASE i \in 1 .. Len(s) /\ i < Len(s)
      <3>1. d[i] = s[i] /\ d[i + 1] = s[i + 1] /\ (i > 1 => d[i - 1] = s[i - 1]) /\ i < Len(d)
        BY <1>3, <2>2
      <3>2. WholeHalf(s, i)
        BY Zenon, <1>4, <2>2
      <3> QED
        BY Zenon, <2>2, <3>1, <3>2 DEF WholeHalf
    <2>3. CASE i \in 1 .. Len(s) /\ i = Len(s)
      <3>1. d[i] = s[i] /\ d[i + 1] = x /\ (i > 1 => d[i - 1] = s[i - 1]) /\ s # <<>>
        BY <1>3, <2>3
      <3>2. WholeHalf(s, i) /\ EndOf(s) = s[i]
        BY Zenon, <1>4, <2>3 DEF EndOf
      <3>3. CASE s[i][2] = "half1"
        <4>1. half = "half2" /\ s[i] = <<m, "half1">>
          BY Zenon, <3>1, <3>2, <3>3 DEF Follows
        <4>2. s[i][1] = m
          BY <4>1
        <4>3. d[i + 1] = <<d[i][1], "half2">>
          BY Zenon, <3>1, <4>1, <4>2 DEF x
        <4> QED
          BY Zenon, <3>1, <3>3, <4>3 DEF WholeHalf
      <3>4. CASE s[i][2] # "half1"
        BY Zenon, <3>1, <3>2, <3>4 DEF WholeHalf
      <3> QED
        BY Zenon, <3>3, <3>4
    <2> QED
      BY <1>3, <2>1, <2>2, <2>3
  <1> QED
    BY Zenon, <1>4, <1>5 DEF d, x

(* A connection that is accepted has a descriptor nobody uses and nothing  *)
(* was written to it, although a sender may still hold that number.        *)
LEMMA ResponsesAccept ==
    ASSUME SapTypeOK, SapResponses, SapAccept PROVE SapResponses'
  <1>1. PICK f \in SapFds : sapFile' = [sapFile EXCEPT ![f] = accepted + 1] /\ sapFile[f] = Closed
    BY Zenon DEF SapAccept
  <1>2. /\ accepted' = accepted + 1 /\ accepted \in Nat /\ accepted + 1 \in SapThreads
        /\ UNCHANGED <<vendorAt, vendorMsg, vendorFd, writeLock, written>>
    BY SapAssumption DEF SapAccept, SapTypeOK, SapThreads, sapSenders
  <1>3. sapFile'[f] = accepted + 1 /\ \A g \in SapFds \ {f} : sapFile'[g] = sapFile[g]
    BY Zenon, <1>1 DEF SapTypeOK
  <1>4. \A g \in SapFds : sapFile[g] \in Int /\ sapFile[g] <= accepted
    BY DEF SapTypeOK, SapResponses, SapFresh
  <1>5. written[accepted + 1] = <<>>
    BY <1>2 DEF SapResponses, SapFresh
  <1>6. SapLocked'
    BY Zenon, <1>2 DEF SapResponses, SapLocked
  <1>7. SapFresh'
    <2>1. \A g, h \in SapFds : sapFile'[g] = sapFile'[h] /\ sapFile'[g] # Closed => g = h
      BY <1>2, <1>3, <1>4 DEF SapResponses, SapFresh
    <2>2. \A g \in SapFds : sapFile'[g] <= accepted'
      BY <1>2, <1>3, <1>4
    <2>3. \A c \in SapThreads : c > accepted' => written'[c] = <<>>
      BY <1>2 DEF SapResponses, SapFresh, SapThreads
    <2> QED
      BY Zenon, <2>1, <2>2, <2>3 DEF SapFresh
  <1>8. SapBegun'
    <2>1. SapBegun
      BY Zenon DEF SapResponses
    <2>2. ASSUME NEW v \in SapVendors, NEW g \in SapFds \ {f}, HalfWay(v, g)
          PROVE  HalfWay(v, g)'
      BY Zenon, <1>2, <1>3, <2>2 DEF HalfWay
    <2>3. ASSUME NEW g \in SapFds, sapFile'[g] # Closed, written'[sapFile'[g]] # <<>>,
                 EndOf(written'[sapFile'[g]])[2] = "half1"
          PROVE  \E v \in SapVendors : HalfWay(v, g)'
      <3>1. g # f
        BY Zenon, <1>2, <1>3, <1>5, <2>3
      <3>2. \E v \in SapVendors : HalfWay(v, g)
        BY Zenon, <1>2, <1>3, <2>1, <2>3, <3>1 DEF SapBegun
      <3> QED
        BY Zenon, <2>2, <3>1, <3>2
    <2>4. ASSUME NEW v \in SapVendors, vendorAt'[v] = "half2", vendorFd'[v] \in SapFds,
                 sapFile'[vendorFd'[v]] # Closed, written'[sapFile'[vendorFd'[v]]] # <<>>
          PROVE  HalfWay(v, vendorFd[v])'
      <3>1. vendorFd[v] # f /\ vendorFd'[v] = vendorFd[v]
        BY Zenon, <1>2, <1>3, <1>5, <2>4
      <3>2. HalfWay(v, vendorFd[v])
        BY Zenon, <1>2, <1>3, <2>1, <2>4, <3>1 DEF SapBegun
      <3> QED
        BY Zenon, <1>2, <1>3, <2>4, <3>1, <3>2 DEF HalfWay
    <2> QED
      BY Zenon, <2>3, <2>4 DEF SapBegun, EndOf
  <1>9. SapWhole'
    BY Zenon, <1>2 DEF SapResponses, SapWhole
  <1> QED
    BY Zenon, <1>6, <1>7, <1>8, <1>9 DEF SapResponses

(* Closing descriptors writes nothing. *)
LEMMA ResponsesClose ==
    ASSUME SapTypeOK, SapResponses, UNCHANGED <<accepted, written>>, SapLocked', SapBegun',
           \A f \in SapFds : sapFile'[f] = sapFile[f] \/ sapFile'[f] = Closed
    PROVE  SapResponses'
  <1>1. SapFresh'
    <2>1. \A f \in SapFds : sapFile'[f] <= accepted'
      <3>1. Closed <= accepted
        BY DEF SapTypeOK, Closed
      <3>2. \A f \in SapFds : sapFile[f] <= accepted
        BY Zenon DEF SapResponses, SapFresh
      <3> QED
        BY Zenon, <3>1, <3>2
    <2> QED
      BY Zenon, <2>1 DEF SapResponses, SapFresh
  <1>2. SapWhole'
    BY Zenon DEF SapResponses, SapWhole
  <1> QED
    BY Zenon, <1>1, <1>2 DEF SapResponses

(* A step of a sender that is not between two halves writes nothing. *)
LEMMA ResponsesSender ==
    ASSUME SapTypeOK, SapResponses, NEW v \in SapVendors, SapLocked',
           UNCHANGED <<sapFile, accepted, written>>,
           vendorAt[v] \notin {"half2", "close"}, vendorAt'[v] # "half2",
           \A w \in SapVendors \ {v} : /\ vendorAt'[w] = vendorAt[w] /\ vendorMsg'[w] = vendorMsg[w]
                                       /\ vendorFd'[w] = vendorFd[w]
    PROVE  SapResponses'
  <1>1. ASSUME NEW w \in SapVendors, NEW f \in SapFds, HalfWay(w, f) PROVE HalfWay(w, f)'
    <2>1. w # v
      BY Zenon, <1>1 DEF HalfWay
    <2> QED
      BY Zenon, <1>1, <2>1 DEF HalfWay
  <1>2. ASSUME NEW f \in SapFds, sapFile'[f] # Closed, written'[sapFile'[f]] # <<>>,
               EndOf(written'[sapFile'[f]])[2] = "half1"
        PROVE  \E w \in SapVendors : HalfWay(w, f)'
    <2>1. \E w \in SapVendors : HalfWay(w, f)
      BY Zenon, <1>2 DEF SapResponses, SapBegun
    <2> QED
      BY Zenon, <1>1, <2>1
  <1>3. ASSUME NEW w \in SapVendors, vendorAt'[w] = "half2", vendorFd'[w] \in SapFds,
               sapFile'[vendorFd'[w]] # Closed, written'[sapFile'[vendorFd'[w]]] # <<>>
        PROVE  HalfWay(w, vendorFd[w])'
    <2>1. w # v /\ vendorFd'[w] = vendorFd[w] /\ vendorAt[w] = "half2"
      BY Zenon, <1>3
    <2>2. HalfWay(w, vendorFd[w])
      BY Zenon, <1>3, <2>1 DEF SapResponses, SapBegun
    <2> QED
      BY Zenon, <2>1, <2>2 DEF HalfWay
  <1>4. SapBegun'
    BY Zenon, <1>2, <1>3 DEF SapBegun, EndOf
  <1>5. SapFresh'
    BY Zenon DEF SapResponses, SapFresh
  <1>6. SapWhole'
    BY Zenon DEF SapResponses, SapWhole
  <1> QED
    BY Zenon, <1>4, <1>5, <1>6 DEF SapResponses

(* Where a sender goes when a half was written. *)
AfterHalf(at) == IF at = "half1" THEN "half2" ELSE "unlock"

(* A stream to which this half may be written. *)
Ready(s, m, half) ==
    /\ s \in Seq(ResponseHalf) /\ <<m, half>> \in ResponseHalf
    /\ Follows(s, m, half) /\ \A i \in DOMAIN s : WholeHalf(s, i)

(* The stream after it. *)
Longer(d, m, half) ==
    EndOf(d) = <<m, half>> /\ \A i \in DOMAIN d : WholeHalf(d, i)

(* What is written to a stream that is ready leaves it whole. *)
LEMMA WholeWritten ==
    ASSUME NEW s, NEW m, NEW half, Ready(s, m, half)
    PROVE  Longer(Append(s, <<m, half>>), m, half)
  <1> DEFINE x == <<m, half>>
             d == Append(s, x)
  <1>1. s \in Seq(ResponseHalf) /\ x \in ResponseHalf
    BY Zenon DEF Ready
  <1>2. \A i \in DOMAIN d : WholeHalf(d, i)
    BY Zenon, WholeAppend DEF Ready
  <1> HIDE DEF x
  <1>3. Len(d) = Len(s) + 1 /\ d[Len(s) + 1] = x
    BY <1>1
  <1> HIDE DEF d
  <1>4. EndOf(d) = x
    BY Zenon, <1>3 DEF EndOf
  <1> QED
    BY Zenon, <1>2, <1>4 DEF Longer, d, x

(* A write by the sender inside writeLock: the stream it goes to ends in   *)
(* its own first half or in a finished response.                           *)
LEMMA ResponsesWrite ==
    ASSUME SapTypeOK, SapResponses, SapLocked', NEW v \in SapVendors,
           vendorAt[v] \in Halves, NEW f \in SapFds, vendorFd[v] = f,
           NEW c \in SapThreads, sapFile[f] = c, sapFile[f] # Closed,
           written' = [written EXCEPT ![c] = Append(@, <<vendorMsg[v], vendorAt[v]>>)],
           vendorAt'[v] = AfterHalf(vendorAt[v]),
           \A w \in SapVendors \ {v} : vendorAt'[w] = vendorAt[w],
           UNCHANGED <<sapFile, accepted, vendorMsg, vendorFd>>
    PROVE  SapResponses'
  <1>1. PICK m, half : m = vendorMsg[v] /\ half = vendorAt[v]
    BY Zenon
  <1>3. /\ written \in [SapThreads -> Seq(ResponseHalf)] /\ written[c] \in Seq(ResponseHalf)
        /\ <<m, half>> \in ResponseHalf /\ half \in Halves
    BY Zenon, <1>1 DEF SapTypeOK, ResponseHalf
  <1>4. /\ written'[c] = Append(written[c], <<m, half>>)
        /\ \A d \in SapThreads \ {c} : written'[d] = written[d]
    BY Zenon, <1>1, <1>3
  <1>5. SapLocked /\ SapFresh /\ SapBegun /\ SapWhole
    BY Zenon DEF SapResponses
  <1>6. \A w \in SapVendors : vendorAt[w] \in Inside => w = v
    <2>1. vendorAt[v] \in Inside
      BY Zenon DEF Inside, Halves
    <2> QED
      BY Zenon, <1>5, <2>1, OneInside
  <1>7. \A w \in SapVendors : \A g : HalfWay(w, g) => w = v /\ half = "half2" /\ g = f
    <2> SUFFICES ASSUME NEW w \in SapVendors, NEW g, HalfWay(w, g)
                 PROVE  w = v /\ half = "half2" /\ g = f
      OBVIOUS
    <2>1. w = v
      BY Zenon, <1>6, HalfWayInside
    <2> QED
      BY Zenon, <1>1, <2>1 DEF HalfWay, Halves
  <1>8. Follows(written[c], m, half)
    <2>1. CASE half = "half1"
      BY Zenon, <1>5, <1>7, <2>1 DEF Follows, SapBegun
    <2>2. CASE half = "half2"
      <3>1. written[c] # <<>> => HalfWay(v, f)
        BY Zenon, <1>1, <1>5, <2>2 DEF SapBegun
      <3> QED
        BY Zenon, <1>1, <2>2, <3>1 DEF Follows, HalfWay
    <2> QED
      BY Zenon, <1>3, <2>1, <2>2 DEF Halves
  <1>2. (\A i \in DOMAIN written'[c] : WholeHalf(written'[c], i)) /\ EndOf(written'[c]) = <<m, half>>
    <2>1. \A i \in DOMAIN written[c] : WholeHalf(written[c], i)
      BY Zenon, <1>5, WholeIs
    <2>2. Ready(written[c], m, half)
      BY Zenon, <1>3, <1>8, <2>1 DEF Ready
    <2>3. Longer(written'[c], m, half)
      <3>1. Longer(Append(written[c], <<m, half>>), m, half)
        BY Zenon, <2>2, WholeWritten
      <3> QED
        BY Zenon, <1>4, <3>1
    <2> QED
      BY Zenon, <2>3 DEF Longer
  <1>9. SapWhole'
    <2>1. \A d \in SapThreads : \A i \in DOMAIN written[d] : WholeHalf(written[d], i)
      BY Zenon, <1>5, WholeIs
    <2>2. \A i \in DOMAIN written'[c] : WholeHalf(written'[c], i)
      BY Zenon, <1>2
    <2>3. \A d \in SapThreads : \A i \in DOMAIN written'[d] : WholeHalf(written'[d], i)
      BY Zenon, <1>4, <2>1, <2>2
    <2> QED
      BY Zenon, <2>3, WholeIsNext
  <1>11. SapFresh'
    <2>1. ~(c > accepted)
      <3>1. sapFile[f] <= accepted
        BY Zenon, <1>5 DEF SapFresh
      <3> QED
        BY <3>1 DEF SapTypeOK, SapThreads
    <2> QED
      BY Zenon, <1>4, <1>5, <2>1 DEF SapFresh
  <1>12. SapBegun'
    <2>1. ASSUME NEW g \in SapFds, sapFile'[g] # Closed, written'[sapFile'[g]] # <<>>,
                 EndOf(written'[sapFile'[g]])[2] = "half1"
          PROVE  \E w \in SapVendors : HalfWay(w, g)'
      <3>1. CASE g = f
        <4>1. half = "half1"
          BY <1>3, <1>2, <2>1, <3>1 DEF Halves
        <4>2. vendorAt'[v] \in {"half2", "close"}
          BY Zenon, <1>1, <4>1 DEF AfterHalf
        <4> QED
          BY Zenon, <1>1, <1>2, <3>1, <4>1, <4>2 DEF HalfWay
      <3>2. CASE g # f
        <4>1. sapFile[g] # c /\ sapFile[g] \in SapThreads
          BY Zenon, <1>5, <2>1, <3>2, OpenLaw DEF SapFresh
        <4>2. \E w \in SapVendors : HalfWay(w, g)
          <5>1. sapFile'[g] = sapFile[g] /\ written'[sapFile[g]] = written[sapFile[g]]
            BY Zenon, <1>4, <4>1
          <5> QED
            BY Zenon, <1>5, <2>1, <5>1 DEF SapBegun
        <4> QED
          BY Zenon, <1>7, <3>2, <4>2
      <3> QED
        BY Zenon, <3>1, <3>2
    <2>2. ASSUME NEW w \in SapVendors, vendorAt'[w] = "half2"
          PROVE  HalfWay(w, vendorFd[w])'
      <3>1. w = v
        BY Zenon, <1>6, <2>2 DEF Inside
      <3>2. half = "half1"
        BY Zenon, <1>1, <1>3, <2>2, <3>1 DEF Halves, AfterHalf
      <3>3. vendorAt'[w] \in {"half2", "close"}
        BY Zenon, <2>2
      <3> QED
        BY Zenon, <1>1, <1>2, <3>1, <3>2, <3>3 DEF HalfWay
    <2> QED
      BY Zenon, <2>1, <2>2 DEF SapBegun, EndOf
  <1> QED
    BY Zenon, <1>9, <1>11, <1>12 DEF SapResponses

(* Every step keeps the responses whole. *)
LEMMA ResponsesKept ==
    ASSUME SapTypeOK, SapResponses, SapNext PROVE SapResponses'
  <1>0. SapLocked /\ SapBegun
    BY Zenon DEF SapResponses
  <1>1. CASE PushRecord \/ SapForget \/ SapKilled
    <2>1. UNCHANGED <<sapFile, accepted, vendorAt, vendorMsg, vendorFd, writeLock, written>>
      BY Zenon, <1>1 DEF PushRecord, SapForget, SapKilled, sapSenders
    <2> QED
      BY Zenon, <2>1, ResponsesAlone
  <1>2. ASSUME NEW t \in SapThreads, SapThread(t) PROVE SapResponses'
    <2>1. UNCHANGED <<sapFile, accepted, vendorAt, vendorMsg, vendorFd, writeLock, written>>
      BY Zenon, <1>2 DEF SapThread, Dequeue, DispatchRequest, CallOnRequest, sapSocket,
         sapSenders
    <2> QED
      BY Zenon, <2>1, ResponsesAlone
  <1>3. CASE SapClose
    <2>1. /\ UNCHANGED <<accepted, vendorAt, vendorMsg, vendorFd, writeLock, written>>
          /\ \A f \in SapFds : sapFile'[f] = sapFile[f] \/ sapFile'[f] = Closed
      BY Zenon, <1>3 DEF SapClose, SapTypeOK, sapSenders
    <2>2. SapLocked'
      BY Zenon, <1>0, <2>1 DEF SapLocked
    <2>3. SapBegun'
      BY Zenon, <1>0, <2>1, ClosedBegun
    <2> QED
      BY Zenon, <2>1, <2>2, <2>3, ResponsesClose
  <1>4. ASSUME NEW v \in SapVendors,
               SapComplete(v) \/ SapUnsolicited(v) \/ CheckAndDequeue(v) \/ FreeHeader(v)
        PROVE  SapResponses'
    <2>1. /\ vendorAt[v] \notin {"half2", "close"} /\ vendorAt'[v] # "half2"
          /\ vendorAt'[v] \notin Inside
          /\ \A w \in SapVendors \ {v} : vendorAt'[w] = vendorAt[w]
      BY Zenon, <1>4 DEF SapComplete, SapUnsolicited, CheckAndDequeue, FreeHeader,
         VendorGoes, SapTypeOK, Inside
    <2>2. /\ UNCHANGED <<sapFile, accepted, vendorFd, writeLock, written>>
          /\ \A w \in SapVendors \ {v} : vendorMsg'[w] = vendorMsg[w]
      <3>1. UNCHANGED <<sapFile, accepted, vendorFd, writeLock, written>>
        BY Zenon, <1>4 DEF SapComplete, SapUnsolicited, CheckAndDequeue, FreeHeader, sapSocket
      <3>2. \E r : vendorMsg' = vendorMsg \/ vendorMsg' = [vendorMsg EXCEPT ![v] = r]
        BY Zenon, <1>4 DEF SapComplete, SapUnsolicited, CheckAndDequeue, FreeHeader
      <3>3. \A w \in SapVendors \ {v} : vendorMsg'[w] = vendorMsg[w]
        BY Zenon, <3>2 DEF SapTypeOK
      <3> QED
        BY Zenon, <3>1, <3>3
    <2>3. SapLocked'
      BY Zenon, <1>0, <2>1, <2>2 DEF SapLocked
    <2> QED
      BY Zenon, <2>1, <2>2, <2>3, ResponsesSender
  <1>5. ASSUME NEW v \in SapVendors, SapLock(v) \/ SapReadFd(v) \/ SapUnlock(v)
        PROVE  SapResponses'
    <2>1. /\ vendorAt[v] \notin {"half2", "close"} /\ vendorAt'[v] # "half2"
          /\ \A w \in SapVendors \ {v} : vendorAt'[w] = vendorAt[w]
      BY Zenon, <1>5 DEF SapLock, SapReadFd, SapUnlock, VendorGoes, SapTypeOK
    <2>2. UNCHANGED <<sapFile, accepted, vendorMsg, written>>
      BY Zenon, <1>5 DEF SapLock, SapReadFd, SapUnlock, sapSocket
    <2>3. \A w \in SapVendors \ {v} : vendorFd'[w] = vendorFd[w]
      BY Zenon, <1>5 DEF SapLock, SapReadFd, SapUnlock, SapTypeOK
    <2>4. SapLocked'
      <3>1. CASE SapLock(v)
        <4>1. vendorAt'[v] \in Inside => writeLock' = {v}
          BY Zenon, <2>1, <3>1 DEF SapLock, VendorGoes, SapTypeOK, Inside
        <4>2. ASSUME NEW w \in SapVendors, vendorAt[w] \in Inside PROVE FALSE
          BY Zenon, <1>0, <3>1, <4>2 DEF SapLock, SapLocked
        <4> QED
          BY Zenon, <2>1, <4>1, <4>2 DEF SapLocked
      <3>2. CASE SapReadFd(v)
        <4>1. writeLock' = writeLock /\ vendorAt[v] \in Inside
          BY Zenon, <3>2 DEF SapReadFd, Inside
        <4> QED
          BY Zenon, <1>0, <2>1, <4>1 DEF SapLocked
      <3>3. CASE SapUnlock(v)
        <4>1. vendorAt[v] \in Inside /\ vendorAt'[v] \notin Inside
          BY Zenon, <3>3 DEF SapUnlock, VendorGoes, SapTypeOK, Inside
        <4>2. ASSUME NEW w \in SapVendors, vendorAt[w] \in Inside PROVE w = v
          BY Zenon, <1>0, <4>1, <4>2, OneInside
        <4>3. ASSUME NEW w \in SapVendors PROVE vendorAt'[w] \notin Inside
          <5>1. CASE w = v
            BY Zenon, <4>1, <5>1
          <5>2. CASE w # v
            BY Zenon, <2>1, <4>2, <5>2
          <5> QED
            BY Zenon, <5>1, <5>2
        <4> QED
          BY Zenon, <4>3 DEF SapLocked
      <3> QED
        BY Zenon, <1>5, <3>1, <3>2, <3>3
    <2> QED
      BY Zenon, <2>1, <2>2, <2>3, <2>4, ResponsesSender
  <1>6. ASSUME NEW v \in SapVendors, SapWrite(v) PROVE SapResponses'
    <2>1. /\ vendorAt[v] \in {"half1", "half2"} /\ vendorAt[v] \in Inside
          /\ vendorAt'[v] \in Inside /\ \A w \in SapVendors \ {v} : vendorAt'[w] = vendorAt[w]
      BY Zenon, <1>6 DEF SapWrite, VendorGoes, SapTypeOK, Inside
    <2>2. UNCHANGED <<sapFile, accepted, vendorMsg, vendorFd, writeLock>>
      BY Zenon, <1>6 DEF SapWrite, sapSocket
    <2>3. SapLocked'
      BY Zenon, <1>0, <2>1, <2>2 DEF SapLocked
    <2>4. CASE VendorGoes(v, "close") /\ written' = written
      <3>1. vendorAt'[v] = "close"
        BY Zenon, <2>4 DEF VendorGoes, SapTypeOK
      <3>2. CASE vendorAt[v] = "half1"
        <4>1. vendorAt[v] \notin {"half2", "close"} /\ vendorAt'[v] # "half2"
          BY Zenon, <3>1, <3>2
        <4> QED
          BY Zenon, <2>1, <2>2, <2>3, <2>4, <4>1, ResponsesSender
      <3>3. CASE vendorAt[v] = "half2"
        <4>1. SapBegun'
          <5>1. vendorAt'[v] \in {"half2", "close"} /\ vendorAt'[v] # "half2"
            BY Zenon, <3>1
          <5>2. ASSUME NEW w \in SapVendors, NEW g, HalfWay(w, g) PROVE HalfWay(w, g)'
            BY Zenon, <2>1, <2>2, <2>4, <5>1, <5>2 DEF HalfWay
          <5>3. ASSUME NEW w \in SapVendors, vendorAt'[w] = "half2" PROVE vendorAt[w] = "half2"
            BY Zenon, <2>1, <5>1, <5>3
          <5> QED
            BY Zenon, <1>0, <2>2, <2>4, <5>2, <5>3 DEF SapBegun
        <4> QED
          BY Zenon, <2>2, <2>3, <2>4, <4>1, ResponsesClose
      <3> QED
        BY Zenon, <2>1, <3>2, <3>3
    <2>5. CASE ~(VendorGoes(v, "close") /\ written' = written)
      <3>1. PICK f, c : /\ f = vendorFd[v] /\ c = sapFile[f] /\ IsOpen(f)
                        /\ written' = [written EXCEPT ![c] = Append(@, <<vendorMsg[v], vendorAt[v]>>)]
                        /\ VendorGoes(v, IF vendorAt[v] = "half1" THEN "half2" ELSE "unlock")
        BY Zenon, <1>6, <2>5 DEF SapWrite
      <3>2. f \in SapFds /\ sapFile[f] # Closed
        BY Zenon, <3>1 DEF IsOpen, SapTypeOK
      <3>3. c \in SapThreads
        BY Zenon, <3>1, <3>2, OpenLaw
      <3>4. vendorAt'[v] = AfterHalf(vendorAt[v])
        BY Zenon, <3>1 DEF VendorGoes, SapTypeOK, AfterHalf
      <3>5. vendorAt[v] \in Halves
        BY Zenon, <2>1 DEF Halves
      <3> QED
        BY Zenon, <2>1, <2>2, <2>3, <3>1, <3>2, <3>3, <3>4, <3>5, ResponsesWrite
    <2> QED
      BY Zenon, <2>4, <2>5
  <1>7. ASSUME NEW v \in SapVendors, SapCloseFd(v) PROVE SapResponses'
    <2>1. /\ vendorAt[v] = "close" /\ vendorAt'[v] = "unlock"
          /\ \A w \in SapVendors \ {v} : vendorAt'[w] = vendorAt[w]
          /\ vendorAt[v] \in Inside
      BY Zenon, <1>7 DEF SapCloseFd, VendorGoes, SapTypeOK, Inside
    <2>2. UNCHANGED <<accepted, vendorMsg, vendorFd, writeLock, written>>
      BY Zenon, <1>7 DEF SapCloseFd
    <2>3. /\ \A f \in SapFds : sapFile'[f] = sapFile[f] \/ sapFile'[f] = Closed
          /\ vendorFd[v] \in SapFds => sapFile'[vendorFd[v]] = Closed
      BY Zenon, <1>7, SapAssumption DEF SapCloseFd, SapTypeOK
    <2>4. SapLocked'
      BY Zenon, <1>0, <2>1, <2>2 DEF SapLocked
    <2>5. SapBegun'
      BY Zenon, <1>0, <2>1, <2>2, <2>3, ClosedBegun
    <2> QED
      BY Zenon, <2>2, <2>3, <2>4, <2>5, ResponsesClose
  <1> QED
    BY Zenon, <1>1, <1>2, <1>3, <1>4, <1>5, <1>6, <1>7, ResponsesAccept
       DEF SapNext, SapLoop, SapVendor

-----------------------------------------------------------------------------
(* Memory, when the tokens differ.                                         *)

(* Entering a request that is not in a queue keeps its entries apart. *)
LEMMA EnqueueApart ==
    ASSUME NEW q \in Seq(Nat), NEW r \in Nat, r \notin Entries(q), Apart(q)
    PROVE  /\ Enqueue(q, r) \in Seq(Nat) /\ Apart(Enqueue(q, r))
           /\ Entries(Enqueue(q, r)) = Entries(q) \union {r}
  <1>1. PICK n : n = Len(q)
    OBVIOUS
  <1>2. PICK p : p = Enqueue(q, r)
    OBVIOUS
  <1>3. /\ n \in Nat /\ p \in Seq(Nat) /\ p[1] = r
        /\ DOMAIN q = 1 .. n /\ DOMAIN p = 1 .. n + 1
        /\ \A i \in 1 .. n : p[i + 1] = q[i]
    <2>0. /\ Enqueue(q, r) \in Seq(Nat) /\ Len(Enqueue(q, r)) = Len(q) + 1
          /\ Enqueue(q, r)[1] = r
          /\ \A i \in 1 .. Len(q) : Enqueue(q, r)[i + 1] = q[i]
      BY Zenon, EnqueueLaw
    <2>1. /\ p \in Seq(Nat) /\ Len(p) = n + 1 /\ p[1] = r
          /\ \A i \in 1 .. n : p[i + 1] = q[i]
      BY Zenon, <1>1, <1>2, <2>0
    <2>2. p \in Seq(Nat) /\ Len(p) = n + 1
      BY Zenon, <2>1
    <2>3. n \in Nat /\ DOMAIN q = 1 .. n /\ DOMAIN p = 1 .. n + 1
      BY <1>1, <2>2
    <2> QED
      BY Zenon, <2>1, <2>3
  <1>4. \A i \in 1 .. n : q[i] # r
    BY Zenon, <1>3 DEF Entries
  <1>5. ASSUME NEW i \in 1 .. n + 1, i # 1
        PROVE  i - 1 \in 1 .. n /\ p[i] = q[i - 1]
    <2>1. i - 1 \in 1 .. n /\ (i - 1) + 1 = i
      BY <1>3, <1>5
    <2> QED
      BY Zenon, <1>3, <2>1
  <1>6. Apart(p)
    <2> SUFFICES ASSUME NEW i \in 1 .. n + 1, NEW j \in 1 .. n + 1, p[i] = p[j] PROVE i = j
      BY Zenon, <1>3 DEF Apart
    <2>1. CASE i = 1
      BY Zenon, <1>3, <1>4, <1>5, <2>1
    <2>2. CASE j = 1
      BY Zenon, <1>3, <1>4, <1>5, <2>2
    <2>3. CASE i # 1 /\ j # 1
      <3>1. i - 1 \in DOMAIN q /\ j - 1 \in DOMAIN q /\ q[i - 1] = q[j - 1]
        BY Zenon, <1>3, <1>5, <2>3
      <3>2. i - 1 = j - 1
        BY Zenon, <3>1 DEF Apart
      <3> QED
        BY <3>2
    <2> QED
      BY Zenon, <2>1, <2>2, <2>3
  <1>7. ASSUME NEW y \in Entries(p) PROVE y \in Entries(q) \union {r}
    <2>1. PICK i \in 1 .. n + 1 : y = p[i]
      BY Zenon, <1>3, <1>7 DEF Entries
    <2>2. CASE i = 1
      BY Zenon, <1>3, <2>1, <2>2
    <2>3. CASE i # 1
      BY Zenon, <1>3, <1>5, <2>1, <2>3 DEF Entries
    <2> QED
      BY Zenon, <2>2, <2>3
  <1>8. ASSUME NEW y \in Entries(q) PROVE y \in Entries(p)
    <2>1. PICK i \in 1 .. n : y = q[i]
      BY Zenon, <1>3, <1>8 DEF Entries
    <2>2. i + 1 \in 1 .. n + 1
      BY <1>3
    <2> QED
      BY Zenon, <1>3, <2>1, <2>2 DEF Entries
  <1>9. r \in Entries(p)
    <2>1. 1 \in DOMAIN p /\ p[1] = r
      BY <1>3
    <2> QED
      BY Zenon, <2>1 DEF Entries
  <1> QED
    BY Zenon, <1>2, <1>3, <1>6, <1>7, <1>8, <1>9

(* Taking one entry out of a queue whose entries differ takes that request *)
(* out and no other.                                                       *)
LEMMA UnlinkApart ==
    ASSUME NEW q \in Seq(Nat), NEW k \in DOMAIN q, Apart(q)
    PROVE  /\ Unlink(q, k) \in Seq(Nat) /\ Apart(Unlink(q, k))
           /\ Entries(Unlink(q, k)) = Entries(q) \ {q[k]}
  <1>1. PICK n : n = Len(q)
    OBVIOUS
  <1>2. PICK p : p = Unlink(q, k)
    OBVIOUS
  <1>3. /\ n \in Nat /\ p \in Seq(Nat) /\ k \in 1 .. n
        /\ DOMAIN q = 1 .. n /\ DOMAIN p = 1 .. n - 1
        /\ \A j \in 1 .. n - 1 : p[j] = IF j < k THEN q[j] ELSE q[j + 1]
    <2>1. n \in Nat /\ DOMAIN q = 1 .. n /\ k \in 1 .. Len(q)
      BY <1>1
    <2>2. /\ p \in Seq(Nat) /\ Len(p) = n - 1
          /\ \A j \in 1 .. n - 1 : p[j] = IF j < k THEN q[j] ELSE q[j + 1]
      BY Zenon, <1>1, <1>2, <2>1, UnlinkLaw
    <2>3. p \in Seq(Nat) /\ Len(p) = n - 1
      BY Zenon, <2>2
    <2>4. DOMAIN p = 1 .. n - 1
      BY <2>3
    <2> QED
      BY Zenon, <1>1, <2>1, <2>2, <2>4
  <1> DEFINE from(j) == IF j < k THEN j ELSE j + 1
  <1>4. \A j \in 1 .. n - 1 : from(j) \in 1 .. n /\ from(j) # k /\ p[j] = q[from(j)]
    <2> SUFFICES ASSUME NEW j \in 1 .. n - 1
                 PROVE  from(j) \in 1 .. n /\ from(j) # k /\ p[j] = q[from(j)]
      BY Zenon
    <2>1. n \in Nat /\ k \in 1 .. n
      BY Zenon, <1>3
    <2>2. from(j) \in 1 .. n /\ from(j) # k
      BY <2>1
    <2>3. p[j] = q[from(j)]
      BY Zenon, <1>3
    <2> QED
      BY Zenon, <2>2, <2>3
  <1>5. \A i, j \in 1 .. n - 1 : from(i) = from(j) => i = j
    BY <1>3
  <1>6. \A i \in 1 .. n : i # k => \E j \in 1 .. n - 1 : from(j) = i
    <2> SUFFICES ASSUME NEW i \in 1 .. n, i # k PROVE \E j \in 1 .. n - 1 : from(j) = i
      OBVIOUS
    <2>1. CASE i < k
      <3>1. i \in 1 .. n - 1 /\ from(i) = i
        BY <1>3, <2>1
      <3> QED
        BY Zenon, <3>1
    <2>2. CASE ~(i < k)
      <3>1. i - 1 \in 1 .. n - 1 /\ from(i - 1) = i
        BY <1>3, <2>2
      <3> QED
        BY Zenon, <3>1
    <2> QED
      BY Zenon, <2>1, <2>2
  <1> HIDE DEF from
  <1>7. Apart(p)
    <2> SUFFICES ASSUME NEW i \in 1 .. n - 1, NEW j \in 1 .. n - 1, p[i] = p[j] PROVE i = j
      BY Zenon, <1>3 DEF Apart
    <2>1. /\ from(i) \in DOMAIN q /\ from(j) \in DOMAIN q
          /\ q[from(i)] = q[from(j)]
      BY Zenon, <1>3, <1>4
    <2>2. from(i) = from(j)
      BY Zenon, <2>1 DEF Apart
    <2> QED
      BY Zenon, <1>5, <2>2
  <1>8. ASSUME NEW y \in Entries(p) PROVE y \in Entries(q) \ {q[k]}
    <2>1. PICK j \in 1 .. n - 1 : y = p[j]
      BY Zenon, <1>3, <1>8 DEF Entries
    <2>2. y = q[from(j)] /\ from(j) \in DOMAIN q /\ from(j) # k
      BY Zenon, <1>3, <1>4, <2>1
    <2>3. y # q[k]
      BY Zenon, <2>2 DEF Apart
    <2> QED
      BY Zenon, <2>2, <2>3 DEF Entries
  <1>9. ASSUME NEW y \in Entries(q) \ {q[k]} PROVE y \in Entries(p)
    <2>1. PICK i \in 1 .. n : y = q[i]
      BY Zenon, <1>3, <1>9 DEF Entries
    <2>2. PICK j \in 1 .. n - 1 : from(j) = i
      BY Zenon, <1>6, <1>9, <2>1
    <2>3. y = p[j] /\ j \in DOMAIN p
      BY Zenon, <1>3, <1>4, <2>1, <2>2
    <2> QED
      BY Zenon, <2>3 DEF Entries
  <1> QED
    BY Zenon, <1>2, <1>3, <1>7, <1>8, <1>9

(* At the start nothing is allocated. *)
LEMMA MemoryStart == ASSUME SapInit PROVE SapMemoryOK
  BY DEF SapInit, SapMemoryOK, Pushed, Entries, Apart

(* A step that allocates, frees and hands over nothing keeps the memory in *)
(* order.                                                                  *)
LEMMA MemoryAlone ==
    ASSUME SapMemoryOK, UNCHANGED <<token, liveHdr, sapDone, pendingQueue, liveReq>>,
           \A r \in 1 .. Pushed : Awaited(r)' <=> Awaited(r)
    PROVE  SapMemoryOK'
  <1>1. Pushed' = Pushed
    BY Zenon DEF Pushed
  <1>2. liveReq' = {r \in 1 .. Pushed' : Awaited(r)'}
    BY Zenon, <1>1 DEF SapMemoryOK
  <1> QED
    BY Zenon, <1>1, <1>2 DEF SapMemoryOK

(* pushRecord allocates a header with a token of its own. *)
LEMMA MemoryPush ==
    ASSUME SapTypeOK, Known, ~TokensRestart, SapMemoryOK, PushRecord
    PROVE  SapMemoryOK'
  <1>1. PICK n : n = Pushed + 1
    BY Zenon
  <1>2. /\ token' = Append(token, n) /\ liveHdr' = liveHdr \union {n}
        /\ threadAt' = Broadcast(threadAt)
        /\ UNCHANGED <<sapDone, pendingQueue, liveReq, threadReq, withVendor, vendorAt, vendorMsg>>
    BY Zenon, <1>1 DEF PushRecord, sapRadio, sapSenders
  <1>3. /\ Pushed \in Nat /\ n \in Nat /\ Pushed' = n
        /\ \A r \in 1 .. Pushed : token'[r] = token[r]
        /\ token'[n] = n
    BY <1>1, <1>2 DEF Pushed, SapTypeOK
  <1>4. \A r : r \in 1 .. n <=> r \in 1 .. Pushed \/ r = n
    BY <1>1, <1>3
  <1>5. n \notin 1 .. Pushed /\ n \notin 0 .. Pushed
    BY <1>1, <1>3
  <1>6. \A r : Awaited(r)' <=> Awaited(r)
    <2>1. \A t \in SapThreads : threadAt'[t] = "call" <=> threadAt[t] = "call"
      BY Zenon, <1>2 DEF Broadcast
    <2> QED
      BY Zenon, <1>2, <2>1 DEF Awaited, CallsWith, AnswersWith
  <1>7. ~Awaited(n)
    BY Zenon, <1>5 DEF Awaited, CallsWith, AnswersWith, Known
  <1>8. liveReq' = {r \in 1 .. Pushed' : Awaited(r)'}
    BY Zenon, <1>2, <1>3, <1>4, <1>6, <1>7 DEF SapMemoryOK
  <1>9. liveHdr' = (1 .. Pushed') \ sapDone'
    BY Zenon, <1>2, <1>3, <1>4, <1>5 DEF SapMemoryOK, Known
  <1>10. \A r \in 1 .. Pushed' : token'[r] = r
    BY Zenon, <1>3, <1>4 DEF SapMemoryOK
  <1> QED
    BY Zenon, <1>2, <1>8, <1>9, <1>10 DEF SapMemoryOK

(* dispatchRequest allocates the SapSocketRequest and enters it in         *)
(* pendingQueue before it calls the vendor library.                        *)
LEMMA MemoryDispatch ==
    ASSUME SapTypeOK, SapPlaced, InHand, Known, SapMemoryOK, NEW t \in SapThreads, DispatchRequest(t)
    PROVE  SapMemoryOK'
  <1>1. PICK m : m = threadReq[t]
    BY Zenon
  <1>2. /\ pendingQueue' = Enqueue(pendingQueue, m) /\ liveReq' = liveReq \union {m}
        /\ threadAt[t] = "dispatch" /\ threadAt' = [threadAt EXCEPT ![t] = "call"]
        /\ UNCHANGED <<token, liveHdr, sapDone, threadReq, withVendor, vendorAt, vendorMsg>>
    BY Zenon, <1>1 DEF DispatchRequest, sapRadio, sapSenders
  <1>3. m \in 1 .. Pushed /\ m \in Nat /\ Pushed' = Pushed
    BY <1>1, <1>2, PushedLaw DEF InHand, Known, Pushed
  <1>4. threadAt'[t] = "call" /\ \A u \in SapThreads \ {t} : threadAt'[u] = threadAt[u]
    BY Zenon, <1>2 DEF SapTypeOK
  <1>7. ~Awaited(m)
    <2>1. t \in AtThread(m)
      BY Zenon, <1>1 DEF AtThread
    <2>2. AtThread(m) = {t} /\ AtVendor(m) = {} /\ AtAnswer(m) = {}
      BY Zenon, <1>3, <2>1, FoundThread
    <2>3. "dispatch" # "call"
      OBVIOUS
    <2>4. ~CallsWith(m)
      BY Zenon, <1>2, <2>2, <2>3 DEF CallsWith, AtThread
    <2>5. m \notin withVendor /\ ~AnswersWith(m)
      BY Zenon, <2>2 DEF AnswersWith, AtVendor, AtAnswer
    <2> QED
      BY Zenon, <2>4, <2>5 DEF Awaited
  <1>8. \A r : Awaited(r)' <=> Awaited(r) \/ r = m
    <2>1. \A r : CallsWith(r)' <=> CallsWith(r) \/ r = m
      <3>1. "dispatch" # "call"
        OBVIOUS
      <3> QED
        BY Zenon, <1>1, <1>2, <1>4, <3>1 DEF CallsWith
    <2>2. \A r : AnswersWith(r)' <=> AnswersWith(r)
      BY Zenon, <1>2 DEF AnswersWith
    <2> QED
      BY Zenon, <1>2, <2>1, <2>2 DEF Awaited
  <1>9. liveReq' = {r \in 1 .. Pushed' : Awaited(r)'}
    BY Zenon, <1>2, <1>3, <1>8 DEF SapMemoryOK
  <1>10. pendingQueue \in Seq(Nat) /\ m \notin Entries(pendingQueue) /\ Apart(pendingQueue)
    BY Zenon, <1>7 DEF SapMemoryOK
  <1>11. /\ pendingQueue' \in Seq(Nat) /\ Apart(pendingQueue')
         /\ Entries(pendingQueue') = Entries(pendingQueue) \union {m}
    BY Zenon, <1>2, <1>3, <1>10, EnqueueApart
  <1>12. Entries(pendingQueue') = liveReq'
    BY Zenon, <1>2, <1>11 DEF SapMemoryOK
  <1> QED
    BY Zenon, <1>2, <1>3, <1>9, <1>11, <1>12 DEF SapMemoryOK

(* checkAndDequeue looks a request up by its token: as tokens differ it    *)
(* finds the request that was answered, and that one is taken out and      *)
(* freed.                                                                  *)
LEMMA MemoryCheck ==
    ASSUME SapTypeOK, SapPlaced, InHand, Known, SapMemoryOK, NEW v \in SapVendors,
           CheckAndDequeue(v), vendorMsg[v] # Unsolicited
    PROVE  SapMemoryOK'
  <1>1. PICK m : m = vendorMsg[v]
    BY Zenon
  <1>2. /\ vendorAt[v] = "remove" /\ VendorGoes(v, "free")
        /\ UNCHANGED <<token, liveHdr, sapDone, threadAt, threadReq, withVendor, vendorMsg>>
    BY Zenon, <1>1 DEF CheckAndDequeue, sapRadio, sapThreads
  <1>3. m \in 1 .. Pushed /\ Pushed' = Pushed
    BY <1>1, <1>2, PushedLaw DEF Known, Pushed, Unsolicited
  <1>4. vendorAt'[v] = "free" /\ \A w \in SapVendors \ {v} : vendorAt'[w] = vendorAt[w]
    <2>1. "free" \in VendorPlaces /\ vendorAt \in [SapVendors -> VendorPlaces]
      BY Zenon DEF VendorPlaces, SapTypeOK
    <2> QED
      BY Zenon, <1>2, <2>1, VendorGoesLaw
  <1>5. m \in Entries(pendingQueue)
    <2>1. "remove" \in BeforeRemove
      BY Zenon DEF BeforeRemove
    <2> QED
      BY Zenon, <1>1, <1>2, <1>3, <2>1 DEF SapMemoryOK, Awaited, AnswersWith
  <1>6. PICK k \in DOMAIN pendingQueue : pendingQueue[k] = m
    BY Zenon, <1>5 DEF Entries
  <1>7. \A i \in DOMAIN pendingQueue : token[pendingQueue[i]] = pendingQueue[i]
    <2>1. \A i \in DOMAIN pendingQueue : pendingQueue[i] \in 1 .. Pushed
      BY Zenon DEF SapMemoryOK, Entries
    <2> QED
      BY Zenon, <2>1 DEF SapMemoryOK
  <1>8. token[m] = m
    BY Zenon, <1>3 DEF SapMemoryOK
  <1> DEFINE match == {i \in DOMAIN pendingQueue :
                        token[pendingQueue[i]] = token[vendorMsg[v]]}
             first == CHOOSE i \in match : \A j \in match : i <= j
  <1>9. match = {k}
    <2>1. \A i \in DOMAIN pendingQueue : token[pendingQueue[i]] = token[vendorMsg[v]] <=> pendingQueue[i] = m
      BY Zenon, <1>1, <1>7, <1>8
    <2>2. \A i \in DOMAIN pendingQueue : pendingQueue[i] = m <=> i = k
      BY Zenon, <1>6 DEF SapMemoryOK, Apart
    <2> QED
      BY Zenon, <1>6, <2>1, <2>2
  <1>10. /\ IF vendorMsg[v] = Unsolicited \/ match = {}
              THEN UNCHANGED <<pendingQueue, liveReq>>
              ELSE /\ pendingQueue' = Unlink(pendingQueue, first)
                   /\ liveReq' = liveReq \ {pendingQueue[first]}
    BY Zenon DEF CheckAndDequeue
  <1>11. pendingQueue' = Unlink(pendingQueue, k) /\ liveReq' = liveReq \ {m}
    <2> HIDE DEF match
    <2>1. k \in Int
      BY <1>6 DEF SapMemoryOK
    <2>2. k \in match /\ \A j \in match : k <= j
      BY <1>9, <2>1
    <2>3. first \in match
      BY Zenon, <2>2
    <2> HIDE DEF first
    <2>4. first = k /\ match # {}
      BY Zenon, <1>9, <2>3
    <2> QED
      BY Zenon, <1>6, <1>10, <2>4
  <1>12. /\ pendingQueue' \in Seq(Nat) /\ Apart(pendingQueue')
         /\ Entries(pendingQueue') = Entries(pendingQueue) \ {m}
    BY Zenon, <1>6, <1>11, UnlinkApart DEF SapMemoryOK
  <1>13. "free" \notin BeforeRemove
    BY Zenon DEF BeforeRemove
  <1>14. ~Awaited(m)'
    <2>1. v \in AtAnswer(m)
      BY Zenon, <1>1 DEF AtAnswer
    <2>2. AtThread(m) = {} /\ AtVendor(m) = {} /\ AtAnswer(m) = {v}
      BY Zenon, <1>3, <2>1, FoundAnswer
    <2> QED
      BY Zenon, <1>2, <1>4, <1>13, <2>2
         DEF Awaited, CallsWith, AnswersWith, AtThread, AtVendor, AtAnswer
  <1>15. \A r : r # m => (Awaited(r)' <=> Awaited(r))
    <2>1. \A r : CallsWith(r)' <=> CallsWith(r)
      BY Zenon, <1>2 DEF CallsWith
    <2>2. \A r : r # m => (AnswersWith(r)' <=> AnswersWith(r))
      BY Zenon, <1>1, <1>2, <1>4 DEF AnswersWith
    <2> QED
      BY Zenon, <1>2, <2>1, <2>2 DEF Awaited
  <1>16. liveReq' = {r \in 1 .. Pushed' : Awaited(r)'}
    BY Zenon, <1>3, <1>11, <1>14, <1>15 DEF SapMemoryOK
  <1>17. Entries(pendingQueue') = liveReq'
    BY Zenon, <1>11, <1>12 DEF SapMemoryOK
  <1> QED
    BY Zenon, <1>2, <1>3, <1>12, <1>16, <1>17 DEF SapMemoryOK

(* The header goes with the request. *)
LEMMA MemoryFree ==
    ASSUME SapTypeOK, InHand, Known, SapMemoryOK, NEW v \in SapVendors, FreeHeader(v)
    PROVE  SapMemoryOK'
  <1>1. PICK m : m = vendorMsg[v]
    BY Zenon
  <1>2. /\ vendorAt[v] = "free" /\ VendorGoes(v, "idle")
        /\ vendorMsg' = [vendorMsg EXCEPT ![v] = Unsolicited]
        /\ liveHdr' = liveHdr \ {m} /\ sapDone' = sapDone \union {m}
        /\ UNCHANGED <<token, pendingQueue, liveReq, threadAt, threadReq, withVendor>>
    BY Zenon, <1>1 DEF FreeHeader, sapQueues, sapRadio, sapThreads
  <1>3. Pushed' = Pushed
    BY Zenon, <1>2 DEF Pushed
  <1>4. /\ vendorAt'[v] = "idle"
        /\ \A w \in SapVendors \ {v} : vendorAt'[w] = vendorAt[w] /\ vendorMsg'[w] = vendorMsg[w]
    <2>1. "idle" \in VendorPlaces /\ vendorAt \in [SapVendors -> VendorPlaces]
      BY Zenon DEF VendorPlaces, SapTypeOK
    <2>2. \A w \in SapVendors \ {v} : vendorMsg'[w] = vendorMsg[w]
      BY Zenon, <1>2 DEF SapTypeOK
    <2> QED
      BY Zenon, <1>2, <2>1, <2>2, VendorGoesLaw
  <1>5. "free" \notin BeforeRemove /\ "idle" \notin BeforeRemove
    BY Zenon DEF BeforeRemove
  <1>6. \A r : Awaited(r)' <=> Awaited(r)
    <2>1. \A r : CallsWith(r)' <=> CallsWith(r)
      BY Zenon, <1>2 DEF CallsWith
    <2>2. \A r : AnswersWith(r)' <=> AnswersWith(r)
      BY Zenon, <1>2, <1>4, <1>5 DEF AnswersWith
    <2> QED
      BY Zenon, <1>2, <2>1, <2>2 DEF Awaited
  <1>7. liveReq' = {r \in 1 .. Pushed' : Awaited(r)'}
    BY Zenon, <1>2, <1>3, <1>6 DEF SapMemoryOK
  <1>8. liveHdr' = (1 .. Pushed') \ sapDone'
    BY Zenon, <1>2, <1>3 DEF SapMemoryOK
  <1> QED
    BY Zenon, <1>2, <1>3, <1>7, <1>8 DEF SapMemoryOK

(* A sender whose own request stays as it is changes nothing about who     *)
(* waits for what.                                                         *)
LEMMA AwaitedSender ==
    ASSUME NEW v \in SapVendors, UNCHANGED <<threadAt, threadReq, withVendor>>,
           \A w \in SapVendors \ {v} : vendorAt'[w] = vendorAt[w] /\ vendorMsg'[w] = vendorMsg[w],
           \A r \in 1 .. Pushed : (vendorAt'[v] \in BeforeRemove /\ vendorMsg'[v] = r)
                                  <=> (vendorAt[v] \in BeforeRemove /\ vendorMsg[v] = r)
    PROVE  \A r \in 1 .. Pushed : Awaited(r)' <=> Awaited(r)
  <1>1. \A r \in 1 .. Pushed : CallsWith(r)' <=> CallsWith(r)
    BY Zenon DEF CallsWith
  <1>2. ASSUME NEW r \in 1 .. Pushed PROVE AnswersWith(r)' <=> AnswersWith(r)
    BY Zenon DEF AnswersWith
  <1> QED
    BY Zenon, <1>1, <1>2 DEF Awaited

(* Nor does a dispatch thread outside the call. *)
LEMMA AwaitedThread ==
    ASSUME NEW t \in SapThreads, UNCHANGED <<withVendor, vendorAt, vendorMsg>>,
           \A u \in SapThreads \ {t} : threadAt'[u] = threadAt[u] /\ threadReq'[u] = threadReq[u],
           threadAt[t] # "call", threadAt'[t] # "call"
    PROVE  \A r \in 1 .. Pushed : Awaited(r)' <=> Awaited(r)
  <1>1. \A r \in 1 .. Pushed : CallsWith(r)' <=> CallsWith(r)
    BY Zenon DEF CallsWith
  <1>2. ASSUME NEW r \in 1 .. Pushed PROVE AnswersWith(r)' <=> AnswersWith(r)
    BY Zenon DEF AnswersWith
  <1> QED
    BY Zenon, <1>1, <1>2 DEF Awaited

(* In the call a request goes from the thread to the vendor library. *)
LEMMA AwaitedCall ==
    ASSUME SapTypeOK, NEW t \in SapThreads, CallOnRequest(t)
    PROVE  \A r \in 1 .. Pushed : Awaited(r)' <=> Awaited(r)
  <1>1. PICK m : m = threadReq[t]
    BY Zenon
  <1>2. /\ threadAt[t] = "call" /\ withVendor' = withVendor \union {m}
        /\ threadAt' = [threadAt EXCEPT ![t] = "dequeue"]
        /\ threadReq' = [threadReq EXCEPT ![t] = 0]
        /\ UNCHANGED <<vendorAt, vendorMsg>>
    BY Zenon, <1>1 DEF CallOnRequest, sapSenders
  <1>3. /\ threadAt'[t] = "dequeue"
        /\ \A u \in SapThreads \ {t} : threadAt'[u] = threadAt[u] /\ threadReq'[u] = threadReq[u]
    BY Zenon, <1>2 DEF SapTypeOK
  <1>4. "dequeue" # "call"
    OBVIOUS
  <1>5. \A r : CallsWith(r) <=> CallsWith(r)' \/ r = m
    <2>1. ASSUME NEW r, CallsWith(r) PROVE CallsWith(r)' \/ r = m
      BY Zenon, <1>1, <1>3, <2>1 DEF CallsWith
    <2>2. ASSUME NEW r, CallsWith(r)' PROVE CallsWith(r)
      BY Zenon, <1>3, <1>4, <2>2 DEF CallsWith
    <2>3. CallsWith(m)
      BY Zenon, <1>1, <1>2 DEF CallsWith
    <2> QED
      BY Zenon, <2>1, <2>2, <2>3
  <1>6. \A r : AnswersWith(r)' <=> AnswersWith(r)
    BY Zenon, <1>2 DEF AnswersWith
  <1> QED
    BY Zenon, <1>2, <1>5, <1>6 DEF Awaited

(* In onRequestComplete it goes from the library to the thread that        *)
(* answers.                                                                *)
LEMMA AwaitedComplete ==
    ASSUME SapTypeOK, NEW v \in SapVendors, SapComplete(v)
    PROVE  \A r \in 1 .. Pushed : Awaited(r)' <=> Awaited(r)
  <1>1. PICK m \in withVendor, place \in {"lock", "remove"} :
          /\ vendorMsg' = [vendorMsg EXCEPT ![v] = m] /\ withVendor' = withVendor \ {m}
          /\ VendorGoes(v, place)
    BY Zenon DEF SapComplete
  <1>2. vendorAt[v] = "idle" /\ UNCHANGED <<threadAt, threadReq>>
    BY Zenon DEF SapComplete, sapThreads
  <1>3. /\ vendorAt'[v] = place /\ vendorMsg'[v] = m
        /\ \A w \in SapVendors \ {v} : vendorAt'[w] = vendorAt[w] /\ vendorMsg'[w] = vendorMsg[w]
    <2>1. place \in VendorPlaces /\ vendorAt \in [SapVendors -> VendorPlaces]
      BY Zenon DEF VendorPlaces, SapTypeOK
    <2>2. vendorMsg'[v] = m /\ \A w \in SapVendors \ {v} : vendorMsg'[w] = vendorMsg[w]
      BY Zenon, <1>1 DEF SapTypeOK
    <2> QED
      BY Zenon, <1>1, <2>1, <2>2, VendorGoesLaw
  <1>4. "idle" \notin BeforeRemove /\ place \in BeforeRemove
    BY Zenon DEF BeforeRemove
  <1>5. \A r : AnswersWith(r)' <=> AnswersWith(r) \/ r = m
    <2>1. ASSUME NEW r, AnswersWith(r)' PROVE AnswersWith(r) \/ r = m
      BY Zenon, <1>3, <2>1 DEF AnswersWith
    <2>2. ASSUME NEW r, AnswersWith(r) PROVE AnswersWith(r)'
      BY Zenon, <1>2, <1>3, <1>4, <2>2 DEF AnswersWith
    <2>3. AnswersWith(m)'
      BY Zenon, <1>3, <1>4 DEF AnswersWith
    <2> QED
      BY Zenon, <2>1, <2>2, <2>3
  <1>6. \A r : CallsWith(r)' <=> CallsWith(r)
    BY Zenon, <1>2 DEF CallsWith
  <1> QED
    BY Zenon, <1>1, <1>5, <1>6 DEF Awaited

(* Every step keeps the memory in order when tokens differ. *)
LEMMA MemoryKept ==
    ASSUME SapTypeOK, Started, SapPlaced, InHand, Known, ~TokensRestart, SapMemoryOK, SapNext
    PROVE  SapMemoryOK'
  <1>1. CASE SapAccept
    <2>1. PICK t : t = accepted + 1
      BY Zenon
    <2>2. /\ threadAt' = [threadAt EXCEPT ![t] = "dequeue"]
          /\ UNCHANGED <<threadReq, withVendor, vendorAt, vendorMsg>>
      BY Zenon, <1>1, <2>1 DEF SapAccept, sapRadio, sapSenders
    <2>3. UNCHANGED <<token, liveHdr, sapDone, pendingQueue, liveReq>>
      BY Zenon, <1>1 DEF SapAccept, sapQueues, sapMemory
    <2>4. t \in SapThreads /\ threadAt[t] = "none"
      <3>1. accepted < SapConns /\ accepted \in 0 .. SapConns
        BY Zenon, <1>1 DEF SapAccept, SapTypeOK
      <3>2. t \in SapThreads /\ ~(t <= accepted)
        BY <2>1, <3>1, SapAssumption DEF SapThreads
      <3> QED
        BY Zenon, <3>2 DEF Started
    <2>5. threadAt'[t] = "dequeue" /\ \A u \in SapThreads \ {t} : threadAt'[u] = threadAt[u]
      BY Zenon, <2>2, <2>4 DEF SapTypeOK
    <2>6. threadAt[t] # "call" /\ threadAt'[t] # "call"
      BY Zenon, <2>4, <2>5
    <2> QED
      BY Zenon, <2>2, <2>3, <2>4, <2>5, <2>6, AwaitedThread, MemoryAlone
  <1>2. CASE SapClose \/ SapForget \/ SapKilled
    <2>1. UNCHANGED <<token, liveHdr, sapDone, pendingQueue, liveReq>>
      BY Zenon, <1>2 DEF SapClose, SapForget, SapKilled, sapQueues, sapMemory
    <2>2. UNCHANGED <<threadAt, threadReq, withVendor, vendorAt, vendorMsg>>
      BY Zenon, <1>2 DEF SapClose, SapForget, SapKilled, sapThreads, sapRadio, sapSenders
    <2>3. \A r \in 1 .. Pushed : Awaited(r)' <=> Awaited(r)
      BY Zenon, <2>2 DEF Awaited, CallsWith, AnswersWith
    <2> QED
      BY Zenon, <2>1, <2>3, MemoryAlone
  <1>3. ASSUME NEW t \in SapThreads, Dequeue(t) PROVE SapMemoryOK'
    <2>1. UNCHANGED <<token, liveHdr, sapDone, pendingQueue, liveReq, withVendor, vendorAt, vendorMsg>>
      BY Zenon, <1>3 DEF Dequeue, sapRadio, sapSenders, sapMemory
    <2>2. /\ threadAt[t] # "call" /\ threadAt'[t] # "call"
          /\ \A u \in SapThreads \ {t} : threadAt'[u] = threadAt[u]
      BY Zenon, <1>3 DEF Dequeue, SapTypeOK
    <2>3. \A u \in SapThreads \ {t} : threadReq'[u] = threadReq[u]
      BY Zenon, <1>3 DEF Dequeue, SapTypeOK
    <2> QED
      BY Zenon, <2>1, <2>2, <2>3, AwaitedThread, MemoryAlone
  <1>4. ASSUME NEW t \in SapThreads, CallOnRequest(t) PROVE SapMemoryOK'
    <2>1. UNCHANGED <<token, liveHdr, sapDone, pendingQueue, liveReq>>
      BY Zenon, <1>4 DEF CallOnRequest, sapQueues, sapMemory
    <2> QED
      BY Zenon, <1>4, <2>1, AwaitedCall, MemoryAlone
  <1>5. ASSUME NEW v \in SapVendors, SapComplete(v) PROVE SapMemoryOK'
    <2>1. UNCHANGED <<token, liveHdr, sapDone, pendingQueue, liveReq>>
      BY Zenon, <1>5 DEF SapComplete, sapQueues, sapMemory
    <2> QED
      BY Zenon, <1>5, <2>1, AwaitedComplete, MemoryAlone
  <1>6. 0 \notin 1 .. Pushed /\ Unsolicited = 0
    BY Zenon, PushedLaw DEF Unsolicited
  <1>7. ASSUME NEW v \in SapVendors, SapUnsolicited(v) PROVE SapMemoryOK'
    <2>1. UNCHANGED <<token, liveHdr, sapDone, pendingQueue, liveReq, threadAt, threadReq, withVendor>>
      BY Zenon, <1>7 DEF SapUnsolicited, sapQueues, sapThreads, sapMemory
    <2>2. /\ vendorAt[v] = "idle" /\ vendorMsg'[v] = 0
          /\ \A w \in SapVendors \ {v} : vendorAt'[w] = vendorAt[w] /\ vendorMsg'[w] = vendorMsg[w]
      BY Zenon, <1>7 DEF SapUnsolicited, VendorGoes, SapTypeOK, Unsolicited
    <2>3. "idle" \notin BeforeRemove
      BY Zenon DEF BeforeRemove
    <2>4. \A r \in 1 .. Pushed : (vendorAt'[v] \in BeforeRemove /\ vendorMsg'[v] = r)
                                 <=> (vendorAt[v] \in BeforeRemove /\ vendorMsg[v] = r)
      BY Zenon, <1>6, <2>2, <2>3
    <2> QED
      BY Zenon, <2>1, <2>2, <2>4, AwaitedSender, MemoryAlone
  <1>8. ASSUME NEW v \in SapVendors,
               SapLock(v) \/ SapReadFd(v) \/ SapWrite(v) \/ SapCloseFd(v) \/ SapUnlock(v)
        PROVE  SapMemoryOK'
    <2>1. UNCHANGED <<token, liveHdr, sapDone, pendingQueue, liveReq, threadAt, threadReq, withVendor,
                      vendorMsg>>
      BY Zenon, <1>8 DEF SapLock, SapReadFd, SapWrite, SapCloseFd, SapUnlock, sapQueues,
         sapThreads,
         sapRadio, sapMemory
    <2>2. vendorAt[v] \in BeforeRemove /\ (vendorAt'[v] \in BeforeRemove \/ vendorMsg[v] = 0)
      BY Zenon, <1>8 DEF SapLock, SapReadFd, SapWrite, SapCloseFd, SapUnlock, VendorGoes,
         SapTypeOK,
         BeforeRemove, Unsolicited
    <2>3. \A w \in SapVendors \ {v} : vendorAt'[w] = vendorAt[w]
      BY Zenon, <1>8 DEF SapLock, SapReadFd, SapWrite, SapCloseFd, SapUnlock, VendorGoes,
         SapTypeOK
    <2>4. \A r \in 1 .. Pushed : (vendorAt'[v] \in BeforeRemove /\ vendorMsg'[v] = r)
                                 <=> (vendorAt[v] \in BeforeRemove /\ vendorMsg[v] = r)
      BY Zenon, <1>6, <2>1, <2>2
    <2> QED
      BY Zenon, <2>1, <2>3, <2>4, AwaitedSender, MemoryAlone
  <1>9. ASSUME NEW v \in SapVendors, CheckAndDequeue(v) PROVE SapMemoryOK'
    <2>1. CASE vendorMsg[v] = Unsolicited
      <3>1. UNCHANGED <<token, liveHdr, sapDone, pendingQueue, liveReq, threadAt, threadReq, withVendor,
                        vendorMsg>>
        BY Zenon, <1>9, <2>1 DEF CheckAndDequeue, sapThreads, sapRadio
      <3>2. \A w \in SapVendors \ {v} : vendorAt'[w] = vendorAt[w]
        BY Zenon, <1>9 DEF CheckAndDequeue, VendorGoes, SapTypeOK
      <3>3. \A r \in 1 .. Pushed : vendorMsg'[v] # r /\ vendorMsg[v] # r
        BY Zenon, <1>6, <2>1, <3>1
      <3> QED
        BY Zenon, <3>1, <3>2, <3>3, AwaitedSender, MemoryAlone
    <2> QED
      BY Zenon, <1>9, <2>1, MemoryCheck
  <1> QED
    BY Zenon, <1>1, <1>2, <1>3, <1>4, <1>5, <1>7, <1>8, <1>9, MemoryPush, MemoryDispatch,
       MemoryFree DEF SapNext, SapLoop, SapThread, SapVendor

(* What is awaited is allocated, so nobody uses freed memory. *)
LEMMA MemoryOwned ==
    ASSUME SapTypeOK, SapPlaced, InHand, Known, SapMemoryOK PROVE SapOwned
  <1>1. Entries(pendingQueue) = liveReq
    BY Zenon DEF SapMemoryOK
  <1>2. ASSUME NEW r \in 1 .. Pushed,
               AtQueue(r) # {} \/ AtThread(r) # {} \/ AtVendor(r) # {} \/ AtAnswer(r) # {}
        PROVE  r \in liveHdr
    <2>1. AtDone(r) = {}
      BY Zenon, <1>2, FoundDone
    <2> QED
      BY Zenon, <2>1 DEF AtDone, SapMemoryOK
  <1>3. Entries(dispatchQueue) \subseteq liveHdr
    <2>1. ASSUME NEW i \in DOMAIN dispatchQueue PROVE dispatchQueue[i] \in liveHdr
      <3>1. i \in AtQueue(dispatchQueue[i]) /\ dispatchQueue[i] \in 1 .. Pushed
        BY Zenon DEF AtQueue, Known
      <3> QED
        BY Zenon, <1>2, <3>1
    <2> QED
      BY Zenon, <2>1 DEF Entries
  <1>4. ASSUME NEW r \in withVendor PROVE r \in liveReq \intersect liveHdr
    <2>1. r \in 1 .. Pushed /\ r \in AtVendor(r) /\ Awaited(r)
      BY Zenon DEF Known, AtVendor, Awaited
    <2> QED
      BY Zenon, <1>2, <2>1 DEF SapMemoryOK
  <1>5. ASSUME NEW v \in Answering PROVE vendorMsg[v] \in liveReq \intersect liveHdr
    <2>1. v \in SapVendors /\ vendorAt[v] \in BeforeRemove /\ vendorMsg[v] # Unsolicited
      BY Zenon DEF Answering
    <2>2. vendorMsg[v] \in 1 .. Pushed
      BY <2>1, PushedLaw DEF Known, Unsolicited
    <2>3. v \in AtAnswer(vendorMsg[v]) /\ Awaited(vendorMsg[v])
      BY Zenon, <2>1 DEF AtAnswer, Awaited, AnswersWith
    <2> QED
      BY Zenon, <1>2, <2>2, <2>3 DEF SapMemoryOK
  <1>6. ASSUME NEW t \in SapThreads, threadAt[t] \in {"dispatch", "call"}
        PROVE  threadReq[t] \in liveHdr
    <2>1. threadReq[t] \in 1 .. Pushed
      BY <1>6, PushedLaw DEF InHand, Known
    <2>2. t \in AtThread(threadReq[t])
      BY Zenon DEF AtThread
    <2> QED
      BY Zenon, <1>2, <2>1, <2>2
  <1>7. ASSUME NEW r \in sapDone PROVE r \notin liveReq /\ r \notin liveHdr
    <2>1. r \in 1 .. Pushed /\ r \in AtDone(r)
      BY Zenon DEF Known, AtDone
    <2>2. AtThread(r) = {} /\ AtVendor(r) = {} /\ AtAnswer(r) = {}
      BY Zenon, <2>1, FoundDone
    <2>3. ~Awaited(r)
      BY Zenon, <2>2 DEF Awaited, CallsWith, AnswersWith, AtThread, AtVendor, AtAnswer
    <2> QED
      BY Zenon, <2>3 DEF SapMemoryOK
  <1> QED
    BY Zenon, <1>1, <1>3, <1>4, <1>5, <1>6, <1>7 DEF SapOwned

-----------------------------------------------------------------------------
(* The theorems.                                                           *)

(* The invariant is inductive. *)
LEMMA SapInvariantKept ==
    ASSUME SapIInv, [SapNext]_sapVars PROVE SapIInv'
  <1>1. /\ SapTypeOK /\ Started /\ SapAwake /\ SapPlaced /\ InHand /\ Known /\ SapResponses
        /\ ~TokensRestart => SapMemoryOK
    BY Zenon DEF SapIInv
  <1>2. CASE SapNext
    <2>1. SapTypeOK' /\ Started' /\ SapAwake'
      BY Zenon, <1>1, <1>2, SapTypesKept, AwakeKept
    <2>2. SapPlaced' /\ Known' /\ InHand'
      BY Zenon, <1>1, <1>2, <2>1, PlacedKept, InHandKept
    <2>3. SapResponses'
      BY Zenon, <1>1, <1>2, ResponsesKept
    <2>4. ~TokensRestart => SapMemoryOK'
      BY Zenon, <1>1, <1>2, MemoryKept
    <2> QED
      BY Zenon, <2>1, <2>2, <2>3, <2>4 DEF SapIInv
  <1>3. CASE UNCHANGED sapVars
    <2>1. /\ UNCHANGED <<commandFd, sapFile, accepted, loopAt, records, token, dispatchQueue, pendingQueue,
                         threadAt, threadReq, withVendor, unsolSent>>
          /\ UNCHANGED <<vendorAt, vendorMsg, vendorFd, writeLock, written, liveHdr, liveReq, sapDone>>
      BY Zenon, <1>3 DEF sapVars, sapSocket, sapQueues, sapThreads, sapRadio, sapSenders,
         sapMemory
    <2>2. SapTypeOK' /\ Started'
      BY Zenon, <1>1, <2>1 DEF SapTypeOK, Started
    <2>3. SapAwake'
      BY Zenon, <1>1, <2>1 DEF SapAwake
    <2>4. SapPlaced' /\ Known'
      BY Zenon, <1>1, <2>1, PlacesAlone
    <2>5. InHand'
      BY Zenon, <1>1, <2>1 DEF InHand
    <2>6. SapResponses'
      BY Zenon, <1>1, <2>1, ResponsesAlone
    <2>7. \A r \in 1 .. Pushed : Awaited(r)' <=> Awaited(r)
      BY Zenon, <2>1 DEF Awaited, CallsWith, AnswersWith
    <2>8. ~TokensRestart => SapMemoryOK'
      BY Zenon, <1>1, <2>1, <2>7, MemoryAlone
    <2> QED
      BY Zenon, <2>2, <2>3, <2>4, <2>5, <2>6, <2>8 DEF SapIInv
  <1> QED
    BY Zenon, <1>2, <1>3

(* Every reachable state satisfies the invariant. *)
LEMMA SapAlways == SapSpec => []SapIInv
  <1>1. SapInit => SapIInv
    BY Zenon, SapTypesStart, AwakeStart, PlacedStart, ResponsesStart, MemoryStart DEF SapIInv
  <1>2. SapIInv /\ [SapNext]_sapVars => SapIInv'
    BY Zenon, SapInvariantKept
  <1> QED
    BY <1>1, <1>2, PTL DEF SapSpec

(* A request in dispatchQueue has a dispatch thread that is not asleep     *)
(* (Ril_queue::enqueue, dequeue): no wakeup is lost, whatever the number   *)
(* of connections, threads and requests.                                   *)
THEOREM SapNoLostWakeup == SapSpec => []SapAwake
  <1>1. SapIInv => SapAwake
    BY Zenon DEF SapIInv
  <1> QED
    BY <1>1, SapAlways, PTL

(* Every request that was pushed is at exactly one place: in the queue,    *)
(* with a dispatch thread, with the vendor library, in an answer, or done. *)
(* None is dispatched or answered twice and none is lost (pushRecord,      *)
(* dequeue, dispatchRequest, onRequestComplete).                           *)
THEOREM SapRequestOnce == SapSpec => []SapOnce
  <1>1. SapIInv => SapOnce
    BY Zenon, PlacedOnce DEF SapIInv
  <1> QED
    BY <1>1, SapAlways, PTL

(* The two halves of a response are never torn apart by another sender     *)
(* (write_lock) or by a connection that took the descriptor over: on every *)
(* connection one is followed by the other, except that a stream may begin *)
(* with the rest of a response to the connection before.                   *)
THEOREM SapResponsesWhole == SapSpec => []SapWhole
  <1>1. SapIInv => SapWhole
    BY Zenon DEF SapIInv, SapResponses
  <1> QED
    BY <1>1, SapAlways, PTL

(* As long as the client uses no token twice, everything the threads and   *)
(* the vendor library hold is allocated, and nothing is left of a request  *)
(* that is done (dispatchRequest, checkAndDequeue, onRequestComplete).     *)
(* With tokens that start again the run sap_tokens shows the opposite.     *)
THEOREM SapRequestsOwned == ASSUME ~TokensRestart PROVE SapSpec => []SapOwned
  <1>1. SapIInv => SapOwned
    BY Zenon, MemoryOwned DEF SapIInv
  <1> QED
    BY <1>1, SapAlways, PTL

=============================================================================
