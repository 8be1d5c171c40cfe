------------------------------- MODULE RilSap -------------------------------
(***************************************************************************)
(* The SIM access socket (RilSapSocket.cpp, RilSocket.cpp) and its request *)
(* queues (rilSocketQueue.h).  The event loop accepts a connection, starts *)
(* one more thread that processes requests, and pushes the records it      *)
(* reads onto dispatchQueue.  Every such thread serves that queue, for     *)
(* ever: it notes a request in pendingResponseQueue and hands it to the    *)
(* vendor library, whose threads answer it.                                *)
(*                                                                         *)
(* A request stands for its MsgHeader and for the SapSocketRequest that    *)
(* waits for its answer.  A response is written in two halves: blocking-   *)
(* Write loops over partial writes.  Allocations succeed.                  *)
(***************************************************************************)
EXTENDS Integers, Sequences

CONSTANTS
    SapConns,       \* bound: connections accepted, and threads started
    SapReqs,        \* bound: requests, numbered in the order of their records, and
                    \* unsolicited responses
    SapVendors,     \* threads of the vendor library
    SapFds,         \* descriptors
    TokensRestart   \* whether the client numbers its requests anew in each connection

ASSUME SapAssumption ==
    /\ SapConns \in Nat /\ SapReqs \in Nat /\ TokensRestart \in BOOLEAN
    /\ 0 \notin SapFds /\ -1 \notin SapFds

VARIABLES
    commandFd, sapFile, accepted, loopAt,
    records,        \* records of each connection that were read
    token, dispatchQueue, pendingQueue,
    threadAt, threadReq,
    withVendor,     \* requests the vendor library has to answer
    unsolSent,
    vendorAt, vendorMsg, vendorFd, writeLock, written,
    liveReq, liveHdr, sapDone

sapSocket == <<commandFd, sapFile, accepted, loopAt, records>>
sapQueues == <<token, dispatchQueue, pendingQueue>>
sapThreads == <<threadAt, threadReq>>
sapRadio == <<withVendor, unsolSent>>
sapSenders == <<vendorAt, vendorMsg, vendorFd, writeLock, written>>
sapMemory == <<liveReq, liveHdr, sapDone>>
sapVars == <<sapSocket, sapQueues, sapThreads, sapRadio, sapSenders, sapMemory>>

SapRequests == 1 .. SapReqs
SapThreads == 1 .. SapConns
Unsolicited == 0    \* an unsolicited response, which no request waits for
Closed == 0         \* sapFile: the descriptor is not open
Pushed == Len(token)

SapInit ==
    /\ commandFd = -1 /\ sapFile = [f \in SapFds |-> Closed] /\ accepted = 0
    /\ loopAt = "listen" /\ records = [c \in SapThreads |-> 0]
    /\ token = <<>> /\ dispatchQueue = <<>> /\ pendingQueue = <<>>
    /\ threadAt = [t \in SapThreads |-> "none"] /\ threadReq = [t \in SapThreads |-> 0]
    /\ withVendor = {} /\ unsolSent = 0
    /\ vendorAt = [v \in SapVendors |-> "idle"]
    /\ vendorMsg = [v \in SapVendors |-> Unsolicited]
    /\ vendorFd = [v \in SapVendors |-> -1] /\ writeLock = {}
    /\ written = [c \in SapThreads |-> <<>>]
    /\ liveReq = {} /\ liveHdr = {} /\ sapDone = {}

-----------------------------------------------------------------------------
(* The event loop.                                                         *)

\* listenCallback, the branch of a SAP socket: the descriptor is published and
\* RilSocket::onNewCommandConnect starts a detached thread.
SapAccept ==
    /\ loopAt = "listen" /\ accepted < SapConns
    /\ \E f \in SapFds :
          /\ sapFile[f] = Closed
          /\ sapFile' = [sapFile EXCEPT ![f] = accepted + 1] /\ commandFd' = f
    /\ accepted' = accepted + 1 /\ loopAt' = "serve"
    /\ threadAt' = [threadAt EXCEPT ![accepted + 1] = "dequeue"]
    /\ UNCHANGED <<records, sapQueues, threadReq, sapRadio, sapSenders, sapMemory>>

\* Ril_queue::enqueue puts a request at the front and wakes every waiting thread.
Enqueue(queue, r) == <<r>> \o queue

\* Mutant: nobody is woken.
BroadcastNot(threads) == threads

Broadcast(threads) ==
    [t \in SapThreads |-> IF threads[t] = "waiting" THEN "dequeue" ELSE threads[t]]

\* pushRecord, for a record that decodes.
PushRecord ==
    /\ loopAt = "serve" /\ Pushed + unsolSent < SapReqs /\ sapFile[commandFd] # Closed
    /\ LET r == Pushed + 1
           n == records[accepted] + 1
       IN  /\ records' = [records EXCEPT ![accepted] = n]
           /\ token' = Append(token, IF TokensRestart THEN n ELSE r)
           /\ dispatchQueue' = Enqueue(dispatchQueue, r)
           /\ liveHdr' = liveHdr \union {r}
    /\ threadAt' = Broadcast(threadAt)
    /\ UNCHANGED <<commandFd, sapFile, accepted, loopAt, pendingQueue, threadReq, sapRadio,
                   sapSenders, liveReq, sapDone>>

\* socketRequestsHandler at the end of the stream or on an error: close(commandFd),
\* without write_lock.
SapClose ==
    /\ loopAt = "serve"
    /\ sapFile' = [sapFile EXCEPT ![commandFd] = Closed] /\ loopAt' = "closed"
    /\ UNCHANGED <<commandFd, accepted, records, sapQueues, sapThreads, sapRadio,
                   sapSenders, sapMemory>>

\* The rest of it: forget the descriptor and listen again.  The DISCONNECT that sendDisconnect
\* then makes is in neither queue, and sOnRequestComplete frees it, whose socket id no
\* socket has.
SapForget ==
    /\ loopAt = "closed"
    /\ commandFd' = -1 /\ loopAt' = "listen"
    /\ UNCHANGED <<sapFile, accepted, records, sapQueues, sapThreads, sapRadio,
                   sapSenders, sapMemory>>

\* select on a descriptor that a sender closed: the loop ends and the daemon is killed.
SapKilled ==
    /\ loopAt = "serve" /\ sapFile[commandFd] = Closed
    /\ loopAt' = "killed"
    /\ UNCHANGED <<commandFd, sapFile, accepted, records, sapQueues, sapThreads, sapRadio,
                   sapSenders, sapMemory>>

-----------------------------------------------------------------------------
(* The threads that process requests.                                      *)

\* Mutant: the request is read and stays in the queue.
DequeueCopy(t) ==
    /\ threadAt[t] = "dequeue"
    /\ IF dispatchQueue = <<>>
         THEN threadAt' = [threadAt EXCEPT ![t] = "waiting"]
              /\ UNCHANGED threadReq
         ELSE /\ threadAt' = [threadAt EXCEPT ![t] = "dispatch"]
              /\ threadReq' = [threadReq EXCEPT ![t] = Head(dispatchQueue)]
    /\ UNCHANGED <<sapSocket, sapQueues, sapRadio, sapSenders, sapMemory>>

\* Ril_queue::dequeue, from the test on: the mutex is released only by the wait.
Dequeue(t) ==
    /\ threadAt[t] = "dequeue"
    /\ IF dispatchQueue = <<>>
         THEN threadAt' = [threadAt EXCEPT ![t] = "waiting"]
              /\ UNCHANGED <<threadReq, dispatchQueue>>
         ELSE /\ threadAt' = [threadAt EXCEPT ![t] = "dispatch"]
              /\ threadReq' = [threadReq EXCEPT ![t] = Head(dispatchQueue)]
              /\ dispatchQueue' = Tail(dispatchQueue)
    /\ UNCHANGED <<sapSocket, token, pendingQueue, sapRadio, sapSenders, sapMemory>>

\* dispatchRequest: a SapSocketRequest that waits for the answer.
DispatchRequest(t) ==
    /\ threadAt[t] = "dispatch"
    /\ pendingQueue' = Enqueue(pendingQueue, threadReq[t])
    /\ liveReq' = liveReq \union {threadReq[t]}
    /\ threadAt' = [threadAt EXCEPT ![t] = "call"]
    /\ UNCHANGED <<sapSocket, token, dispatchQueue, threadReq, sapRadio, sapSenders,
                   liveHdr, sapDone>>

\* dispatchRequest: the call of onRequest; processRequestsLoop goes on.
CallOnRequest(t) ==
    /\ threadAt[t] = "call"
    /\ withVendor' = withVendor \union {threadReq[t]}
    /\ threadAt' = [threadAt EXCEPT ![t] = "dequeue"]
    /\ threadReq' = [threadReq EXCEPT ![t] = 0]
    /\ UNCHANGED <<sapSocket, sapQueues, unsolSent, sapSenders, sapMemory>>

-----------------------------------------------------------------------------
(* The threads of the vendor library.                                      *)

VendorGoes(v, place) == vendorAt' = [vendorAt EXCEPT ![v] = place]

\* Mutant: an answer without data is not looked up either.
SapCompleteEarly(v) ==
    /\ vendorAt[v] = "idle"
    /\ \E r \in withVendor, place \in {"lock", "free"} :
          /\ vendorMsg' = [vendorMsg EXCEPT ![v] = r]
          /\ withVendor' = withVendor \ {r}
          /\ VendorGoes(v, place)
    /\ UNCHANGED <<sapSocket, sapQueues, sapThreads, unsolSent, vendorFd, writeLock,
                   written, sapMemory>>

\* onRequestComplete: an answer without data is not sent.
SapComplete(v) ==
    /\ vendorAt[v] = "idle"
    /\ \E r \in withVendor, place \in {"lock", "remove"} :
          /\ vendorMsg' = [vendorMsg EXCEPT ![v] = r]
          /\ withVendor' = withVendor \ {r}
          /\ VendorGoes(v, place)
    /\ UNCHANGED <<sapSocket, sapQueues, sapThreads, unsolSent, vendorFd, writeLock,
                   written, sapMemory>>

\* onUnsolicitedResponse.
SapUnsolicited(v) ==
    /\ vendorAt[v] = "idle" /\ Pushed + unsolSent < SapReqs
    /\ unsolSent' = unsolSent + 1
    /\ vendorMsg' = [vendorMsg EXCEPT ![v] = Unsolicited]
    /\ VendorGoes(v, "lock")
    /\ UNCHANGED <<sapSocket, sapQueues, sapThreads, withVendor, vendorFd, writeLock, written,
                   sapMemory>>

\* Mutant: the lock is not waited for.
SapLockNot(v) ==
    /\ vendorAt[v] = "lock"
    /\ IF commandFd = -1
         THEN VendorGoes(v, "remove") /\ UNCHANGED writeLock
         ELSE VendorGoes(v, "encoded") /\ writeLock' = {v}
    /\ UNCHANGED <<sapSocket, sapQueues, sapThreads, sapRadio, vendorMsg, vendorFd, written,
                   sapMemory>>

\* sendResponse: after the lock commandFd is tested, and read again for the write.
SapLock(v) ==
    /\ vendorAt[v] = "lock" /\ writeLock = {}
    /\ IF commandFd = -1
         THEN VendorGoes(v, "remove") /\ UNCHANGED writeLock
         ELSE VendorGoes(v, "encoded") /\ writeLock' = {v}
    /\ UNCHANGED <<sapSocket, sapQueues, sapThreads, sapRadio, vendorMsg, vendorFd, written,
                   sapMemory>>

SapReadFd(v) ==
    /\ vendorAt[v] = "encoded"
    /\ vendorFd' = [vendorFd EXCEPT ![v] = commandFd]
    /\ VendorGoes(v, "half1")
    /\ UNCHANGED <<sapSocket, sapQueues, sapThreads, sapRadio, vendorMsg, writeLock, written,
                   sapMemory>>

IsOpen(f) == f # -1 /\ sapFile[f] # Closed

\* blockingWrite: one write of half a response, or one that fails.
SapWrite(v) ==
    /\ vendorAt[v] \in {"half1", "half2"}
    /\ \/ /\ IsOpen(vendorFd[v])
          /\ LET c == sapFile[vendorFd[v]]
             IN  written' = [written EXCEPT ![c] = Append(@, <<vendorMsg[v], vendorAt[v]>>)]
          /\ VendorGoes(v, IF vendorAt[v] = "half1" THEN "half2" ELSE "unlock")
       \/ VendorGoes(v, "close") /\ UNCHANGED written
    /\ UNCHANGED <<sapSocket, sapQueues, sapThreads, sapRadio, vendorMsg, vendorFd, writeLock,
                   sapMemory>>

\* blockingWrite after an error: close(fd), whatever that descriptor is by now.
SapCloseFd(v) ==
    /\ vendorAt[v] = "close"
    /\ sapFile' = IF vendorFd[v] = -1 THEN sapFile ELSE [sapFile EXCEPT ![vendorFd[v]] = Closed]
    /\ VendorGoes(v, "unlock")
    /\ UNCHANGED <<commandFd, accepted, loopAt, records, sapQueues, sapThreads, sapRadio,
                   vendorMsg, vendorFd, writeLock, written, sapMemory>>

SapUnlock(v) ==
    /\ vendorAt[v] = "unlock"
    /\ writeLock' = {}
    /\ vendorFd' = [vendorFd EXCEPT ![v] = -1]
    /\ VendorGoes(v, IF vendorMsg[v] = Unsolicited THEN "idle" ELSE "remove")
    /\ UNCHANGED <<sapSocket, sapQueues, sapThreads, sapRadio, vendorMsg, written, sapMemory>>

\* Ril_queue: *ppCur = (*ppCur)->p_next, for the i-th entry.
Unlink(queue, i) == SubSeq(queue, 1, i - 1) \o SubSeq(queue, i + 1, Len(queue))

\* Ril_queue::checkAndDequeue: the first entry with this token (and this message id, which
\* is the same here), freed.
CheckAndDequeue(v) ==
    /\ vendorAt[v] = "remove"
    /\ LET match == {i \in DOMAIN pendingQueue :
                        token[pendingQueue[i]] = token[vendorMsg[v]]}
           i == CHOOSE k \in match : \A j \in match : k <= j
       IN  IF vendorMsg[v] = Unsolicited \/ match = {}
             THEN UNCHANGED <<pendingQueue, liveReq>>
             ELSE /\ pendingQueue' = Unlink(pendingQueue, i)
                  /\ liveReq' = liveReq \ {pendingQueue[i]}
    /\ VendorGoes(v, IF vendorMsg[v] = Unsolicited THEN "idle" ELSE "free")
    /\ UNCHANGED <<sapSocket, token, dispatchQueue, sapThreads, sapRadio, vendorMsg, vendorFd,
                   writeLock, written, liveHdr, sapDone>>

\* onRequestComplete: free(hdr).
FreeHeader(v) ==
    /\ vendorAt[v] = "free"
    /\ liveHdr' = liveHdr \ {vendorMsg[v]} /\ sapDone' = sapDone \union {vendorMsg[v]}
    /\ vendorMsg' = [vendorMsg EXCEPT ![v] = Unsolicited] /\ VendorGoes(v, "idle")
    /\ UNCHANGED <<sapSocket, sapQueues, sapThreads, sapRadio, vendorFd, writeLock, written,
                   liveReq>>

SapLoop == SapAccept \/ PushRecord \/ SapClose \/ SapForget \/ SapKilled
SapThread(t) == Dequeue(t) \/ DispatchRequest(t) \/ CallOnRequest(t)
SapVendor(v) ==
    \/ SapComplete(v) \/ SapUnsolicited(v) \/ SapLock(v) \/ SapReadFd(v) \/ SapWrite(v)
    \/ SapCloseFd(v) \/ SapUnlock(v) \/ CheckAndDequeue(v) \/ FreeHeader(v)

\* A killed daemon does nothing more.
SapNext ==
    /\ loopAt # "killed"
    /\ \/ SapLoop
       \/ \E t \in SapThreads : SapThread(t)
       \/ \E v \in SapVendors : SapVendor(v)

-----------------------------------------------------------------------------
(* Properties.                                                             *)

BeforeRemove == {"lock", "encoded", "half1", "half2", "close", "unlock", "remove"}
Entries(queue) == {queue[i] : i \in DOMAIN queue}
Answering == {v \in SapVendors : vendorAt[v] \in BeforeRemove /\ vendorMsg[v] # Unsolicited}

\* Whoever still has to look at a request finds it allocated, and a request that was
\* answered is gone, its SapSocketRequest and its MsgHeader both (dispatchRequest,
\* checkAndDequeue, onRequestComplete).
SapOwned ==
    /\ Entries(pendingQueue) = liveReq
    /\ Entries(dispatchQueue) \subseteq liveHdr
    /\ withVendor \union {vendorMsg[v] : v \in Answering} \subseteq liveReq \intersect liveHdr
    /\ \A t \in SapThreads : threadAt[t] \in {"dispatch", "call"} => threadReq[t] \in liveHdr
    /\ sapDone \intersect (liveReq \union liveHdr) = {}

\* "SapSocketRequest will be deallocated in onRequestComplete()" (dispatchRequest), whose
\* address is the token the vendor library answers with: one that has still to be answered
\* is allocated, and one that was answered is not.
SapDeallocated == withVendor \subseteq liveReq /\ sapDone \intersect liveReq = {}

SapPlaces(r) ==
    ({"queued"} \X {i \in DOMAIN dispatchQueue : dispatchQueue[i] = r})
    \union ({"thread"} \X {t \in SapThreads : threadReq[t] = r})
    \union ({"vendor"} \X ({r} \intersect withVendor))
    \union ({"answer"} \X {v \in SapVendors : vendorMsg[v] = r})
    \union ({"done"} \X ({r} \intersect sapDone))

\* However many threads serve dispatchQueue: a request that was pushed is queued, in the
\* hands of one thread, with the vendor library, or answered, and never two of these
\* (dequeue, processRequestsLoop).
SapOnce == \A r \in 1 .. Pushed : \E p \in SapPlaces(r) : SapPlaces(r) = {p}

\* A request is never left in dispatchQueue with every thread asleep (enqueue, dequeue).
SapAwake ==
    dispatchQueue # <<>> => \E t \in SapThreads : threadAt[t] \notin {"none", "waiting"}

\* What a client reads is whole responses one after the other; only at the start there may
\* be the rest of a response that was begun in the connection before, on the same
\* descriptor (write_lock, sendResponse).
SapWhole ==
    \A c \in SapThreads : \A i \in DOMAIN written[c] :
        LET half == written[c][i]
        IN  \/ half[2] = "half1" /\ (i < Len(written[c]) => written[c][i + 1] = <<half[1], "half2">>)
            \/ half[2] = "half2" /\ (i > 1 => written[c][i - 1] = <<half[1], "half1">>)
=============================================================================
