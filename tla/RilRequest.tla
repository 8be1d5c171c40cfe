----------------------------- MODULE RilRequest -----------------------------
(***************************************************************************)
(* Requests, responses and the command connection of the RIL daemon        *)
(* (libril/ril.cpp).                                                       *)
(*                                                                         *)
(* The phone process connects to a socket and sends requests.  The event   *)
(* loop's thread accepts the connection, reads the requests, keeps a       *)
(* RequestInfo for each in s_pendingRequests and hands it to the vendor    *)
(* radio library, whose threads complete it later: RIL_onRequestComplete   *)
(* takes the RequestInfo off the list and writes a response to whatever    *)
(* descriptor s_ril_param_socket.fdCommand holds by then.  The connection  *)
(* may end, and another one begin on the same descriptor number, at any    *)
(* point of that.                                                          *)
(*                                                                         *)
(* RilEvent shows that the event library calls the function of an event    *)
(* that is ready once; here select only picks the ready events.            *)
(***************************************************************************)
EXTENDS Integers, Sequences, FiniteSets

CONSTANTS
    MaxConn,        \* connections of clients
    Strangers,      \* the connections made by another process than the phone's
    MaxReq,         \* requests of the clients and of the debug socket
    Kinds,          \* what the requests of this instance turn out to be
    Addrs,          \* addresses calloc returns for a RequestInfo
    Fds,            \* descriptor numbers accept returns
    Vendors,        \* the threads of the vendor radio library
    Loop,           \* the thread of the event loop
    MaxDebug,       \* connections to the debug socket
    ClientMayStall, \* whether the client may stop reading for a while
    NULL

AllKinds == {"short", "unsupported", "invalid", "inplace", "twice", "forward", "large"}

Conns == 1 .. MaxConn
Reqs  == 1 .. MaxReq
Thr   == Vendors \cup {Loop}

ASSUME ConstantsAssumption ==
    /\ MaxConn \in Nat /\ Strangers \subseteq Conns /\ MaxReq \in Nat
    /\ Kinds \subseteq AllKinds
    /\ Fds \subseteq Nat \ {0}
    /\ Loop \notin Vendors
    /\ MaxDebug \in Nat /\ ClientMayStall \in BOOLEAN
    /\ NULL \notin Addrs

Unused   == -1      \* a request nobody has sent yet
Local    == 0       \* the origin of a request of the debug socket
NoConn   == 0       \* a closed descriptor
Unsol    == 0       \* an unsolicited message, as opposed to the response to a request

VARIABLES
    fdCommand,      \* s_ril_param_socket.fdCommand
    file,           \* the kernel's table: the connection a descriptor is open on
    cmdFd, watched, \* s_commands_event: its descriptor, and whether it is watched
    armed,          \* s_listen_event is watched
    client,         \* the client's end of each connection
    backlog,        \* connections waiting for accept
    inbox,          \* requests sent and not read
    from, kind,     \* who sent a request, and what it will turn out to be
    alloc,          \* the addresses of live RequestInfo structures
    req, cancelled, \* the request a RequestInfo is for; RequestInfo.cancelled
    pending,        \* s_pendingRequests
    held,           \* the tokens the vendor library has yet to complete
    lpc, fire,      \* where the loop is, and the events firePending has to call
    selConn,        \* the connection that select waits on
    calls, daddr,   \* completions the dispatch function has yet to make, on daddr
    spc, sreq,      \* where each thread is in sendResponse, and with what
    sfd, saddr,     \* the descriptor it read, and the RequestInfo it frees at the end
    dbgLeft, dbgWaiting,    \* connections to the debug socket
    delivered       \* the connections that got the response to each request

socket  == <<fdCommand, file, cmdFd, watched, armed>>
clients == <<client, backlog, inbox, from, kind>>
infos   == <<alloc, req, cancelled, pending, held>>
loop    == <<lpc, fire, selConn, calls, daddr>>
senders == <<spc, sreq, sfd, saddr>>
debug   == <<dbgLeft, dbgWaiting>>
vars    == <<socket, clients, infos, loop, senders, debug, delivered>>

IsPhone(c) == c \in Conns \ Strangers

IsLocal(a) == from[req[a]] = Local
Alive      == lpc # "dead"
LoopFree   == spc[Loop] = "none"

\* Requests are numbered in the order they are sent, so the smallest one unread is
\* the next of its stream.
IsNextReq(r)    == from[r] = Unused /\ \A q \in Reqs : q < r => from[q] # Unused
RoomFor(n)      == Cardinality({r \in Reqs : from[r] = Unused}) >= n
IsFirst(r, c)   == /\ r \in inbox /\ from[r] = c
                   /\ \A q \in inbox : from[q] = c => r <= q

-----------------------------------------------------------------------------
(* Sending: sendResponse, sendResponseRaw and blockingWrite, by any thread *)

\* Thread t has message m to send; the RequestInfo at a (or NULL) is freed afterwards.
StartSend(t, m, a) ==
    /\ spc' = [spc EXCEPT ![t] = "fd"]
    /\ sreq' = [sreq EXCEPT ![t] = m]
    /\ saddr' = [saddr EXCEPT ![t] = a]
    /\ UNCHANGED sfd

\* sendResponse returns, whatever came of it; RIL_onRequestComplete frees the RequestInfo.
EndSend(t) ==
    /\ spc' = [spc EXCEPT ![t] = "none"]
    /\ sreq' = [sreq EXCEPT ![t] = Unsol]
    /\ saddr' = [saddr EXCEPT ![t] = NULL]
    /\ sfd' = [sfd EXCEPT ![t] = -1]
    /\ alloc' = alloc \ {saddr[t]}
    /\ UNCHANGED <<req, cancelled, pending, held>>

TooLarge(m) == m # Unsol /\ kind[m] = "large"

\* The descriptor is read before s_writeMutex is taken.
SendReadFd(t) ==
    /\ Alive /\ spc[t] = "fd"
    /\ \/ /\ fdCommand = -1 \/ TooLarge(sreq[t])
          /\ EndSend(t)
       \/ /\ fdCommand # -1 /\ ~TooLarge(sreq[t])
          /\ sfd' = [sfd EXCEPT ![t] = fdCommand]
          /\ spc' = [spc EXCEPT ![t] = "lock"]
          /\ UNCHANGED <<sreq, saddr, infos>>
    /\ UNCHANGED <<socket, clients, loop, debug, delivered>>

\* s_writeMutex is held from the write of the length to the end.
WriteMutexFree == \A t \in Thr : spc[t] \notin {"data", "close"}

\* The other end of a descriptor; a closed one fails like one whose client has closed.
Peer(f) == IF file[f] = NoConn THEN "closed" ELSE client[file[f]]

\* blockingWrite: EBADF or EPIPE.  It retries EAGAIN, so it waits for a stalled client.
FailWrite(t) ==
    /\ Peer(sfd[t]) = "closed"
    /\ spc' = [spc EXCEPT ![t] = "close"]
    /\ UNCHANGED <<infos, sreq, sfd, saddr, delivered>>

SendHeader(t) ==
    /\ Alive /\ spc[t] = "lock" /\ WriteMutexFree
    /\ \/ /\ Peer(sfd[t]) = "open"
          /\ spc' = [spc EXCEPT ![t] = "data"]
          /\ UNCHANGED <<infos, sreq, sfd, saddr, delivered>>
       \/ FailWrite(t)
    /\ UNCHANGED <<socket, clients, loop, debug>>

SendData(t) ==
    /\ Alive /\ spc[t] = "data"
    /\ \/ /\ Peer(sfd[t]) = "open"
          /\ delivered' = [m \in Reqs |-> IF m = sreq[t]
                                          THEN Append(delivered[m], file[sfd[t]])
                                          ELSE delivered[m]]
          /\ EndSend(t)
       \/ FailWrite(t)
    /\ UNCHANGED <<socket, clients, loop, debug>>

\* Mutant: s_writeMutex is kept after a failed write.
SendCloseLocked(t) ==
    /\ Alive /\ spc[t] = "close"
    /\ file' = [file EXCEPT ![sfd[t]] = NoConn]
    /\ UNCHANGED <<fdCommand, cmdFd, watched, armed, clients, infos, loop, senders, debug,
                   delivered>>

\* After the failed write the descriptor is closed: the number that was read, whatever
\* it is open on by now.  fdCommand and s_commands_event keep it.
SendClose(t) ==
    /\ Alive /\ spc[t] = "close"
    /\ file' = [file EXCEPT ![sfd[t]] = NoConn]
    /\ EndSend(t)
    /\ UNCHANGED <<fdCommand, cmdFd, watched, armed, clients, loop, debug, delivered>>

-----------------------------------------------------------------------------
(* The pending requests.                                                   *)

\* Mutant: the request is not put on the list.
EnlistUnlisted(a, r) ==
    /\ a \notin alloc
    /\ alloc' = alloc \cup {a}
    /\ req' = [req EXCEPT ![a] = r]
    /\ cancelled' = [cancelled EXCEPT ![a] = FALSE]
    /\ UNCHANGED pending

\* calloc returns address a for request r, which goes on the list.
Enlist(a, r) ==
    /\ a \notin alloc
    /\ alloc' = alloc \cup {a}
    /\ req' = [req EXCEPT ![a] = r]
    /\ cancelled' = [cancelled EXCEPT ![a] = FALSE]
    /\ pending' = pending \cup {a}

\* Mutant: RIL_onRequestComplete trusts its token.
CompleteUnchecked(t, a) ==
    /\ pending' = pending \ {a}
    /\ \/ /\ IsLocal(a) \/ cancelled[a]
          /\ alloc' = alloc \ {a}
          /\ UNCHANGED senders
       \/ /\ ~IsLocal(a) /\ ~cancelled[a]
          /\ StartSend(t, req[a], a)
          /\ UNCHANGED alloc
    /\ UNCHANGED <<req, cancelled>>

\* RIL_onRequestComplete up to sendResponse: a token that is not on the list is
\* ignored; a local or cancelled request gets no response.
Complete(t, a) ==
    /\ \/ /\ a \notin pending
          /\ UNCHANGED <<alloc, pending, senders>>
       \/ /\ a \in pending /\ (IsLocal(a) \/ cancelled[a])
          /\ pending' = pending \ {a}
          /\ alloc' = alloc \ {a}
          /\ UNCHANGED senders
       \/ /\ a \in pending /\ ~IsLocal(a) /\ ~cancelled[a]
          /\ pending' = pending \ {a}
          /\ StartSend(t, req[a], a)
          /\ UNCHANGED alloc
    /\ UNCHANGED <<req, cancelled>>

\* Mutant: the requests of the old connection stay as they are.
CancelAllForgotten == UNCHANGED cancelled

\* onCommandsSocketClosed marks every request on the list.
CancelAll == cancelled' = [a \in Addrs |-> cancelled[a] \/ a \in pending]

-----------------------------------------------------------------------------
(* The vendor library's threads.                                           *)

\* A request is completed, once, from any thread and in any order.
VendorComplete(v) ==
    /\ Alive /\ spc[v] = "none"
    /\ \E a \in held : Complete(v, a) /\ held' = held \ {a}
    /\ UNCHANGED <<socket, clients, loop, debug, delivered>>

\* RIL_onUnsolicitedResponse: a message that answers no request.
VendorUnsol(v) ==
    /\ Alive /\ spc[v] = "none"
    /\ StartSend(v, Unsol, NULL)
    /\ UNCHANGED <<socket, clients, infos, loop, debug, delivered>>

SendStep(t)   == SendReadFd(t) \/ SendHeader(t) \/ SendData(t) \/ SendClose(t)
VendorStep(v) == VendorComplete(v) \/ VendorUnsol(v) \/ SendStep(v)

-----------------------------------------------------------------------------
(* The event loop.                                                         *)

\* select refuses a closed descriptor: the daemon kills itself.  It keeps the connection
\* it waits on open until it returns, even when another thread closes the descriptor.
EnterSelect ==
    /\ lpc = "select"
    /\ IF watched
         THEN /\ lpc' = IF file[cmdFd] = NoConn THEN "dead" ELSE "blocked"
              /\ selConn' = file[cmdFd]
         ELSE lpc' = "blocked" /\ selConn' = NoConn
    /\ UNCHANGED <<socket, clients, infos, fire, calls, daddr, senders, debug, delivered>>

CommandsReady ==
    selConn # NoConn /\ \/ client[selConn] = "closed"
                        \/ \E r \in inbox : from[r] = selConn

ReadyEvents == {e \in {"listen", "commands", "debug"} :
                  \/ e = "listen" /\ armed /\ backlog # {}
                  \/ e = "commands" /\ CommandsReady
                  \/ e = "debug" /\ dbgWaiting}

\* processReadReadies: s_listen_event is not persistent and leaves the table.
SelectReturns ==
    /\ lpc = "blocked" /\ ReadyEvents # {}
    /\ fire' = ReadyEvents
    /\ selConn' = NoConn
    /\ armed' = (armed /\ "listen" \notin ReadyEvents)
    /\ lpc' = "fire"
    /\ UNCHANGED <<fdCommand, file, cmdFd, watched, clients, infos, calls, daddr,
                   senders, debug, delivered>>

Fired ==
    /\ lpc = "fire" /\ LoopFree /\ fire = {}
    /\ lpc' = "select"
    /\ UNCHANGED <<socket, clients, infos, fire, selConn, calls, daddr, senders, debug, delivered>>

\* The commands event has the slot that the listen event had, before the debug event.
CallDebug == lpc = "fire" /\ LoopFree /\ fire = {"debug"}

-----------------------------------------------------------------------------
(* listenCallback.                                                         *)

CallListen(c) == /\ lpc = "fire" /\ "listen" \in fire
                 /\ c \in backlog /\ \A d \in backlog : c <= d

\* Mutant: the listen event is not added again.
AcceptFailsDeaf(c) ==
    /\ CallListen(c)
    /\ fire' = fire \ {"listen"}
    /\ UNCHANGED <<socket, clients, infos, lpc, selConn, calls, daddr, senders, debug, delivered>>

\* accept fails: the loop listens again.
AcceptFails(c) ==
    /\ CallListen(c)
    /\ armed' = TRUE
    /\ fire' = fire \ {"listen"}
    /\ UNCHANGED <<fdCommand, file, cmdFd, watched, clients, infos, lpc, selConn, calls, daddr,
                   senders, debug, delivered>>

\* The peer is not the phone process: closed again, with onCommandsSocketClosed.
Reject(c) ==
    /\ CallListen(c) /\ ~IsPhone(c)
    /\ \E f \in Fds : file[f] = NoConn
    /\ CancelAll
    /\ armed' = TRUE
    /\ backlog' = backlog \ {c}
    /\ fire' = fire \ {"listen"}
    /\ UNCHANGED <<fdCommand, file, cmdFd, watched, client, inbox, from, kind, alloc, req,
                   pending, held, lpc, selConn, calls, daddr, senders, debug, delivered>>

\* accept returns a descriptor number that may have been used before.
Accept(c) ==
    /\ CallListen(c) /\ IsPhone(c)
    /\ \E f \in Fds : /\ file[f] = NoConn
                      /\ file' = [file EXCEPT ![f] = c]
                      /\ cmdFd' = f
    /\ backlog' = backlog \ {c}
    /\ fire' = fire \ {"listen"}
    /\ lpc' = "accepted"
    /\ UNCHANGED <<fdCommand, watched, armed, client, inbox, from, kind, infos, selConn,
                   calls, daddr, senders, debug, delivered>>

\* The connection is published and watched.
Publish ==
    /\ lpc = "accepted"
    /\ fdCommand' = cmdFd
    /\ watched' = TRUE
    /\ lpc' = "greet"
    /\ UNCHANGED <<file, cmdFd, armed, clients, infos, fire, selConn, calls, daddr, senders, debug,
                   delivered>>

\* onNewCommandConnect: RIL_CONNECTED, then RADIO_STATE_CHANGED.
Greet ==
    /\ lpc \in {"greet", "greetState"} /\ LoopFree
    /\ StartSend(Loop, Unsol, NULL)
    /\ lpc' = IF lpc = "greet" THEN "greetState" ELSE "fire"
    /\ UNCHANGED <<socket, clients, infos, fire, selConn, calls, daddr, debug, delivered>>

-----------------------------------------------------------------------------
(* processCommandsCallback and processCommandBuffer.                       *)

CallCommands ==
    /\ lpc = "fire" /\ LoopFree /\ "commands" \in fire
    /\ fire' = fire \ {"commands"}
    /\ lpc' = "read"
    /\ UNCHANGED <<socket, clients, infos, selConn, calls, daddr, senders, debug, delivered>>

Reading == lpc = "read" /\ LoopFree /\ calls = 0

\* Request r is read from the stream.
ReadRecord(r) ==
    /\ Reading /\ file[cmdFd] # NoConn /\ IsFirst(r, file[cmdFd])
    /\ inbox' = inbox \ {r}

\* A record too short for a request and a token is dropped.
ReadShort(r) ==
    /\ ReadRecord(r) /\ kind[r] = "short"
    /\ UNCHANGED <<socket, client, backlog, from, kind, infos, loop, senders, debug,
                   delivered>>

\* An unsupported request is answered at once and not listed.
ReadUnsupported(r) ==
    /\ ReadRecord(r) /\ kind[r] = "unsupported"
    /\ StartSend(Loop, r, NULL)
    /\ UNCHANGED <<socket, client, backlog, from, kind, infos, loop, debug, delivered>>

\* The other requests are listed and dispatched.  Their dispatch function finds the
\* arguments invalid and leaves the request on the list; completes it in place, once or
\* (dispatchVoiceRadioTech, dispatchCdmaSubscriptionSource with the radio off) twice;
\* or calls the vendor library's onRequest.
CompletionsInPlace(k) == IF k = "inplace" THEN 1 ELSE IF k = "twice" THEN 2 ELSE 0

ReadAndDispatch(r) ==
    /\ ReadRecord(r) /\ kind[r] \notin {"short", "unsupported"}
    /\ \E a \in Addrs :
          /\ Enlist(a, r)
          /\ calls' = CompletionsInPlace(kind[r])
          /\ daddr' = IF calls' > 0 THEN a ELSE NULL
          /\ held' = IF kind[r] \in {"forward", "large"} THEN held \cup {a} ELSE held
    /\ UNCHANGED <<socket, client, backlog, from, kind, lpc, fire, selConn, senders, debug,
                   delivered>>

CompleteInPlace ==
    /\ lpc = "read" /\ LoopFree /\ calls > 0
    /\ Complete(Loop, daddr)
    /\ calls' = calls - 1
    /\ daddr' = IF calls = 1 THEN NULL ELSE daddr
    /\ UNCHANGED <<socket, clients, held, lpc, fire, selConn, debug, delivered>>

\* EAGAIN.
ReadNothing ==
    /\ Reading /\ Peer(cmdFd) # "closed"
    /\ \A r \in inbox : from[r] # file[cmdFd]
    /\ lpc' = "fire"
    /\ UNCHANGED <<socket, clients, infos, fire, selConn, calls, daddr, senders, debug, delivered>>

\* End of stream, or an error (EBADF): close, fdCommand = -1, ril_event_del, listen again.
CloseCommand ==
    /\ Reading
    /\ \/ file[cmdFd] = NoConn
       \/ Peer(cmdFd) = "closed" /\ \A r \in inbox : from[r] # file[cmdFd]
    /\ file' = [file EXCEPT ![cmdFd] = NoConn]
    /\ fdCommand' = -1 /\ cmdFd' = -1 /\ watched' = FALSE
    /\ armed' = TRUE
    /\ lpc' = "cancel"
    /\ UNCHANGED <<clients, infos, fire, selConn, calls, daddr, senders, debug, delivered>>

\* ... and then onCommandsSocketClosed.
CancelPending ==
    /\ lpc = "cancel"
    /\ CancelAll
    /\ lpc' = "fire"
    /\ UNCHANGED <<socket, clients, alloc, req, pending, held, fire, selConn, calls, daddr, senders,
                   debug, delivered>>

-----------------------------------------------------------------------------
(* debugCallback.  It reads its arguments with a recv that waits: the loop *)
(* does nothing else until the debug tool has sent them or closes.         *)

\* issueLocalRequest: listed and given to the vendor library like any other.
IssueLocal ==
    /\ \E r \in Reqs, a \in Addrs :
          /\ IsNextReq(r)
          /\ from' = [from EXCEPT ![r] = Local]
          /\ Enlist(a, r)
          /\ held' = held \cup {a}

\* Options 0, 3, 4 and 6 to 10: one request.
DebugRequest ==
    /\ CallDebug /\ IssueLocal
    /\ fire' = {} /\ dbgWaiting' = FALSE
    /\ UNCHANGED <<socket, client, backlog, inbox, kind, lpc, selConn, calls, daddr, senders,
                   dbgLeft, delivered>>

\* Option 1: one request, then the command socket is closed; s_commands_event stays.
DebugPowerOff ==
    /\ CallDebug /\ IssueLocal
    /\ file' = [f \in Fds |-> IF f = fdCommand THEN NoConn ELSE file[f]]
    /\ fdCommand' = -1
    /\ fire' = {} /\ dbgWaiting' = FALSE
    /\ UNCHANGED <<cmdFd, watched, armed, client, backlog, inbox, kind, lpc, selConn, calls, daddr,
                   senders, dbgLeft, delivered>>

\* Option 5: two requests, with the loop asleep between them.
DebugRadioOn ==
    /\ CallDebug /\ RoomFor(2) /\ IssueLocal
    /\ lpc' = "sleep"
    /\ fire' = {} /\ dbgWaiting' = FALSE
    /\ UNCHANGED <<socket, client, backlog, inbox, kind, selConn, calls, daddr, senders,
                   dbgLeft, delivered>>

DebugSelectNetwork ==
    /\ lpc = "sleep" /\ IssueLocal
    /\ lpc' = "fire"
    /\ UNCHANGED <<socket, client, backlog, inbox, kind, fire, selConn, calls, daddr, senders,
                   debug, delivered>>

\* Option 2: an unsolicited message.
DebugUnsol ==
    /\ CallDebug
    /\ StartSend(Loop, Unsol, NULL)
    /\ fire' = {} /\ dbgWaiting' = FALSE
    /\ UNCHANGED <<socket, clients, infos, lpc, selConn, calls, daddr, dbgLeft, delivered>>

\* Another option, or too few bytes of arguments.
DebugNothing ==
    /\ CallDebug
    /\ fire' = {} /\ dbgWaiting' = FALSE
    /\ UNCHANGED <<socket, clients, infos, lpc, selConn, calls, daddr, senders, dbgLeft, delivered>>

DebugStep == \/ DebugRequest \/ DebugPowerOff \/ DebugRadioOn \/ DebugSelectNetwork
             \/ DebugUnsol \/ DebugNothing

LoopStep ==
    \/ EnterSelect \/ SelectReturns \/ Fired
    \/ \E c \in Conns : Accept(c) \/ Reject(c) \/ AcceptFails(c)
    \/ Publish \/ Greet \/ CallCommands
    \/ \E r \in Reqs : ReadShort(r) \/ ReadUnsupported(r) \/ ReadAndDispatch(r)
    \/ CompleteInPlace \/ ReadNothing \/ CloseCommand \/ CancelPending
    \/ DebugStep
    \/ SendStep(Loop)

-----------------------------------------------------------------------------
(* The clients, the debug tool, and init.                                  *)

\* The phone process has one connection at a time.
Connect(c) ==
    /\ Alive /\ client[c] = "new" /\ \A d \in Conns : d < c => client[d] # "new"
    /\ IsPhone(c) => \A d \in Conns \ Strangers : d < c => client[d] = "closed"
    /\ client' = [client EXCEPT ![c] = "open"]
    /\ backlog' = backlog \cup {c}
    /\ UNCHANGED <<socket, inbox, from, kind, infos, loop, senders, debug, delivered>>

ClientSends(c) ==
    /\ client[c] \in {"open", "stalled"} /\ IsPhone(c)
    /\ lpc = "sleep" => RoomFor(2)
    /\ \E r \in Reqs, k \in Kinds :
          /\ IsNextReq(r)
          /\ from' = [from EXCEPT ![r] = c]
          /\ kind' = [kind EXCEPT ![r] = k]
          /\ inbox' = inbox \cup {r}
    /\ UNCHANGED <<socket, client, backlog, infos, loop, senders, debug, delivered>>

\* The client stops reading until its socket buffer is full, and reads again.
ClientStalls(c) ==
    /\ ClientMayStall /\ client[c] = "open" /\ IsPhone(c)
    /\ client' = [client EXCEPT ![c] = "stalled"]
    /\ UNCHANGED <<socket, backlog, inbox, from, kind, infos, loop, senders, debug,
                   delivered>>

ClientReads(c) ==
    /\ client[c] = "stalled"
    /\ client' = [client EXCEPT ![c] = "open"]
    /\ UNCHANGED <<socket, backlog, inbox, from, kind, infos, loop, senders, debug,
                   delivered>>

ClientCloses(c) ==
    /\ client[c] \in {"open", "stalled"}
    /\ client' = [client EXCEPT ![c] = "closed"]
    /\ UNCHANGED <<socket, backlog, inbox, from, kind, infos, loop, senders, debug,
                   delivered>>

DebugConnects ==
    /\ ~dbgWaiting /\ dbgLeft > 0
    /\ dbgLeft' = dbgLeft - 1 /\ dbgWaiting' = TRUE
    /\ UNCHANGED <<socket, clients, infos, loop, senders, delivered>>

\* init starts the daemon again; every connection to the old one is gone.
Restart ==
    /\ lpc = "dead"
    /\ fdCommand' = -1 /\ file' = [f \in Fds |-> NoConn]
    /\ cmdFd' = -1 /\ watched' = FALSE /\ armed' = TRUE
    /\ client' = [c \in Conns |-> IF client[c] = "new" THEN "new" ELSE "closed"]
    /\ backlog' = {} /\ inbox' = {}
    /\ alloc' = {} /\ req' = [a \in Addrs |-> Unsol]
    /\ cancelled' = [a \in Addrs |-> FALSE] /\ pending' = {} /\ held' = {}
    /\ lpc' = "select" /\ fire' = {} /\ selConn' = NoConn /\ calls' = 0 /\ daddr' = NULL
    /\ spc' = [t \in Thr |-> "none"] /\ sreq' = [t \in Thr |-> Unsol]
    /\ sfd' = [t \in Thr |-> -1] /\ saddr' = [t \in Thr |-> NULL]
    /\ dbgWaiting' = FALSE
    /\ UNCHANGED <<from, kind, dbgLeft, delivered>>

ClientStep ==
    \/ \E c \in Conns : \/ Connect(c) \/ ClientSends(c) \/ ClientStalls(c)
                        \/ ClientReads(c) \/ ClientCloses(c)
    \/ DebugConnects

Init ==
    /\ fdCommand = -1 /\ file = [f \in Fds |-> NoConn]
    /\ cmdFd = -1 /\ watched = FALSE /\ armed = TRUE
    /\ client = [c \in Conns |-> "new"] /\ backlog = {} /\ inbox = {}
    /\ from = [r \in Reqs |-> Unused] /\ kind = [r \in Reqs |-> "forward"]
    /\ alloc = {} /\ req = [a \in Addrs |-> Unsol]
    /\ cancelled = [a \in Addrs |-> FALSE] /\ pending = {} /\ held = {}
    /\ lpc = "select" /\ fire = {} /\ selConn = NoConn /\ calls = 0 /\ daddr = NULL
    /\ spc = [t \in Thr |-> "none"] /\ sreq = [t \in Thr |-> Unsol]
    /\ sfd = [t \in Thr |-> -1] /\ saddr = [t \in Thr |-> NULL]
    /\ dbgLeft = MaxDebug /\ dbgWaiting = FALSE
    /\ delivered = [r \in Reqs |-> << >>]

Next ==
    \/ LoopStep
    \/ \E v \in Vendors : VendorStep(v)
    \/ ClientStep
    \/ Restart

Spec == Init /\ [][Next]_vars

\* The loop's thread and the vendor's threads are scheduled and none is starved of
\* s_writeMutex, the vendor library completes every request, accept does not fail for
\* ever, a client that stopped reading reads again or closes, the debug tool sends its
\* arguments or closes, and init restarts the daemon.
FairSpec ==
    /\ Spec
    /\ WF_vars(LoopStep) /\ SF_vars(\E c \in Conns : Accept(c) \/ Reject(c))
    /\ \A v \in Vendors : SF_vars(VendorComplete(v))
    /\ \A t \in Thr : SF_vars(SendStep(t))
    /\ WF_vars(\E c \in Conns : ClientReads(c))
    /\ WF_vars(Restart)

-----------------------------------------------------------------------------
(* Properties.                                                             *)

\* Every variable keeps its type.
TypeOK ==
    /\ fdCommand \in Fds \cup {-1} /\ file \in [Fds -> Conns \cup {NoConn}]
    /\ cmdFd \in Fds \cup {-1} /\ watched \in BOOLEAN /\ armed \in BOOLEAN
    /\ client \in [Conns -> {"new", "open", "stalled", "closed"}]
    /\ backlog \subseteq Conns /\ inbox \subseteq Reqs
    /\ from \in [Reqs -> Conns \cup {Local, Unused}] /\ kind \in [Reqs -> AllKinds]
    /\ alloc \subseteq Addrs /\ req \in [Addrs -> Reqs \cup {Unsol}]
    /\ cancelled \in [Addrs -> BOOLEAN]
    /\ pending \subseteq Addrs /\ held \subseteq Addrs
    /\ lpc \in {"select", "blocked", "fire", "accepted", "greet", "greetState", "read",
                "cancel", "sleep", "dead"}
    /\ fire \subseteq {"listen", "commands", "debug"}
    /\ selConn \in Conns \cup {NoConn}
    /\ calls \in 0 .. 2 /\ daddr \in Addrs \cup {NULL}
    /\ spc \in [Thr -> {"none", "fd", "lock", "data", "close"}]
    /\ sreq \in [Thr -> Reqs \cup {Unsol}]
    /\ sfd \in [Thr -> Fds \cup {-1}] /\ saddr \in [Thr -> Addrs \cup {NULL}]
    /\ dbgLeft \in Nat /\ dbgWaiting \in BOOLEAN
    /\ delivered \in [Reqs -> Seq(Conns)]

\* Every RequestInfo has one owner at a time, which frees it: the list of pending
\* requests, or the thread that took it off the list in RIL_onRequestComplete.  So a
\* token the vendor library still has is on the list (it is neither freed nor reused for
\* another request), and no RequestInfo is freed twice or lost.
OneOwner ==
    /\ held \subseteq pending
    /\ alloc = pending \cup ({saddr[t] : t \in Thr} \ {NULL})
    /\ \A t \in Thr : saddr[t] \notin pending
    /\ \A t, u \in Thr : saddr[t] = saddr[u] => t = u \/ saddr[t] = NULL

\* A request gets at most one response, though two dispatch functions complete theirs
\* twice and threads complete requests while the loop cancels them; a request of the
\* debug socket (issueLocalRequest) gets none.
AnsweredOnce ==
    \A r \in Reqs : /\ Len(delivered[r]) <= 1
                    /\ from[r] = Local => delivered[r] = << >>

\* While the daemon waits for a connection every request on the list is cancelled (or
\* local); while it serves one, exactly the requests of earlier connections are.
Listening == (armed \/ "listen" \in fire \/ lpc = "accepted") /\ lpc # "cancel"
OldCancelled ==
    /\ Listening => \A a \in pending : IsLocal(a) \/ cancelled[a]
    /\ watched /\ file[cmdFd] # NoConn =>
          \A a \in pending : IsLocal(a) \/ (cancelled[a] <=> from[req[a]] # file[cmdFd])

\* When it waits in select, the daemon either listens or watches its connection, and
\* never both; there is one connection at most, and none while it listens.
ListenOrServe ==
    /\ lpc = "blocked" => (armed <=> ~watched)
    /\ armed \/ "listen" \in fire =>
          fdCommand = -1 /\ ~watched /\ \A f \in Fds : file[f] = NoConn
    /\ \A f, g \in Fds : file[f] # NoConn /\ file[g] # NoConn => f = g

\* What ListenOrServe and OldCancelled rest on: where the loop is determines which of
\* its two events is watched, and the descriptors that can be open.
ServingPcs == {"greet", "greetState", "read"}
SocketInv ==
    /\ armed \/ "listen" \in fire => fdCommand = -1 /\ ~watched /\ lpc # "accepted"
    /\ armed => "listen" \notin fire
    /\ armed \/ watched \/ "listen" \in fire \/ lpc = "accepted"
    /\ "listen" \in fire \/ "commands" \in fire => lpc = "fire"
    /\ fire # {} => lpc \notin {"select", "blocked", "dead", "sleep"}
    /\ "commands" \in fire \/ lpc \in ServingPcs => watched
    /\ lpc = "accepted" => ~watched /\ fdCommand = -1 /\ "commands" \notin fire
    /\ lpc = "cancel" => armed
    /\ watched \/ lpc = "accepted" => cmdFd \in Fds
    /\ \A f \in Fds : file[f] # NoConn => (watched \/ lpc = "accepted") /\ f = cmdFd
    /\ fdCommand # -1 => watched /\ fdCommand = cmdFd
    /\ selConn # NoConn => lpc = "blocked" /\ watched
    /\ calls > 0 => lpc = "read" /\ daddr \in Addrs

\* What OneOwner rests on: a thread that is not sending owns nothing, and the vendor
\* library does not have the token of a request that is completed in place.
OwnerInv ==
    /\ OneOwner
    /\ \A t \in Thr : spc[t] = "none" => saddr[t] = NULL
    /\ calls > 0 => daddr \notin held

\* What AnsweredOnce rests on: a request that has yet to be answered is in one place
\* (unread, in a RequestInfo, or in the hands of the thread that sends its response).
Open(r)     == from[r] \in Conns /\ delivered[r] = << >>
UnreadOpen  == \A r \in inbox : Open(r)
InfosOpen   ==
    /\ \A a \in alloc : req[a] \in Reqs /\ req[a] \notin inbox /\ (IsLocal(a) \/ Open(req[a]))
    /\ \A a, b \in alloc : req[a] = req[b] => a = b
SendersOpen ==
    /\ \A t \in Thr : sreq[t] # Unsol =>
          /\ spc[t] # "none" /\ Open(sreq[t]) /\ sreq[t] \notin inbox
          /\ \A u \in Thr : sreq[u] = sreq[t] => u = t
          /\ \A a \in alloc : req[a] = sreq[t] => a = saddr[t]
    /\ \A t \in Thr : saddr[t] # NULL => sreq[t] = req[saddr[t]]
OnceInv ==
    /\ AnsweredOnce
    /\ \A r \in Reqs : from[r] = Unused => delivered[r] = << >>
    /\ UnreadOpen /\ InfosOpen /\ SendersOpen

\* What OldCancelled rests on: only requests of connections that were accepted are listed,
\* and those of a connection that is being accepted are not.
OldInv ==
    /\ OldCancelled
    /\ \A f \in Fds : file[f] # NoConn => file[f] \notin backlog /\ client[file[f]] # "new"
    /\ \A c \in backlog : client[c] # "new"
    /\ \A a \in pending : IsLocal(a) \/ /\ from[req[a]] \notin backlog
                                        /\ client[from[req[a]]] # "new"
    /\ lpc = "accepted" => \A a \in pending : IsLocal(a) \/ from[req[a]] # file[cmdFd]

\* A request that needs an answer gets one, unless its connection ends: the vendor
\* library's answer, the one given in place, or the error.  The requests are finitely many,
\* so each is answered if and only if the time comes when none is left.
Answerable == {"unsupported", "inplace", "twice", "forward"}
Ended(c)   == client[c] = "closed" \/ (c \notin backlog /\ \A f \in Fds : file[f] # c)
Unanswered == {r \in Reqs : /\ from[r] \in Conns /\ kind[r] \in Answerable
                            /\ delivered[r] = << >> /\ ~Ended(from[r])}
Answered == Unanswered # {} ~> Unanswered = {}

\* The phone process is served whenever it connects, whatever became of its previous
\* connection.
Served == (\E c \in backlog : IsPhone(c)) ~> (\A c \in backlog : ~IsPhone(c))

\* A request of which a response reached another connection than its own.
Stray(r) == \E i \in DOMAIN delivered[r] : delivered[r][i] # from[r]

\* What the comment in onCommandsSocketClosed says of the requests of a connection that
\* has ended: their responses are not reported (to the next one).
NoStrayResponse == \A r \in Reqs : ~Stray(r)
=============================================================================
