-------------------------- MODULE RilRequestProofs --------------------------
(***************************************************************************)
(* Proofs about RilRequest, for every number of connections and requests   *)
(* and every set of addresses, descriptors and threads: types, the loop    *)
(* and its socket; who owns a RequestInfo; that no request is answered     *)
(* twice; what becomes of the requests of earlier connections.  Each part  *)
(* rests on those before it.                                               *)
(***************************************************************************)
EXTENDS RilRequest, TLAPS

USE SMTT(20), ZenonT(20)

-----------------------------------------------------------------------------
(* Types, the loop and its socket.                                         *)

\* A thread has read a descriptor before it writes to it.
FdsRead == \A t \in Thr : spc[t] \in {"lock", "data", "close"} => sfd[t] \in Fds

SendersOK ==
    /\ spc \in [Thr -> {"none", "fd", "lock", "data", "close"}]
    /\ sreq \in [Thr -> Reqs \cup {Unsol}]
    /\ sfd \in [Thr -> Fds \cup {-1}] /\ saddr \in [Thr -> Addrs \cup {NULL}]
    /\ FdsRead

InfosOK ==
    /\ alloc \subseteq Addrs /\ req \in [Addrs -> Reqs \cup {Unsol}]
    /\ cancelled \in [Addrs -> BOOLEAN]
    /\ pending \subseteq Addrs /\ held \subseteq Addrs

ClientsOK ==
    /\ client \in [Conns -> {"new", "open", "stalled", "closed"}]
    /\ backlog \subseteq Conns /\ inbox \subseteq Reqs
    /\ from \in [Reqs -> Conns \cup {Local, Unused}] /\ kind \in [Reqs -> AllKinds]

SocketOK ==
    /\ fdCommand \in Fds \cup {-1} /\ file \in [Fds -> Conns \cup {NoConn}]
    /\ cmdFd \in Fds \cup {-1} /\ watched \in BOOLEAN /\ armed \in BOOLEAN

LoopOK ==
    /\ lpc \in {"select", "blocked", "fire", "accepted", "greet", "greetState", "read",
                "cancel", "sleep", "dead"}
    /\ fire \subseteq {"listen", "commands", "debug"}
    /\ selConn \in Conns \cup {NoConn}
    /\ calls \in 0 .. 2 /\ daddr \in Addrs \cup {NULL}

DebugOK == dbgLeft \in Nat /\ dbgWaiting \in BOOLEAN

DeliveredOK == delivered \in [Reqs -> Seq(Conns)]

TypeIInv == TypeOK /\ FdsRead /\ SocketInv

LEMMA TypeParts ==
    TypeOK /\ FdsRead <=> /\ SocketOK /\ ClientsOK /\ InfosOK /\ LoopOK /\ SendersOK
                          /\ DebugOK /\ DeliveredOK
BY Zenon DEF TypeOK, SocketOK, ClientsOK, InfosOK, LoopOK, SendersOK, DebugOK, DeliveredOK

LEMMA Frames ==
    /\ SocketOK /\ UNCHANGED socket => SocketOK'
    /\ ClientsOK /\ UNCHANGED clients => ClientsOK'
    /\ InfosOK /\ UNCHANGED infos => InfosOK'
    /\ LoopOK /\ UNCHANGED loop => LoopOK'
    /\ SendersOK /\ UNCHANGED senders => SendersOK'
    /\ DebugOK /\ UNCHANGED debug => DebugOK'
    /\ DeliveredOK /\ UNCHANGED delivered => DeliveredOK'
    /\ SocketInv /\ UNCHANGED <<socket, loop>> => SocketInv'
<1>1. SocketOK /\ UNCHANGED socket => SocketOK'
  BY Zenon DEF SocketOK, socket
<1>2. ClientsOK /\ UNCHANGED clients => ClientsOK'
  BY Zenon DEF ClientsOK, clients
<1>3. InfosOK /\ UNCHANGED infos => InfosOK'
  BY Zenon DEF InfosOK, infos
<1>4. LoopOK /\ UNCHANGED loop => LoopOK'
  BY Zenon DEF LoopOK, loop
<1>5. SendersOK /\ UNCHANGED senders => SendersOK'
  BY Zenon DEF SendersOK, FdsRead, senders
<1>6. (DebugOK /\ UNCHANGED debug => DebugOK') /\ (DeliveredOK /\ UNCHANGED delivered => DeliveredOK')
  BY Zenon DEF DebugOK, debug, DeliveredOK
<1>7. SocketInv /\ UNCHANGED <<socket, loop>> => SocketInv'
  BY DEF SocketInv, socket, loop
<1> QED BY Zenon, <1>1, <1>2, <1>3, <1>4, <1>5, <1>6, <1>7

LEMMA StartSendType ==
    ASSUME SendersOK, NEW t \in Thr, NEW m \in Reqs \cup {Unsol}, NEW a \in Addrs \cup {NULL},
           StartSend(t, m, a)
    PROVE  SendersOK'
BY Zenon DEF SendersOK, FdsRead, StartSend

LEMMA EndSendType ==
    ASSUME SendersOK, InfosOK, NEW t \in Thr, EndSend(t)
    PROVE  SendersOK' /\ InfosOK'
<1>1. SendersOK'
  BY Zenon, ConstantsAssumption DEF SendersOK, FdsRead, EndSend
<1>2. InfosOK'
  BY Zenon DEF InfosOK, EndSend
<1> QED BY Zenon, <1>1, <1>2

LEMMA EnlistType ==
    ASSUME InfosOK, NEW a \in Addrs, NEW r \in Reqs, Enlist(a, r), held' \subseteq Addrs
    PROVE  InfosOK'
BY Zenon DEF InfosOK, Enlist

LEMMA CompleteType ==
    ASSUME SendersOK, InfosOK, NEW t \in Thr, NEW a \in Addrs, Complete(t, a),
           held' \subseteq Addrs
    PROVE  SendersOK' /\ InfosOK'
<1>1. SendersOK'
  <2>1. CASE UNCHANGED senders
    BY Zenon, <2>1, Frames
  <2>2. CASE StartSend(t, req[a], a)
    BY Zenon, <2>2, StartSendType DEF InfosOK
  <2> QED BY Zenon, <2>1, <2>2 DEF Complete
<1>2. InfosOK'
  BY Zenon DEF InfosOK, Complete
<1> QED BY Zenon, <1>1, <1>2

LEMMA CancelAllType ==
    ASSUME InfosOK, CancelAll, UNCHANGED <<alloc, req, pending, held>> PROVE InfosOK'
BY Zenon DEF InfosOK, CancelAll

AllOK == /\ SocketOK /\ ClientsOK /\ InfosOK /\ LoopOK /\ SendersOK /\ DebugOK /\ DeliveredOK
         /\ SocketInv

LEMMA SendType == ASSUME AllOK, NEW t \in Thr, SendStep(t) PROVE AllOK'
<1> USE DEF AllOK
<1>1. CASE SendReadFd(t)
  <2>1. SendersOK' /\ InfosOK'
    <3>1. CASE EndSend(t)
      BY Zenon, <3>1, EndSendType
    <3>2. CASE /\ fdCommand # -1 /\ sfd' = [sfd EXCEPT ![t] = fdCommand]
               /\ spc' = [spc EXCEPT ![t] = "lock"]
               /\ UNCHANGED <<sreq, saddr, infos>>
      <4>1. SendersOK'
        BY Zenon, <3>2 DEF SendersOK, FdsRead, SocketOK
      <4> QED BY Zenon, <4>1, <3>2, Frames
    <3> QED BY Zenon, <1>1, <3>1, <3>2 DEF SendReadFd
  <2> QED BY Zenon, <1>1, <2>1, Frames DEF SendReadFd
<1>2. CASE SendHeader(t)
  <2>1. SendersOK' /\ UNCHANGED <<infos, delivered>>
    BY Zenon, <1>2 DEF SendHeader, FailWrite, SendersOK, FdsRead
  <2> QED BY Zenon, <1>2, <2>1, Frames DEF SendHeader
<1>3. CASE SendData(t)
  <2>1. CASE FailWrite(t)
    <3>1. SendersOK' /\ UNCHANGED <<infos, delivered>>
      BY Zenon, <1>3, <2>1 DEF SendData, FailWrite, SendersOK, FdsRead
    <3> QED BY Zenon, <1>3, <3>1, Frames DEF SendData
  <2>2. CASE /\ Peer(sfd[t]) = "open" /\ EndSend(t)
             /\ delivered' = [m \in Reqs |-> IF m = sreq[t]
                                             THEN Append(delivered[m], file[sfd[t]])
                                             ELSE delivered[m]]
    <3>1. sfd[t] \in Fds
      BY Zenon, <1>3 DEF SendData, SendersOK, FdsRead
    <3>2. file[sfd[t]] \in Conns
      BY Zenon, <2>2, <3>1 DEF Peer, SocketOK
    <3>3. DeliveredOK'
      BY <2>2, <3>2 DEF DeliveredOK
    <3>4. SendersOK' /\ InfosOK'
      BY Zenon, <2>2, EndSendType
    <3> QED BY Zenon, <1>3, <3>3, <3>4, Frames DEF SendData
  <2> QED BY Zenon, <1>3, <2>1, <2>2 DEF SendData
<1>4. CASE SendClose(t)
  <2>1. SendersOK' /\ InfosOK'
    BY Zenon, <1>4, EndSendType DEF SendClose
  <2>2. sfd[t] \in Fds
    BY Zenon, <1>4 DEF SendClose, SendersOK, FdsRead
  <2>3. SocketOK'
    BY Zenon, <1>4 DEF SendClose, SocketOK
  <2>4. \A f \in Fds : file'[f] # NoConn => file[f] # NoConn
    BY Zenon, <1>4, <2>2 DEF SendClose, SocketOK
  <2>5. SocketInv'
    BY Zenon, <1>4, <2>4 DEF SendClose, SocketInv, loop
  <2> QED BY Zenon, <1>4, <2>1, <2>3, <2>5, Frames DEF SendClose
<1> QED BY Zenon, <1>1, <1>2, <1>3, <1>4 DEF SendStep

LEMMA VendorType == ASSUME AllOK, NEW v \in Vendors, VendorStep(v) PROVE AllOK'
<1> USE DEF AllOK
<1>0. v \in Thr
  BY Zenon DEF Thr
<1>1. CASE VendorComplete(v)
  <2>1. PICK a \in held : Complete(v, a) /\ held' = held \ {a}
    BY Zenon, <1>1 DEF VendorComplete
  <2>2. a \in Addrs /\ held' \subseteq Addrs
    BY Zenon, <2>1 DEF InfosOK
  <2>3. SendersOK' /\ InfosOK'
    BY Zenon, <1>0, <2>1, <2>2, CompleteType
  <2> QED BY Zenon, <1>1, <2>3, Frames DEF VendorComplete
<1>2. CASE VendorUnsol(v)
  <2>1. SendersOK'
    BY Zenon, <1>0, <1>2, StartSendType DEF VendorUnsol
  <2> QED BY Zenon, <1>2, <2>1, Frames DEF VendorUnsol
<1> QED BY Zenon, <1>0, <1>1, <1>2, SendType DEF VendorStep

LEMMA SelectType ==
    ASSUME AllOK, EnterSelect \/ SelectReturns \/ Fired PROVE AllOK'
<1> USE DEF AllOK
<1>1. CASE EnterSelect
  <2>1. LoopOK'
    BY Zenon, <1>1 DEF EnterSelect, LoopOK, SocketInv, SocketOK
  <2>2. SocketInv'
    BY Zenon, <1>1 DEF EnterSelect, SocketInv, socket, ServingPcs, LoopOK, SocketOK
  <2> QED BY Zenon, <1>1, <2>1, <2>2, Frames DEF EnterSelect
<1>2. CASE SelectReturns
  <2>1. LoopOK' /\ SocketOK'
    BY Zenon, <1>2 DEF SelectReturns, LoopOK, SocketOK, ReadyEvents
  <2>2. /\ "listen" \in ReadyEvents => armed
        /\ "commands" \in ReadyEvents => selConn # NoConn
    BY Zenon DEF ReadyEvents, CommandsReady
  <2>3. SocketInv'
    BY Zenon, <1>2, <2>2 DEF SelectReturns, SocketInv, ServingPcs, LoopOK, SocketOK
  <2> QED BY Zenon, <1>2, <2>1, <2>3, Frames DEF SelectReturns
<1>3. CASE Fired
  <2>1. LoopOK'
    BY Zenon, <1>3 DEF Fired, LoopOK
  <2>2. SocketInv'
    BY Zenon, <1>3 DEF Fired, SocketInv, socket, ServingPcs, LoopOK
  <2> QED BY Zenon, <1>3, <2>1, <2>2, Frames DEF Fired
<1> QED BY Zenon, <1>1, <1>2, <1>3

LEMMA ListenType ==
    ASSUME AllOK, NEW c \in Conns, Accept(c) \/ Reject(c) \/ AcceptFails(c) PROVE AllOK'
<1> USE DEF AllOK
<1>1. CASE Accept(c)
  <2>1. PICK f \in Fds : file[f] = NoConn /\ file' = [file EXCEPT ![f] = c] /\ cmdFd' = f
    BY Zenon, <1>1 DEF Accept
  <2>2. SocketOK' /\ LoopOK'
    BY Zenon, <1>1, <2>1 DEF Accept, SocketOK, LoopOK
  <2>3. ClientsOK'
    BY Zenon, <1>1 DEF Accept, ClientsOK
  <2>4. \A g \in Fds : file[g] = NoConn
    BY Zenon, <1>1 DEF Accept, CallListen, SocketInv
  <2>5. \A g \in Fds : file'[g] # NoConn => g = f
    BY Zenon, <2>1, <2>4 DEF SocketOK
  <2>6. ~armed /\ ~watched /\ fdCommand = -1 /\ lpc = "fire" /\ "commands" \notin fire
    BY Zenon, <1>1 DEF Accept, CallListen, SocketInv
  <2>7. SocketInv'
    BY Zenon, <1>1, <2>1, <2>5, <2>6 DEF Accept, SocketInv, ServingPcs, LoopOK
  <2> QED BY Zenon, <1>1, <2>2, <2>3, <2>7, Frames DEF Accept
<1>2. CASE Reject(c)
  <2>1. SocketOK' /\ LoopOK' /\ ClientsOK'
    BY Zenon, <1>2 DEF Reject, SocketOK, LoopOK, ClientsOK
  <2>2. InfosOK'
    BY Zenon, <1>2, CancelAllType DEF Reject
  <2>3. SocketInv'
    BY Zenon, <1>2 DEF Reject, CallListen, SocketInv, ServingPcs, LoopOK
  <2> QED BY Zenon, <1>2, <2>1, <2>2, <2>3, Frames DEF Reject
<1>3. CASE AcceptFails(c)
  <2>1. SocketOK' /\ LoopOK'
    BY Zenon, <1>3 DEF AcceptFails, SocketOK, LoopOK
  <2>2. SocketInv'
    BY Zenon, <1>3 DEF AcceptFails, CallListen, SocketInv, ServingPcs, LoopOK
  <2> QED BY Zenon, <1>3, <2>1, <2>2, Frames DEF AcceptFails
<1> QED BY Zenon, <1>1, <1>2, <1>3

LEMMA GreetType == ASSUME AllOK, Publish \/ Greet PROVE AllOK'
<1> USE DEF AllOK
<1>1. CASE Publish
  <2>1. SocketOK' /\ LoopOK'
    BY Zenon, <1>1 DEF Publish, SocketOK, LoopOK
  <2>2. SocketInv'
    BY Zenon, <1>1 DEF Publish, SocketInv, ServingPcs, LoopOK, SocketOK
  <2> QED BY Zenon, <1>1, <2>1, <2>2, Frames DEF Publish
<1>2. CASE Greet
  <2>1. LoopOK'
    BY Zenon, <1>2 DEF Greet, LoopOK
  <2>2. SocketInv'
    BY Zenon, <1>2 DEF Greet, SocketInv, ServingPcs, LoopOK, socket
  <2>3. SendersOK'
    BY Zenon, <1>2, StartSendType DEF Greet, Thr
  <2> QED BY Zenon, <1>2, <2>1, <2>2, <2>3, Frames DEF Greet
<1> QED BY Zenon, <1>1, <1>2

LEMMA ReadType ==
    ASSUME AllOK, NEW r \in Reqs, ReadShort(r) \/ ReadUnsupported(r) \/ ReadAndDispatch(r)
    PROVE  AllOK'
<1> USE DEF AllOK
<1>1. CASE ReadShort(r)
  <2>1. ClientsOK'
    BY Zenon, <1>1 DEF ReadShort, ReadRecord, ClientsOK
  <2> QED BY Zenon, <1>1, <2>1, Frames DEF ReadShort
<1>2. CASE ReadUnsupported(r)
  <2>1. ClientsOK'
    BY Zenon, <1>2 DEF ReadUnsupported, ReadRecord, ClientsOK
  <2>2. SendersOK'
    BY Zenon, <1>2, StartSendType DEF ReadUnsupported, Thr
  <2> QED BY Zenon, <1>2, <2>1, <2>2, Frames DEF ReadUnsupported
<1>3. CASE ReadAndDispatch(r)
  <2>1. ClientsOK'
    BY Zenon, <1>3 DEF ReadAndDispatch, ReadRecord, ClientsOK
  <2>2. PICK a \in Addrs :
          /\ Enlist(a, r)
          /\ calls' = CompletionsInPlace(kind[r])
          /\ daddr' = IF calls' > 0 THEN a ELSE NULL
          /\ held' = IF kind[r] \in {"forward", "large"} THEN held \cup {a} ELSE held
    BY Zenon, <1>3 DEF ReadAndDispatch
  <2>3. InfosOK'
    BY Zenon, <2>2, EnlistType DEF InfosOK
  <2>4. calls' \in 0 .. 2 /\ daddr' \in Addrs \cup {NULL} /\ (calls' > 0 => daddr' \in Addrs)
    BY <2>2 DEF CompletionsInPlace
  <2>5. LoopOK'
    BY Zenon, <1>3, <2>4 DEF ReadAndDispatch, LoopOK
  <2>6. SocketInv'
    BY Zenon, <1>3, <2>4 DEF ReadAndDispatch, ReadRecord, Reading, SocketInv, socket
  <2> QED BY Zenon, <1>3, <2>1, <2>3, <2>5, <2>6, Frames DEF ReadAndDispatch
<1> QED BY Zenon, <1>1, <1>2, <1>3

LEMMA CommandsType ==
    ASSUME AllOK, CallCommands \/ CompleteInPlace \/ ReadNothing \/ CloseCommand \/ CancelPending
    PROVE  AllOK'
<1> USE DEF AllOK
<1>1. CASE CallCommands
  <2>1. LoopOK'
    BY Zenon, <1>1 DEF CallCommands, LoopOK
  <2>2. SocketInv'
    BY Zenon, <1>1 DEF CallCommands, SocketInv, ServingPcs, LoopOK, socket
  <2> QED BY Zenon, <1>1, <2>1, <2>2, Frames DEF CallCommands
<1>2. CASE CompleteInPlace
  <2>1. LoopOK'
    BY <1>2 DEF CompleteInPlace, LoopOK
  <2>2. SocketInv'
    BY <1>2 DEF CompleteInPlace, SocketInv, LoopOK, socket
  <2>3. SendersOK' /\ InfosOK'
    BY Zenon, <1>2, CompleteType DEF CompleteInPlace, SocketInv, InfosOK, Thr
  <2> QED BY Zenon, <1>2, <2>1, <2>2, <2>3, Frames DEF CompleteInPlace
<1>3. CASE ReadNothing
  <2>1. LoopOK'
    BY Zenon, <1>3 DEF ReadNothing, LoopOK
  <2>2. SocketInv'
    BY <1>3 DEF ReadNothing, Reading, SocketInv, ServingPcs, LoopOK, socket
  <2> QED BY Zenon, <1>3, <2>1, <2>2, Frames DEF ReadNothing
<1>4. CASE CloseCommand
  <2>1. SocketOK' /\ LoopOK'
    BY Zenon, <1>4 DEF CloseCommand, SocketOK, LoopOK
  <2>2. \A f \in Fds : file'[f] = NoConn
    BY Zenon, <1>4 DEF CloseCommand, SocketInv, SocketOK
  <2>3. watched /\ lpc = "read" /\ calls = 0 /\ "listen" \notin fire /\ "commands" \notin fire
    BY Zenon, <1>4 DEF CloseCommand, Reading, SocketInv, ServingPcs
  <2>4. SocketInv'
    BY <1>4, <2>2, <2>3 DEF CloseCommand, SocketInv, ServingPcs, LoopOK
  <2> QED BY Zenon, <1>4, <2>1, <2>4, Frames DEF CloseCommand
<1>5. CASE CancelPending
  <2>1. LoopOK'
    BY Zenon, <1>5 DEF CancelPending, LoopOK
  <2>2. SocketInv'
    BY Zenon, <1>5 DEF CancelPending, SocketInv, ServingPcs, LoopOK, socket
  <2>3. InfosOK'
    BY Zenon, <1>5, CancelAllType DEF CancelPending
  <2> QED BY Zenon, <1>5, <2>1, <2>2, <2>3, Frames DEF CancelPending
<1> QED BY Zenon, <1>1, <1>2, <1>3, <1>4, <1>5

LEMMA DebugType == ASSUME AllOK, DebugStep PROVE AllOK'
<1> USE DEF AllOK
<1>0. ASSUME IssueLocal, UNCHANGED <<client, backlog, inbox, kind>> PROVE InfosOK' /\ ClientsOK'
  <2>1. PICK r \in Reqs, a \in Addrs : /\ from' = [from EXCEPT ![r] = Local]
                                       /\ Enlist(a, r)
                                       /\ held' = held \cup {a}
    BY Zenon, <1>0 DEF IssueLocal
  <2>2. InfosOK'
    BY Zenon, <2>1, EnlistType DEF InfosOK
  <2>3. ClientsOK'
    BY Zenon, <1>0, <2>1 DEF ClientsOK
  <2> QED BY Zenon, <2>2, <2>3
<1>1. CASE DebugRequest
  <2>1. LoopOK' /\ DebugOK'
    BY Zenon, <1>1 DEF DebugRequest, LoopOK, DebugOK
  <2>2. SocketInv'
    BY Zenon, <1>1 DEF DebugRequest, CallDebug, SocketInv, ServingPcs, LoopOK, socket
  <2> QED BY Zenon, <1>0, <1>1, <2>1, <2>2, Frames DEF DebugRequest
<1>2. CASE DebugPowerOff
  <2>1. LoopOK' /\ DebugOK' /\ SocketOK'
    BY Zenon, <1>2 DEF DebugPowerOff, LoopOK, DebugOK, SocketOK
  <2>2. SocketInv'
    BY Zenon, <1>2 DEF DebugPowerOff, CallDebug, SocketInv, ServingPcs, LoopOK, SocketOK
  <2> QED BY Zenon, <1>0, <1>2, <2>1, <2>2, Frames DEF DebugPowerOff
<1>3. CASE DebugRadioOn
  <2>1. LoopOK' /\ DebugOK'
    BY Zenon, <1>3 DEF DebugRadioOn, LoopOK, DebugOK
  <2>2. SocketInv'
    BY Zenon, <1>3 DEF DebugRadioOn, CallDebug, SocketInv, ServingPcs, LoopOK, socket
  <2> QED BY Zenon, <1>0, <1>3, <2>1, <2>2, Frames DEF DebugRadioOn
<1>4. CASE DebugSelectNetwork
  <2>1. LoopOK'
    BY Zenon, <1>4 DEF DebugSelectNetwork, LoopOK
  <2>2. SocketInv'
    BY Zenon, <1>4 DEF DebugSelectNetwork, SocketInv, ServingPcs, LoopOK, socket
  <2> QED BY Zenon, <1>0, <1>4, <2>1, <2>2, Frames DEF DebugSelectNetwork
<1>5. CASE DebugUnsol
  <2>1. LoopOK' /\ DebugOK'
    BY Zenon, <1>5 DEF DebugUnsol, LoopOK, DebugOK
  <2>2. SocketInv'
    BY Zenon, <1>5 DEF DebugUnsol, CallDebug, SocketInv, ServingPcs, LoopOK, socket
  <2>3. SendersOK'
    BY Zenon, <1>5, StartSendType DEF DebugUnsol, Thr
  <2> QED BY Zenon, <1>5, <2>1, <2>2, <2>3, Frames DEF DebugUnsol
<1>6. CASE DebugNothing
  <2>1. LoopOK' /\ DebugOK'
    BY Zenon, <1>6 DEF DebugNothing, LoopOK, DebugOK
  <2>2. SocketInv'
    BY Zenon, <1>6 DEF DebugNothing, CallDebug, SocketInv, ServingPcs, LoopOK, socket
  <2> QED BY Zenon, <1>6, <2>1, <2>2, Frames DEF DebugNothing
<1> QED BY Zenon, <1>1, <1>2, <1>3, <1>4, <1>5, <1>6 DEF DebugStep

LEMMA ClientType == ASSUME AllOK, ClientStep PROVE AllOK'
<1> USE DEF AllOK
<1>1. ASSUME NEW c \in Conns, \/ Connect(c) \/ ClientSends(c) \/ ClientStalls(c)
                              \/ ClientReads(c) \/ ClientCloses(c)
      PROVE  AllOK'
  <2>1. CASE Connect(c)
    <3>1. ClientsOK'
      BY Zenon, <2>1 DEF Connect, ClientsOK
    <3> QED BY Zenon, <2>1, <3>1, Frames DEF Connect
  <2>2. CASE ClientSends(c)
    <3>1. ClientsOK'
      BY <2>2, ConstantsAssumption DEF ClientSends, ClientsOK
    <3> QED BY Zenon, <2>2, <3>1, Frames DEF ClientSends
  <2>3. CASE ClientStalls(c)
    <3>1. ClientsOK'
      BY Zenon, <2>3 DEF ClientStalls, ClientsOK
    <3> QED BY Zenon, <2>3, <3>1, Frames DEF ClientStalls
  <2>4. CASE ClientReads(c)
    <3>1. ClientsOK'
      BY Zenon, <2>4 DEF ClientReads, ClientsOK
    <3> QED BY Zenon, <2>4, <3>1, Frames DEF ClientReads
  <2>5. CASE ClientCloses(c)
    <3>1. ClientsOK'
      BY Zenon, <2>5 DEF ClientCloses, ClientsOK
    <3> QED BY Zenon, <2>5, <3>1, Frames DEF ClientCloses
  <2> QED BY Zenon, <1>1, <2>1, <2>2, <2>3, <2>4, <2>5
<1>2. CASE DebugConnects
  <2>1. DebugOK'
    BY <1>2 DEF DebugConnects, DebugOK
  <2> QED BY Zenon, <1>2, <2>1, Frames DEF DebugConnects
<1> QED BY Zenon, <1>1, <1>2 DEF ClientStep

LEMMA RestartType == ASSUME AllOK, Restart PROVE AllOK'
<1> USE DEF AllOK
<1>1. SocketOK' /\ LoopOK' /\ DebugOK' /\ DeliveredOK'
  <2>1. SocketOK'
    BY Zenon DEF Restart, SocketOK
  <2>2. LoopOK'
    BY DEF Restart, LoopOK
  <2>3. DebugOK' /\ DeliveredOK'
    BY Zenon DEF Restart, DebugOK, DeliveredOK
  <2> QED BY Zenon, <2>1, <2>2, <2>3
<1>2. ClientsOK' /\ InfosOK'
  BY Zenon DEF Restart, ClientsOK, InfosOK
<1>3. SendersOK'
  BY Zenon DEF Restart, SendersOK, FdsRead
<1>4. SocketInv'
  BY DEF Restart, SocketInv, ServingPcs
<1> QED BY Zenon, <1>1, <1>2, <1>3, <1>4

LEMMA InitType == Init => AllOK
<1> SUFFICES ASSUME Init PROVE AllOK
  OBVIOUS
<1> USE DEF AllOK
<1>1. SocketOK /\ LoopOK /\ DebugOK /\ DeliveredOK
  <2>1. SocketOK
    BY Zenon DEF Init, SocketOK
  <2>2. LoopOK
    BY DEF Init, LoopOK
  <2>3. DebugOK
    BY Zenon, ConstantsAssumption DEF Init, DebugOK
  <2>4. DeliveredOK
    BY DEF Init, DeliveredOK
  <2> QED BY Zenon, <2>1, <2>2, <2>3, <2>4
<1>2. ClientsOK /\ InfosOK
  BY Zenon DEF Init, ClientsOK, InfosOK, AllKinds
<1>3. SendersOK
  BY Zenon DEF Init, SendersOK, FdsRead
<1>4. SocketInv
  BY DEF Init, SocketInv, ServingPcs
<1> QED BY Zenon, <1>1, <1>2, <1>3, <1>4

LEMMA TypeStep == AllOK /\ [Next]_vars => AllOK'
<1> SUFFICES ASSUME AllOK, [Next]_vars PROVE AllOK'
  OBVIOUS
<1>1. CASE LoopStep
  <2>1. CASE SendStep(Loop)
    BY Zenon, <2>1, SendType DEF Thr
  <2> QED BY Zenon, <1>1, <2>1, SelectType, ListenType, GreetType, ReadType, CommandsType,
             DebugType
          DEF LoopStep
<1>2. CASE UNCHANGED vars
  BY Zenon, <1>2, Frames DEF vars, AllOK
<1> QED BY Zenon, <1>1, <1>2, VendorType, ClientType, RestartType DEF Next

LEMMA AllOKAlways == Spec => []AllOK
<1> QED BY InitType, TypeStep, PTL DEF Spec

\* Every variable of the request path keeps its type, whatever the loop, the vendor's
\* threads, the clients and the debug socket do.
THEOREM TypeCorrect == Spec => []TypeOK
<1>1. AllOK => TypeOK
  BY Zenon, TypeParts DEF AllOK
<1> QED BY <1>1, AllOKAlways, PTL

\* In every instance the daemon that waits in select either listens or watches its
\* connection (listenCallback, processCommandsCallback and the failure paths of both).
THEOREM ListensOrServes == Spec => []ListenOrServe
<1>1. AllOK => ListenOrServe
  <2> SUFFICES ASSUME AllOK PROVE ListenOrServe
    OBVIOUS
  <2> USE DEF AllOK
  <2>1. lpc = "blocked" => (armed <=> ~watched)
    BY Zenon DEF SocketInv
  <2>2. armed \/ "listen" \in fire =>
          fdCommand = -1 /\ ~watched /\ \A f \in Fds : file[f] = NoConn
    BY Zenon DEF SocketInv
  <2>3. \A f, g \in Fds : file[f] # NoConn /\ file[g] # NoConn => f = g
    BY Zenon DEF SocketInv
  <2> QED BY Zenon, <2>1, <2>2, <2>3 DEF ListenOrServe
<1> QED BY <1>1, AllOKAlways, PTL

-----------------------------------------------------------------------------
(* One owner.                                                              *)

LEMMA OwnerFrame ==
    OwnerInv /\ UNCHANGED <<alloc, pending, held, spc, saddr, calls, daddr>> => OwnerInv'
BY DEF OwnerInv, OneOwner

\* A thread that goes on sending keeps what it owns.
LEMMA OwnerGoesOn ==
    ASSUME OwnerInv, SendersOK, NEW t \in Thr, spc[t] # "none",
           \E p \in {"lock", "data", "close"} : spc' = [spc EXCEPT ![t] = p],
           UNCHANGED <<alloc, pending, held, saddr, calls, daddr>>
    PROVE  OwnerInv'
<1>1. \A u \in Thr : spc'[u] = "none" => spc[u] = "none"
  BY Zenon DEF SendersOK
<1> QED BY <1>1 DEF OwnerInv, OneOwner

LEMMA OwnerEndSend ==
    ASSUME OwnerInv, SendersOK, InfosOK, NEW t \in Thr, EndSend(t), UNCHANGED <<calls, daddr>>
    PROVE  OwnerInv'
<1>1. saddr' = [saddr EXCEPT ![t] = NULL] /\ saddr'[t] = NULL
      /\ \A u \in Thr : u # t => saddr'[u] = saddr[u]
  BY Zenon DEF EndSend, SendersOK
<1>2. alloc' = pending' \cup ({saddr'[u] : u \in Thr} \ {NULL})
  <2>1. \A u \in Thr : u # t /\ saddr[u] # NULL => saddr[u] # saddr[t]
    BY Zenon DEF OwnerInv, OneOwner
  <2>2. saddr[t] \notin pending
    BY Zenon DEF OwnerInv, OneOwner
  <2> QED BY <1>1, <2>1, <2>2 DEF EndSend, OwnerInv, OneOwner
<1>3. \A u \in Thr : saddr'[u] \notin pending'
  BY Zenon, <1>1, ConstantsAssumption DEF EndSend, OwnerInv, OneOwner, InfosOK
<1>4. \A u, w \in Thr : saddr'[u] = saddr'[w] => u = w \/ saddr'[u] = NULL
  BY <1>1 DEF OwnerInv, OneOwner
<1>5. \A u \in Thr : spc'[u] = "none" => saddr'[u] = NULL
  BY Zenon, <1>1 DEF EndSend, OwnerInv, SendersOK
<1> QED BY Zenon, <1>2, <1>3, <1>4, <1>5 DEF EndSend, OwnerInv, OneOwner

\* A message that has no RequestInfo.
LEMMA OwnerStartSend ==
    ASSUME OwnerInv, SendersOK, InfosOK, NEW t \in Thr, NEW m, spc[t] = "none",
           StartSend(t, m, NULL), UNCHANGED <<alloc, pending, held, calls, daddr>>
    PROVE  OwnerInv'
<1>1. saddr' = saddr
  BY Zenon DEF StartSend, SendersOK, OwnerInv
<1>2. \A u \in Thr : spc'[u] = "none" => spc[u] = "none"
  BY Zenon DEF StartSend, SendersOK
<1> QED BY <1>1, <1>2 DEF OwnerInv, OneOwner

LEMMA OwnerComplete ==
    ASSUME OwnerInv, SendersOK, InfosOK, NEW t \in Thr, NEW a \in Addrs, spc[t] = "none",
           Complete(t, a), held' \subseteq held, a \notin held',
           calls' > 0 => calls > 0 /\ daddr' = daddr
    PROVE  OwnerInv'
<1>0. saddr[t] = NULL
  BY Zenon DEF OwnerInv
<1>1. CASE a \notin pending /\ UNCHANGED <<alloc, pending, senders>>
  <2>1. OneOwner'
    BY <1>1 DEF OwnerInv, OneOwner, senders
  <2> QED BY Zenon, <1>1, <2>1 DEF OwnerInv, senders
<1>2. CASE /\ a \in pending /\ pending' = pending \ {a} /\ alloc' = alloc \ {a}
           /\ UNCHANGED senders
  <2>1. \A u \in Thr : saddr[u] # a
    BY Zenon, <1>2 DEF OwnerInv, OneOwner
  <2>2. alloc' = pending' \cup ({saddr'[u] : u \in Thr} \ {NULL})
    BY <1>2, <2>1 DEF OwnerInv, OneOwner, senders
  <2>3. OneOwner'
    BY Zenon, <1>2, <2>2 DEF OwnerInv, OneOwner, senders
  <2> QED BY Zenon, <1>2, <2>3 DEF OwnerInv, senders
<1>3. CASE /\ a \in pending /\ pending' = pending \ {a} /\ StartSend(t, req[a], a)
           /\ UNCHANGED alloc
  <2>1. saddr'[t] = a /\ \A u \in Thr : u # t => saddr'[u] = saddr[u] /\ saddr'[u] # a
    BY <1>3 DEF StartSend, SendersOK, OwnerInv, OneOwner
  <2>2. a # NULL
    BY Zenon, ConstantsAssumption
  <2>3. alloc' = pending' \cup ({saddr'[u] : u \in Thr} \ {NULL})
    BY <1>0, <1>3, <2>1, <2>2 DEF OwnerInv, OneOwner
  <2>4. \A u \in Thr : saddr'[u] \notin pending'
    BY Zenon, <1>3, <2>1 DEF OwnerInv, OneOwner
  <2>5. \A u, w \in Thr : saddr'[u] = saddr'[w] => u = w \/ saddr'[u] = NULL
    BY Zenon, <2>1 DEF OwnerInv, OneOwner
  <2>6. OneOwner'
    BY Zenon, <1>3, <2>3, <2>4, <2>5 DEF OwnerInv, OneOwner
  <2>7. \A u \in Thr : spc'[u] = "none" => saddr'[u] = NULL
    BY Zenon, <1>3, <2>1 DEF StartSend, OwnerInv, SendersOK
  <2> QED BY Zenon, <2>6, <2>7 DEF OwnerInv
<1> QED BY Zenon, <1>1, <1>2, <1>3 DEF Complete

LEMMA OwnerEnlist ==
    ASSUME OwnerInv, SendersOK, InfosOK, NEW a \in Addrs, NEW r \in Reqs, Enlist(a, r),
           held' \in {held, held \cup {a}}, calls' > 0 => daddr' \notin held',
           UNCHANGED senders
    PROVE  OwnerInv'
<1>1. \A t \in Thr : saddr[t] # a
  BY Zenon, ConstantsAssumption DEF OwnerInv, OneOwner, Enlist
<1>2. OneOwner'
  BY <1>1 DEF OwnerInv, OneOwner, Enlist, senders
<1> QED BY Zenon, <1>2 DEF OwnerInv, senders

LEMMA OwnerSend ==
    ASSUME AllOK, OwnerInv, NEW t \in Thr, SendStep(t) PROVE OwnerInv'
<1> USE DEF AllOK
<1>1. ASSUME EndSend(t), UNCHANGED loop PROVE OwnerInv'
  BY Zenon, <1>1, OwnerEndSend DEF loop
<1>2. ASSUME NEW p \in {"lock", "data", "close"}, spc[t] # "none",
             spc' = [spc EXCEPT ![t] = p], UNCHANGED <<infos, saddr, loop>>
      PROVE  OwnerInv'
  BY Zenon, <1>2, OwnerGoesOn DEF infos, loop
<1>3. CASE SendReadFd(t)
  BY Zenon, <1>1, <1>2, <1>3 DEF SendReadFd
<1>4. CASE SendHeader(t)
  BY Zenon, <1>2, <1>4 DEF SendHeader, FailWrite
<1>5. CASE SendData(t)
  BY Zenon, <1>1, <1>2, <1>5 DEF SendData, FailWrite
<1>6. CASE SendClose(t)
  BY Zenon, <1>1, <1>6 DEF SendClose
<1> QED BY Zenon, <1>3, <1>4, <1>5, <1>6 DEF SendStep

LEMMA OwnerLocal ==
    ASSUME AllOK, OwnerInv, IssueLocal, calls = 0, UNCHANGED <<calls, senders>> PROVE OwnerInv'
<1>1. PICK r \in Reqs, a \in Addrs : Enlist(a, r) /\ held' = held \cup {a}
  BY Zenon DEF IssueLocal
<1>2. ~(calls' > 0)
  OBVIOUS
<1> QED BY Zenon, <1>1, <1>2, OwnerEnlist DEF AllOK

LEMMA OwnerRead ==
    ASSUME AllOK, OwnerInv, NEW r \in Reqs,
           ReadShort(r) \/ ReadUnsupported(r) \/ ReadAndDispatch(r)
    PROVE  OwnerInv'
<1>1. CASE ReadShort(r)
  BY Zenon, <1>1, OwnerFrame DEF ReadShort, infos, senders, loop
<1>2. CASE ReadUnsupported(r)
  BY Zenon, <1>2, OwnerStartSend
     DEF AllOK, Thr, ReadUnsupported, ReadRecord, Reading, LoopFree, infos, loop
<1>3. CASE ReadAndDispatch(r)
  <2>1. PICK a \in Addrs :
          /\ Enlist(a, r)
          /\ calls' = CompletionsInPlace(kind[r])
          /\ daddr' = IF calls' > 0 THEN a ELSE NULL
          /\ held' = IF kind[r] \in {"forward", "large"} THEN held \cup {a} ELSE held
    BY Zenon, <1>3 DEF ReadAndDispatch
  <2>2. a \notin held
    BY Zenon, <2>1 DEF Enlist, OwnerInv, OneOwner
  <2>3. calls' > 0 => daddr' \notin held'
    BY <2>1, <2>2 DEF CompletionsInPlace
  <2>4. UNCHANGED senders /\ held' \in {held, held \cup {a}}
    BY Zenon, <1>3, <2>1 DEF ReadAndDispatch
  <2> QED BY Zenon, <2>1, <2>3, <2>4, OwnerEnlist DEF AllOK
<1> QED BY Zenon, <1>1, <1>2, <1>3

LEMMA OwnerDebug == ASSUME AllOK, OwnerInv, DebugStep PROVE OwnerInv'
<1>1. lpc \in {"fire", "sleep"} => calls = 0
  BY DEF AllOK, SocketInv, LoopOK
<1>2. CASE DebugRequest \/ DebugPowerOff \/ DebugRadioOn \/ DebugSelectNetwork
  <2>1. lpc \in {"fire", "sleep"} /\ IssueLocal /\ UNCHANGED <<calls, senders>>
    BY Zenon, <1>2 DEF DebugRequest, DebugPowerOff, DebugRadioOn, DebugSelectNetwork, CallDebug
  <2> QED BY Zenon, <1>1, <2>1, OwnerLocal
<1>3. CASE DebugUnsol
  BY Zenon, <1>3, OwnerStartSend DEF AllOK, Thr, DebugUnsol, CallDebug, LoopFree, infos
<1>4. CASE DebugNothing
  BY Zenon, <1>4, OwnerFrame DEF DebugNothing, infos, senders
<1> QED BY Zenon, <1>2, <1>3, <1>4 DEF DebugStep

LEMMA OwnerStep == AllOK /\ OwnerInv /\ [Next]_vars => OwnerInv'
<1> SUFFICES ASSUME AllOK, OwnerInv, [Next]_vars PROVE OwnerInv'
  OBVIOUS
<1>1. CASE LoopStep
  <2>1. CASE EnterSelect \/ SelectReturns \/ Fired
    BY Zenon, <2>1, OwnerFrame DEF EnterSelect, SelectReturns, Fired, infos, senders
  <2>2. ASSUME NEW c \in Conns, Accept(c) \/ Reject(c) \/ AcceptFails(c) PROVE OwnerInv'
    BY Zenon, <2>2, OwnerFrame DEF Accept, Reject, AcceptFails, infos, senders
  <2>3. CASE Publish \/ CallCommands \/ ReadNothing \/ CloseCommand \/ CancelPending
    BY Zenon, <2>3, OwnerFrame
       DEF Publish, CallCommands, ReadNothing, CloseCommand, CancelPending, infos, senders
  <2>4. CASE Greet
    BY Zenon, <2>4, OwnerStartSend DEF AllOK, Thr, Greet, LoopFree, infos
  <2>5. CASE CompleteInPlace
    <3>1. daddr \in Addrs /\ daddr \notin held /\ held' = held
      BY Zenon, <2>5 DEF CompleteInPlace, AllOK, SocketInv, OwnerInv
    <3>2. calls' > 0 => daddr' = daddr
      BY <2>5 DEF CompleteInPlace, AllOK, LoopOK
    <3> QED BY Zenon, <2>5, <3>1, <3>2, OwnerComplete DEF AllOK, Thr, CompleteInPlace, LoopFree
  <2>6. CASE SendStep(Loop)
    BY Zenon, <2>6, OwnerSend DEF Thr
  <2> QED BY Zenon, <1>1, <2>1, <2>2, <2>3, <2>4, <2>5, <2>6, OwnerRead, OwnerDebug DEF LoopStep
<1>2. ASSUME NEW v \in Vendors, VendorStep(v) PROVE OwnerInv'
  <2>0. v \in Thr
    BY Zenon DEF Thr
  <2>1. CASE VendorComplete(v)
    <3>1. PICK a \in held : Complete(v, a) /\ held' = held \ {a}
      BY Zenon, <2>1 DEF VendorComplete
    <3>2. a \in Addrs /\ UNCHANGED loop /\ spc[v] = "none"
      BY Zenon, <2>1 DEF AllOK, InfosOK, VendorComplete
    <3> QED BY Zenon, <2>0, <3>1, <3>2, OwnerComplete DEF AllOK, loop
  <2>2. CASE VendorUnsol(v)
    BY Zenon, <2>0, <2>2, OwnerStartSend DEF AllOK, VendorUnsol, infos, loop
  <2> QED BY Zenon, <1>2, <2>0, <2>1, <2>2, OwnerSend DEF VendorStep
<1>3. CASE ClientStep
  BY Zenon, <1>3, OwnerFrame DEF ClientStep, Connect, ClientSends, ClientStalls, ClientReads,
                          ClientCloses, DebugConnects, infos, senders, loop
<1>4. CASE Restart
  <2>1. \A t \in Thr : saddr'[t] = NULL
    BY Zenon, <1>4 DEF Restart
  <2>2. alloc' = {} /\ pending' = {} /\ held' = {} /\ ~(calls' > 0)
    BY <1>4 DEF Restart
  <2> QED BY <2>1, <2>2 DEF OwnerInv, OneOwner
<1>5. CASE UNCHANGED vars
  BY Zenon, <1>5, OwnerFrame DEF vars, infos, senders, loop
<1> QED BY Zenon, <1>1, <1>2, <1>3, <1>4, <1>5 DEF Next

LEMMA OwnerAlways == Spec => []OwnerInv
<1>1. Init => OwnerInv
  <2>1. Init => \A t \in Thr : saddr[t] = NULL
    BY Zenon DEF Init
  <2> QED BY <2>1 DEF Init, OwnerInv, OneOwner
<1> QED BY <1>1, OwnerStep, AllOKAlways, PTL DEF Spec

\* Every RequestInfo is freed once, by the one thread that took it off the list in
\* checkAndDequeueRequestInfo, and never while the vendor library has its token.
THEOREM OwnedOnce == Spec => []OneOwner
<1>1. OwnerInv => OneOwner
  BY Zenon DEF OwnerInv
<1> QED BY <1>1, OwnerAlways, PTL

-----------------------------------------------------------------------------
(* Answers at most once: all steps but the end of a sending.               *)

LEMMA OnceFrame ==
    OnceInv /\ UNCHANGED <<from, delivered, inbox, alloc, req, spc, sreq, saddr>> => OnceInv'
<1> SUFFICES ASSUME OnceInv, UNCHANGED <<from, delivered, inbox, alloc, req, spc, sreq, saddr>>
             PROVE  OnceInv'
  OBVIOUS
<1>1. AnsweredOnce' /\ UnreadOpen' /\ \A r \in Reqs : from'[r] = Unused => delivered'[r] = << >>
  BY Zenon DEF OnceInv, AnsweredOnce, UnreadOpen, Open
<1>2. InfosOpen'
  BY Zenon DEF OnceInv, InfosOpen, IsLocal, Open
<1>3. SendersOpen'
  BY Zenon DEF OnceInv, SendersOpen, Open
<1> QED BY Zenon, <1>1, <1>2, <1>3 DEF OnceInv

\* A request that has not been sent yet is nowhere.
LEMMA UnusedNowhere ==
    ASSUME OnceInv, NEW r \in Reqs, from[r] = Unused
    PROVE  /\ r \notin inbox /\ \A a \in alloc : req[a] # r
           /\ \A t \in Thr : sreq[t] # r
           /\ delivered[r] = << >>
<1>1. ~Open(r) /\ r # Unsol
  BY DEF Open, Unused, Conns, Reqs, Unsol
<1>2. \A a \in alloc : req[a] # r
  BY <1>1 DEF OnceInv, InfosOpen, IsLocal, Local, Unused
<1> QED BY Zenon, <1>1, <1>2 DEF OnceInv, UnreadOpen, SendersOpen

\* A request enters the system: it is no longer unused, and nothing else changes.
LEMMA FromKept ==
    ASSUME ClientsOK, NEW r \in Reqs, NEW c \in Conns \cup {Local}, from[r] = Unused,
           from' = [from EXCEPT ![r] = c], UNCHANGED delivered
    PROVE  /\ \A q \in Reqs : Open(q) => Open(q)'
           /\ \A q \in Reqs : from[q] = Local => from'[q] = Local
           /\ from'[r] = c /\ \A q \in Reqs : q # r => from'[q] = from[q]
BY DEF ClientsOK, Open, Unused, Local, Conns

LEMMA OnceSends ==
    ASSUME AllOK, OnceInv, NEW c \in Conns, ClientSends(c) PROVE OnceInv'
<1>1. PICK r \in Reqs : IsNextReq(r) /\ from' = [from EXCEPT ![r] = c] /\ inbox' = inbox \cup {r}
  BY Zenon DEF ClientSends
<1>2. /\ UNCHANGED <<delivered, alloc, req, spc, sreq, saddr>> /\ from[r] = Unused
      /\ inbox \subseteq Reqs
  BY Zenon, <1>1 DEF ClientSends, infos, senders, IsNextReq, AllOK, ClientsOK
<1>3. /\ r \notin inbox /\ \A a \in alloc : req[a] # r
      /\ \A t \in Thr : sreq[t] # r
      /\ delivered[r] = << >>
  BY Zenon, <1>2, UnusedNowhere
<1>4. /\ \A q \in Reqs : Open(q) => Open(q)'
      /\ \A q \in Reqs : from[q] = Local => from'[q] = Local
      /\ from'[r] = c /\ \A q \in Reqs : q # r => from'[q] = from[q]
  BY Zenon, <1>1, <1>2, FromKept DEF AllOK
<1>5. Open(r)'
  BY Zenon, <1>2, <1>3, <1>4 DEF Open
<1>6. AnsweredOnce' /\ \A q \in Reqs : from'[q] = Unused => delivered'[q] = << >>
  BY Zenon, <1>2, <1>3, <1>4 DEF OnceInv, AnsweredOnce
<1>7. UnreadOpen'
  BY Zenon, <1>1, <1>2, <1>4, <1>5 DEF OnceInv, UnreadOpen
<1>8. InfosOpen'
  BY <1>1, <1>2, <1>3, <1>4 DEF OnceInv, InfosOpen, IsLocal
<1>9. SendersOpen'
  BY <1>1, <1>2, <1>3, <1>4 DEF OnceInv, SendersOpen, AllOK, SendersOK
<1> QED BY Zenon, <1>6, <1>7, <1>8, <1>9 DEF OnceInv

\* A request that is read, or that comes from the debug socket, gets a RequestInfo.
LEMMA OnceEnlist ==
    ASSUME AllOK, OwnerInv, OnceInv, NEW r \in Reqs, NEW a \in Addrs, Enlist(a, r),
           UNCHANGED <<delivered, senders>>, inbox' = inbox \ {r},
           \A b \in alloc : req[b] # r, \A t \in Thr : sreq[t] # r,
           \A q \in Reqs : Open(q) => Open(q)',
           \A q \in Reqs : q # r => from'[q] = from[q],
           delivered[r] = << >>, from'[r] = Local \/ Open(r)'
    PROVE  OnceInv'
<1>1. /\ alloc' = alloc \cup {a} /\ a \notin alloc /\ req'[a] = r
      /\ \A b \in Addrs : b # a => req'[b] = req[b]
      /\ UNCHANGED <<spc, sreq, saddr>> /\ alloc \subseteq Addrs /\ inbox \subseteq Reqs
  BY Zenon DEF Enlist, AllOK, InfosOK, ClientsOK, senders
<1>2. AnsweredOnce' /\ \A q \in Reqs : from'[q] = Unused => delivered'[q] = << >>
  BY Zenon DEF OnceInv, AnsweredOnce
<1>3. UnreadOpen'
  BY Zenon, <1>1 DEF OnceInv, UnreadOpen
<1>4. \A b \in alloc' : req'[b] \in Reqs /\ req'[b] \notin inbox' /\ (IsLocal(b) \/ Open(req[b]))'
  <2> SUFFICES ASSUME NEW b \in alloc'
               PROVE  /\ req'[b] \in Reqs /\ req'[b] \notin inbox'
                      /\ from'[req'[b]] = Local \/ Open(req[b])'
    BY Zenon DEF IsLocal
  <2>1. CASE b = a
    BY Zenon, <1>1, <2>1 DEF Open
  <2>2. CASE b # a
    BY <1>1, <2>2 DEF OnceInv, InfosOpen, IsLocal, Open
  <2> QED BY Zenon, <2>1, <2>2
<1>5. \A b, d \in alloc' : req'[b] = req'[d] => b = d
  <2> SUFFICES ASSUME NEW b \in alloc', NEW d \in alloc', req'[b] = req'[d] PROVE b = d
    OBVIOUS
  <2>1. CASE b = a \/ d = a
    BY Zenon, <1>1, <2>1
  <2>2. CASE b # a /\ d # a
    BY <1>1, <2>2 DEF OnceInv, InfosOpen
  <2> QED BY Zenon, <2>1, <2>2
<1>6. SendersOpen'
  <2>1. \A t \in Thr : saddr[t] # NULL => saddr[t] \in alloc
    BY Zenon DEF OwnerInv, OneOwner
  <2>2. \A t \in Thr : saddr'[t] # NULL => sreq'[t] = req'[saddr'[t]]
    BY <1>1, <2>1 DEF OnceInv, SendersOpen
  <2>3. ASSUME NEW t \in Thr, sreq'[t] # Unsol
        PROVE  /\ spc'[t] # "none" /\ Open(sreq[t])' /\ sreq'[t] \notin inbox'
               /\ \A u \in Thr : sreq'[u] = sreq'[t] => u = t
               /\ \A b \in alloc' : req'[b] = sreq'[t] => b = saddr'[t]
    <3>1. sreq[t] \in Reqs /\ sreq[t] # r
      BY <1>1, <2>3 DEF AllOK, SendersOK
    <3>2. Open(sreq[t])'
      BY Zenon, <1>1, <2>3, <3>1 DEF OnceInv, SendersOpen, Open
    <3> QED BY <1>1, <2>3, <3>1, <3>2 DEF OnceInv, SendersOpen
  <2> QED BY Zenon, <2>2, <2>3 DEF SendersOpen
<1> QED BY Zenon, <1>2, <1>3, <1>4, <1>5, <1>6 DEF OnceInv, InfosOpen

\* An idle thread starts to send an unsolicited message.
LEMMA OnceUnsol ==
    ASSUME AllOK, OwnerInv, OnceInv, NEW t \in Thr, spc[t] = "none", StartSend(t, Unsol, NULL),
           UNCHANGED <<from, delivered, inbox, alloc, req>>
    PROVE  OnceInv'
<1>1. saddr' = saddr /\ sreq' = sreq
  BY DEF StartSend, OwnerInv, OnceInv, SendersOpen, AllOK, SendersOK
<1>2. \A u \in Thr : spc'[u] = "none" => spc[u] = "none"
  BY Zenon DEF StartSend, AllOK, SendersOK
<1>3. SendersOpen'
  BY <1>1, <1>2 DEF OnceInv, SendersOpen, Open
<1>4. AnsweredOnce' /\ UnreadOpen' /\ \A r \in Reqs : from'[r] = Unused => delivered'[r] = << >>
  BY Zenon DEF OnceInv, AnsweredOnce, UnreadOpen, Open
<1>5. InfosOpen'
  BY Zenon DEF OnceInv, InfosOpen, IsLocal, Open
<1> QED BY <1>3, <1>4, <1>5 DEF OnceInv

LEMMA OnceRead ==
    ASSUME AllOK, OwnerInv, OnceInv, NEW r \in Reqs,
           ReadShort(r) \/ ReadUnsupported(r) \/ ReadAndDispatch(r)
    PROVE  OnceInv'
<1>1. /\ r \in inbox /\ inbox' = inbox \ {r} /\ spc[Loop] = "none" /\ Loop \in Thr
      /\ UNCHANGED <<from, delivered>>
  BY Zenon DEF ReadShort, ReadUnsupported, ReadAndDispatch, ReadRecord, IsFirst, Reading,
     LoopFree, Thr
<1>2. Open(r) /\ (\A a \in alloc : req[a] # r) /\ \A t \in Thr : sreq[t] # r
  <2>1. Open(r)
    BY Zenon, <1>1 DEF OnceInv, UnreadOpen
  <2>2. \A a \in alloc : req[a] # r
    BY Zenon, <1>1 DEF OnceInv, InfosOpen
  <2>3. r # Unsol
    BY DEF Reqs, Unsol
  <2>4. \A t \in Thr : sreq[t] # Unsol => sreq[t] \notin inbox
    BY Zenon DEF OnceInv, SendersOpen
  <2> QED BY <1>1, <2>1, <2>2, <2>3, <2>4
<1>3. \A q : Open(q)' <=> Open(q)
  BY Zenon, <1>1 DEF Open
<1>4. AnsweredOnce' /\ UnreadOpen' /\ \A q \in Reqs : from'[q] = Unused => delivered'[q] = << >>
  BY Zenon, <1>1, <1>3 DEF OnceInv, AnsweredOnce, UnreadOpen
<1>5. ASSUME UNCHANGED infos PROVE InfosOpen'
  BY <1>1, <1>3, <1>5 DEF OnceInv, InfosOpen, IsLocal, Open, infos
<1>6. CASE ReadShort(r)
  <2>1. UNCHANGED <<infos, senders>>
    BY Zenon, <1>6 DEF ReadShort
  <2>2. /\ sreq' = sreq /\ spc' = spc /\ saddr' = saddr
        /\ alloc' = alloc /\ req' = req
    BY Zenon, <2>1 DEF infos, senders
  <2>3. SendersOpen'
    BY Zenon, <1>1, <1>3, <2>2 DEF OnceInv, SendersOpen, Open
  <2> QED BY <1>4, <1>5, <2>1, <2>3 DEF OnceInv
<1>7. CASE ReadUnsupported(r)
  <2>1. UNCHANGED infos /\ StartSend(Loop, r, NULL)
    BY Zenon, <1>7 DEF ReadUnsupported
  <2>2. /\ sreq'[Loop] = r /\ saddr' = saddr /\ spc'[Loop] # "none" /\ saddr[Loop] = NULL
        /\ \A t \in Thr : t # Loop => sreq'[t] = sreq[t] /\ spc'[t] = spc[t]
    BY <1>1, <2>1 DEF StartSend, OwnerInv, AllOK, SendersOK
  <2>3. ASSUME NEW t \in Thr, sreq'[t] # Unsol
        PROVE  /\ spc'[t] # "none" /\ Open(sreq[t])' /\ sreq'[t] \notin inbox'
               /\ \A u \in Thr : sreq'[u] = sreq'[t] => u = t
               /\ \A b \in alloc' : req'[b] = sreq'[t] => b = saddr'[t]
    <3>1. CASE t = Loop
      BY <1>1, <1>2, <2>1, <2>2, <3>1 DEF infos, Open
    <3>2. CASE t # Loop
      <4>1. sreq'[t] = sreq[t] /\ spc'[t] = spc[t] /\ saddr'[t] = saddr[t] /\ sreq[t] # r
        BY <1>2, <2>2, <2>3, <3>2
      <4>2. /\ spc[t] # "none" /\ Open(sreq[t]) /\ sreq[t] \notin inbox
            /\ \A u \in Thr : sreq[u] = sreq[t] => u = t
            /\ \A b \in alloc : req[b] = sreq[t] => b = saddr[t]
        BY <2>3, <4>1 DEF OnceInv, SendersOpen
      <4>3. Open(sreq[t])' /\ sreq'[t] \notin inbox'
        BY Zenon, <1>1, <4>1, <4>2 DEF Open
      <4>4. \A u \in Thr : sreq'[u] = sreq'[t] => u = t
        BY <2>2, <4>1, <4>2
      <4>5. \A b \in alloc' : req'[b] = sreq'[t] => b = saddr'[t]
        BY <2>1, <4>1, <4>2 DEF infos
      <4> QED BY <4>1, <4>2, <4>3, <4>4, <4>5
    <3> QED BY Zenon, <3>1, <3>2
  <2>4. \A t \in Thr : saddr'[t] # NULL => sreq'[t] = req'[saddr'[t]]
    BY <2>1, <2>2 DEF OnceInv, SendersOpen, infos
  <2> QED BY <1>4, <1>5, <2>1, <2>3, <2>4 DEF OnceInv, SendersOpen
<1>8. CASE ReadAndDispatch(r)
  <2>1. PICK a \in Addrs : Enlist(a, r)
    BY Zenon, <1>8 DEF ReadAndDispatch
  <2>2. UNCHANGED senders
    BY Zenon, <1>8 DEF ReadAndDispatch
  <2>3. /\ \A q \in Reqs : Open(q) => Open(q)'
        /\ \A q \in Reqs : q # r => from'[q] = from[q]
        /\ delivered[r] = << >> /\ Open(r)'
    BY Zenon, <1>1, <1>2, <1>3 DEF Open
  <2> QED BY <1>1, <1>2, <2>1, <2>2, <2>3, OnceEnlist
<1> QED BY Zenon, <1>6, <1>7, <1>8

LEMMA OnceLocal ==
    ASSUME AllOK, OwnerInv, OnceInv, IssueLocal, UNCHANGED <<inbox, delivered, senders>>
    PROVE  OnceInv'
<1>1. PICK r \in Reqs, a \in Addrs : /\ IsNextReq(r) /\ from' = [from EXCEPT ![r] = Local]
                                     /\ Enlist(a, r)
  BY Zenon DEF IssueLocal
<1>2. from[r] = Unused
  BY Zenon, <1>1 DEF IsNextReq
<1>3. /\ r \notin inbox /\ \A b \in alloc : req[b] # r
      /\ \A t \in Thr : sreq[t] # r
      /\ delivered[r] = << >>
  BY Zenon, <1>2, UnusedNowhere
<1>4. /\ \A q \in Reqs : Open(q) => Open(q)'
      /\ from'[r] = Local /\ \A q \in Reqs : q # r => from'[q] = from[q]
  BY Zenon, <1>1, <1>2, FromKept DEF AllOK
<1>5. inbox' = inbox \ {r}
  BY Zenon, <1>3
<1> QED BY <1>1, <1>3, <1>4, <1>5, OnceEnlist

LEMMA OnceComplete ==
    ASSUME AllOK, OwnerInv, OnceInv, NEW t \in Thr, NEW a \in Addrs, spc[t] = "none",
           Complete(t, a), UNCHANGED <<from, delivered, inbox>>
    PROVE  OnceInv'
<1>1. AnsweredOnce' /\ UnreadOpen' /\ \A q \in Reqs : from'[q] = Unused => delivered'[q] = << >>
  BY Zenon DEF OnceInv, AnsweredOnce, UnreadOpen, Open
<1>2. alloc' \subseteq alloc /\ req' = req
  BY Zenon DEF Complete
<1>3. InfosOpen'
  BY Zenon, <1>2 DEF OnceInv, InfosOpen, IsLocal, Open
<1>4. CASE UNCHANGED senders
  <2>1. sreq' = sreq /\ spc' = spc /\ saddr' = saddr
    BY Zenon, <1>4 DEF senders
  <2>2. SendersOpen'
    BY Zenon, <1>2, <2>1 DEF OnceInv, SendersOpen, Open
  <2> QED BY Zenon, <1>1, <1>3, <2>2 DEF OnceInv
<1>5. CASE a \in pending /\ ~IsLocal(a) /\ StartSend(t, req[a], a)
  <2>1. a \in alloc /\ \A u \in Thr : saddr[u] # a
    BY Zenon, <1>5 DEF OwnerInv, OneOwner
  <2>2. Open(req[a]) /\ req[a] \notin inbox /\ \A b \in alloc : req[b] = req[a] => b = a
    BY Zenon, <1>5, <2>1 DEF OnceInv, InfosOpen
  <2>a. Unsol \notin Reqs
    BY DEF Reqs, Unsol
  <2>b. req[a] # Unsol
    BY <2>1, <2>a DEF OnceInv, InfosOpen
  <2>3. req[a] # Unsol /\ \A u \in Thr : sreq[u] # req[a]
    BY <2>1, <2>b DEF OnceInv, SendersOpen
  <2>4. /\ sreq'[t] = req[a] /\ saddr'[t] = a /\ spc'[t] # "none"
        /\ \A u \in Thr : u # t => sreq'[u] = sreq[u] /\ spc'[u] = spc[u] /\ saddr'[u] = saddr[u]
    BY Zenon, <1>5 DEF StartSend, AllOK, SendersOK
  <2>5. ASSUME NEW u \in Thr, sreq'[u] # Unsol
        PROVE  /\ spc'[u] # "none" /\ Open(sreq[u])' /\ sreq'[u] \notin inbox'
               /\ \A w \in Thr : sreq'[w] = sreq'[u] => w = u
               /\ \A b \in alloc' : req'[b] = sreq'[u] => b = saddr'[u]
    <3>1. CASE u = t
      BY <1>2, <2>2, <2>3, <2>4, <3>1 DEF Open
    <3>2. CASE u # t
      <4>1. sreq'[u] = sreq[u] /\ spc'[u] = spc[u] /\ saddr'[u] = saddr[u] /\ sreq[u] # Unsol
        BY Zenon, <2>4, <2>5, <3>2
      <4>a. /\ spc[u] # "none" /\ Open(sreq[u]) /\ sreq[u] \notin inbox
            /\ \A w \in Thr : sreq[w] = sreq[u] => w = u
            /\ \A b \in alloc : req[b] = sreq[u] => b = saddr[u]
        BY Zenon, <4>1 DEF OnceInv, SendersOpen
      <4>2. spc'[u] # "none" /\ Open(sreq[u])' /\ sreq'[u] \notin inbox'
        BY Zenon, <4>1, <4>a DEF Open
      <4>3. \A w \in Thr : sreq'[w] = sreq'[u] => w = u
        <5>1. sreq'[t] # sreq'[u]
          BY <2>3, <2>4, <4>1
        <5>2. \A w \in Thr : w # t /\ sreq'[w] = sreq'[u] => w = u
          BY <2>4, <4>1, <4>a
        <5> QED BY <5>1, <5>2
      <4>4. \A b \in alloc' : req'[b] = sreq'[u] => b = saddr'[u]
        BY <1>2, <4>1, <4>a
      <4> QED BY Zenon, <4>2, <4>3, <4>4
    <3> QED BY Zenon, <3>1, <3>2
  <2>6. \A u \in Thr : saddr'[u] # NULL => sreq'[u] = req'[saddr'[u]]
    BY <1>2, <2>4 DEF OnceInv, SendersOpen
  <2> QED BY Zenon, <1>1, <1>3, <2>5, <2>6 DEF OnceInv, SendersOpen
<1> QED BY Zenon, <1>4, <1>5 DEF Complete

-----------------------------------------------------------------------------
(* How often a request is answered, and the requests of earlier            *)
(* connections.                                                            *)

\* A response is delivered or dropped; either way its RequestInfo is gone.
LEMMA OnceEndSend ==
    ASSUME AllOK, OwnerInv, OnceInv, NEW t \in Thr, EndSend(t), UNCHANGED <<from, inbox>>,
           DeliveredOK', \A m \in Reqs : m # sreq[t] => delivered'[m] = delivered[m],
           \A m \in Reqs : Len(delivered'[m]) <= Len(delivered[m]) + 1
    PROVE  OnceInv'
<1>1. /\ alloc' = alloc \ {saddr[t]} /\ req' = req
      /\ sreq'[t] = Unsol /\ saddr'[t] = NULL
      /\ \A u \in Thr : u # t => sreq'[u] = sreq[u] /\ spc'[u] = spc[u] /\ saddr'[u] = saddr[u]
  BY Zenon DEF EndSend, AllOK, SendersOK
<1>2. \A m \in Reqs : Open(m) /\ m # sreq[t] => Open(m)'
  BY Zenon DEF Open
<1>3. sreq[t] # Unsol => Open(sreq[t]) /\ sreq[t] \notin inbox
                         /\ (\A u \in Thr : sreq[u] = sreq[t] => u = t)
                         /\ \A a \in alloc' : req[a] # sreq[t]
  BY Zenon, <1>1 DEF OnceInv, SendersOpen
<1>a. Unsol \notin Reqs
  BY DEF Unsol, Reqs
<1>b. SendersOpen /\ InfosOpen
  BY Zenon DEF OnceInv
<1>4. \A m \in Reqs : m = sreq[t] => from[m] \in Conns /\ delivered[m] = << >>
  <2> SUFFICES ASSUME NEW m \in Reqs, m = sreq[t] PROVE from[m] \in Conns /\ delivered[m] = << >>
    OBVIOUS
  <2>1. Open(sreq[t])
    BY Zenon, <1>3, <1>a
  <2> QED BY Zenon, <2>1 DEF Open
<1>5. AnsweredOnce'
  <2> SUFFICES ASSUME NEW m \in Reqs
               PROVE  Len(delivered'[m]) <= 1 /\ (from'[m] = Local => delivered'[m] = << >>)
    BY Zenon DEF AnsweredOnce
  <2>1. CASE m = sreq[t]
    BY <1>4, <2>1 DEF Local, Conns, AllOK, DeliveredOK
  <2>2. CASE m # sreq[t]
    BY Zenon, <2>2 DEF OnceInv, AnsweredOnce
  <2> QED BY Zenon, <2>1, <2>2
<1>6. \A m \in Reqs : from'[m] = Unused => delivered'[m] = << >>
  BY <1>4 DEF OnceInv, Unused, Conns
<1>7. UnreadOpen'
  BY Zenon, <1>2, <1>3, <1>a DEF OnceInv, UnreadOpen, AllOK, ClientsOK
<1>8. InfosOpen'
  <2>0. \A a \in alloc' : req[a] \in Reqs
    BY Zenon, <1>1, <1>b DEF InfosOpen
  <2>1. \A a \in alloc' : req[a] \in Reqs /\ req[a] # sreq[t]
    BY Zenon, <1>3, <1>a, <2>0
  <2>2. \A a \in alloc' : IsLocal(a)' \/ Open(req[a])'
    BY Zenon, <1>1, <1>2, <1>b, <2>1 DEF InfosOpen, IsLocal, Open
  <2> QED BY Zenon, <1>1, <1>b, <2>1, <2>2 DEF InfosOpen
<1>9. ASSUME NEW u \in Thr, sreq'[u] # Unsol
      PROVE  /\ spc'[u] # "none" /\ Open(sreq[u])' /\ sreq'[u] \notin inbox'
             /\ \A w \in Thr : sreq'[w] = sreq'[u] => w = u
             /\ \A b \in alloc' : req'[b] = sreq'[u] => b = saddr'[u]
  <2>1. u # t /\ sreq[u] \in Reqs /\ sreq[u] # sreq[t]
    BY Zenon, <1>1, <1>3, <1>9 DEF AllOK, SendersOK
  <2>2. Open(sreq[u])'
    BY <1>1, <1>2, <1>9, <1>b, <2>1 DEF SendersOpen, Open
  <2>3. sreq'[u] = sreq[u] /\ spc'[u] = spc[u] /\ saddr'[u] = saddr[u] /\ sreq[u] # Unsol
    BY Zenon, <1>1, <1>9, <2>1
  <2>4. spc'[u] # "none" /\ sreq'[u] \notin inbox'
    BY Zenon, <1>b, <2>3 DEF SendersOpen
  <2>5. \A w \in Thr : sreq'[w] = sreq'[u] => w = u
    BY <1>1, <1>b, <2>3 DEF SendersOpen
  <2>6. \A b \in alloc' : req'[b] = sreq'[u] => b = saddr'[u]
    BY <1>1, <1>b, <2>3 DEF SendersOpen
  <2> QED BY Zenon, <2>2, <2>4, <2>5, <2>6
<1>10. \A u \in Thr : saddr'[u] # NULL => sreq'[u] = req'[saddr'[u]]
  BY Zenon, <1>1, <1>b DEF SendersOpen
<1> QED BY Zenon, <1>5, <1>6, <1>7, <1>8, <1>9, <1>10 DEF OnceInv, SendersOpen

LEMMA OnceGoesOn ==
    ASSUME AllOK, OnceInv, NEW t \in Thr, NEW p \in {"lock", "data", "close"},
           spc[t] # "none", spc' = [spc EXCEPT ![t] = p],
           UNCHANGED <<from, delivered, inbox, alloc, req, sreq, saddr>>
    PROVE  OnceInv'
<1>1. \A u \in Thr : spc'[u] = "none" => spc[u] = "none"
  BY Zenon DEF AllOK, SendersOK
<1>2. AnsweredOnce' /\ UnreadOpen' /\ \A r \in Reqs : from'[r] = Unused => delivered'[r] = << >>
  BY Zenon DEF OnceInv, AnsweredOnce, UnreadOpen, Open
<1>3. InfosOpen'
  BY Zenon DEF OnceInv, InfosOpen, IsLocal, Open
<1>4. SendersOpen'
  BY <1>1 DEF OnceInv, SendersOpen, Open
<1> QED BY Zenon, <1>2, <1>3, <1>4 DEF OnceInv

LEMMA OnceSend ==
    ASSUME AllOK, OwnerInv, OnceInv, AllOK', NEW t \in Thr, SendStep(t) PROVE OnceInv'
<1>1. DeliveredOK /\ DeliveredOK' /\ \A m \in Reqs : Len(delivered[m]) \in Nat
  BY DEF AllOK, DeliveredOK
<1>2. ASSUME EndSend(t), UNCHANGED <<clients, delivered>> PROVE OnceInv'
  <2>1. UNCHANGED <<from, inbox>> /\ delivered' = delivered
    BY Zenon, <1>2 DEF clients
  <2>2. \A m \in Reqs : Len(delivered'[m]) <= Len(delivered[m]) + 1
    BY <1>1, <2>1
  <2> QED BY Zenon, <1>1, <1>2, <2>1, <2>2, OnceEndSend
<1>3. ASSUME NEW p \in {"lock", "data", "close"}, spc[t] # "none",
             spc' = [spc EXCEPT ![t] = p],
             UNCHANGED <<alloc, req, sreq, saddr, clients, delivered>>
      PROVE  OnceInv'
  BY Zenon, <1>3, OnceGoesOn DEF clients
<1>4. CASE SendReadFd(t)
  BY Zenon, <1>2, <1>3, <1>4 DEF SendReadFd, infos
<1>5. CASE SendHeader(t)
  BY Zenon, <1>3, <1>5 DEF SendHeader, FailWrite, infos
<1>6. CASE SendData(t)
  <2>1. CASE FailWrite(t)
    BY Zenon, <1>3, <1>6, <2>1 DEF SendData, FailWrite, infos
  <2>2. CASE /\ EndSend(t) /\ Peer(sfd[t]) = "open"
             /\ delivered' = [m \in Reqs |-> IF m = sreq[t]
                                             THEN Append(delivered[m], file[sfd[t]])
                                             ELSE delivered[m]]
    <3>1. sfd[t] \in Fds
      BY Zenon, <1>6 DEF SendData, AllOK, SendersOK, FdsRead
    <3>2. file[sfd[t]] \in Conns
      BY Zenon, <2>2, <3>1 DEF Peer, AllOK, SocketOK
    <3>3. \A m \in Reqs : m # sreq[t] => delivered'[m] = delivered[m]
      BY Zenon, <2>2
    <3>4. \A m \in Reqs : Len(delivered'[m]) <= Len(delivered[m]) + 1
      <4> SUFFICES ASSUME NEW m \in Reqs PROVE Len(delivered'[m]) <= Len(delivered[m]) + 1
        OBVIOUS
      <4>1. CASE m # sreq[t]
        BY <1>1, <3>3, <4>1
      <4>2. CASE m = sreq[t]
        <5>1. delivered[m] \in Seq(Conns) /\ delivered'[m] = Append(delivered[m], file[sfd[t]])
          BY Zenon, <1>1, <2>2, <4>2 DEF DeliveredOK
        <5> QED BY <3>2, <5>1
      <4> QED BY Zenon, <4>1, <4>2
    <3>5. UNCHANGED <<from, inbox>>
      BY Zenon, <1>6 DEF SendData, clients
    <3> QED BY Zenon, <1>1, <2>2, <3>3, <3>4, <3>5, OnceEndSend
  <2> QED BY Zenon, <1>6, <2>1, <2>2 DEF SendData
<1>7. CASE SendClose(t)
  BY Zenon, <1>2, <1>7 DEF SendClose
<1> QED BY Zenon, <1>4, <1>5, <1>6, <1>7 DEF SendStep

LEMMA OnceDebug == ASSUME AllOK, OwnerInv, OnceInv, DebugStep PROVE OnceInv'
<1>1. CASE DebugRequest \/ DebugPowerOff \/ DebugRadioOn \/ DebugSelectNetwork
  <2>1. IssueLocal /\ UNCHANGED <<inbox, delivered, senders>>
    BY Zenon, <1>1 DEF DebugRequest, DebugPowerOff, DebugRadioOn, DebugSelectNetwork
  <2> QED BY Zenon, <2>1, OnceLocal
<1>2. CASE DebugUnsol
  BY Zenon, <1>2, OnceUnsol DEF DebugUnsol, CallDebug, LoopFree, Thr, clients, infos
<1>3. CASE DebugNothing
  BY Zenon, <1>3, OnceFrame DEF DebugNothing, clients, infos, senders
<1> QED BY Zenon, <1>1, <1>2, <1>3 DEF DebugStep

LEMMA OnceStep == AllOK /\ AllOK' /\ OwnerInv /\ OnceInv /\ [Next]_vars => OnceInv'
<1> SUFFICES ASSUME AllOK, AllOK', OwnerInv, OnceInv, [Next]_vars PROVE OnceInv'
  OBVIOUS
<1>1. CASE LoopStep
  <2>1. CASE EnterSelect \/ SelectReturns \/ Fired
    BY Zenon, <2>1, OnceFrame DEF EnterSelect, SelectReturns, Fired, clients, infos, senders
  <2>2. ASSUME NEW c \in Conns, Accept(c) \/ Reject(c) \/ AcceptFails(c) PROVE OnceInv'
    BY Zenon, <2>2, OnceFrame DEF Accept, Reject, AcceptFails, clients, infos, senders
  <2>3. CASE Publish \/ CallCommands \/ ReadNothing \/ CloseCommand \/ CancelPending
    BY Zenon, <2>3, OnceFrame DEF Publish, CallCommands, ReadNothing, CloseCommand,
       CancelPending,
                           clients, infos, senders
  <2>4. CASE Greet
    BY Zenon, <2>4, OnceUnsol DEF Greet, LoopFree, Thr, clients, infos
  <2>5. CASE CompleteInPlace
    <3>1. daddr \in Addrs /\ UNCHANGED <<from, delivered, inbox>> /\ spc[Loop] = "none"
      BY Zenon, <2>5 DEF CompleteInPlace, LoopFree, clients, AllOK, SocketInv
    <3> QED BY Zenon, <2>5, <3>1, OnceComplete DEF CompleteInPlace, Thr
  <2>6. CASE SendStep(Loop)
    BY Zenon, <2>6, OnceSend DEF Thr
  <2> QED BY Zenon, <1>1, <2>1, <2>2, <2>3, <2>4, <2>5, <2>6, OnceRead, OnceDebug DEF LoopStep
<1>2. ASSUME NEW v \in Vendors, VendorStep(v) PROVE OnceInv'
  <2>0. v \in Thr
    BY Zenon DEF Thr
  <2>1. CASE VendorComplete(v)
    <3>1. PICK a \in held : Complete(v, a)
      BY Zenon, <2>1 DEF VendorComplete
    <3>2. a \in Addrs /\ UNCHANGED <<from, delivered, inbox>> /\ spc[v] = "none"
      BY Zenon, <2>1 DEF AllOK, InfosOK, VendorComplete, clients
    <3> QED BY Zenon, <2>0, <3>1, <3>2, OnceComplete
  <2>2. CASE VendorUnsol(v)
    BY Zenon, <2>0, <2>2, OnceUnsol DEF VendorUnsol, infos, clients
  <2> QED BY Zenon, <1>2, <2>0, <2>1, <2>2, OnceSend DEF VendorStep
<1>3. CASE ClientStep
  <2>1. ASSUME NEW c \in Conns, Connect(c) \/ ClientStalls(c) \/ ClientReads(c) \/ ClientCloses(c)
        PROVE  OnceInv'
    BY Zenon, <2>1, OnceFrame DEF Connect, ClientStalls, ClientReads, ClientCloses, infos,
       senders
  <2>2. CASE DebugConnects
    BY Zenon, <2>2, OnceFrame DEF DebugConnects, clients, infos, senders
  <2> QED BY Zenon, <1>3, <2>1, <2>2, OnceSends DEF ClientStep
<1>4. CASE Restart
  <2>1. /\ \A t \in Thr : sreq'[t] = Unsol /\ saddr'[t] = NULL
        /\ alloc' = {} /\ inbox' = {} /\ UNCHANGED <<from, delivered>>
    BY Zenon, <1>4 DEF Restart
  <2>2. AnsweredOnce' /\ \A r \in Reqs : from'[r] = Unused => delivered'[r] = << >>
    BY Zenon, <2>1 DEF OnceInv, AnsweredOnce
  <2> QED BY Zenon, <2>1, <2>2 DEF OnceInv, UnreadOpen, InfosOpen, SendersOpen
<1>5. CASE UNCHANGED vars
  BY Zenon, <1>5, OnceFrame DEF vars, infos, senders, clients
<1> QED BY Zenon, <1>1, <1>2, <1>3, <1>4, <1>5 DEF Next

LEMMA OnceAlways == Spec => []OnceInv
<1>1. Init => OnceInv
  <2> SUFFICES ASSUME Init PROVE OnceInv
    OBVIOUS
  <2>1. /\ \A t \in Thr : sreq[t] = Unsol /\ saddr[t] = NULL
        /\ alloc = {} /\ inbox = {} /\ \A r \in Reqs : delivered[r] = << >>
    BY Zenon DEF Init
  <2>2. AnsweredOnce
    <3>1. Len(<< >>) <= 1
      OBVIOUS
    <3>2. \A r \in Reqs : Len(delivered[r]) <= 1
      BY Zenon, <2>1, <3>1
    <3> QED BY Zenon, <2>1, <3>2 DEF AnsweredOnce
  <2> QED BY Zenon, <2>1, <2>2 DEF OnceInv, UnreadOpen, InfosOpen, SendersOpen
<1> QED BY <1>1, OnceStep, AllOKAlways, OwnerAlways, PTL DEF Spec

\* A request is answered at most once, and a request of the debug socket never
\* (RIL_onRequestComplete, whatever thread calls it and how often).
THEOREM AnsweredAtMostOnce == Spec => []AnsweredOnce
<1>1. OnceInv => AnsweredOnce
  BY Zenon DEF OnceInv
<1> QED BY <1>1, OnceAlways, PTL

-----------------------------------------------------------------------------
(* The requests of earlier connections.                                    *)


\* The parts of OldInv that say nothing of where the loop is.
Accepted ==
    /\ \A f \in Fds : file[f] # NoConn => file[f] \notin backlog /\ client[file[f]] # "new"
    /\ \A c \in backlog : client[c] # "new"
    /\ \A a \in pending : IsLocal(a) \/ /\ from[req[a]] \notin backlog
                                        /\ client[from[req[a]]] # "new"

\* Requests leave the list, descriptors are closed: nothing that OldInv forbids.
LEMMA OldShrinks ==
    ASSUME OldInv, AllOK, pending' \subseteq pending,
           \A f \in Fds : file'[f] \in {file[f], NoConn},
           UNCHANGED <<req, cancelled, from, client, backlog, armed, watched, cmdFd>>,
           UNCHANGED <<lpc, fire>>
    PROVE  OldInv'
<1>1. \A a : IsLocal(a)' <=> IsLocal(a)
  BY Zenon DEF IsLocal
<1>2. Listening' <=> Listening
  BY Zenon DEF Listening
<1>3. watched \/ lpc = "accepted" => cmdFd \in Fds
  BY Zenon DEF AllOK, SocketInv
<1>4. OldCancelled'
  BY Zenon, <1>1, <1>2, <1>3 DEF OldInv, OldCancelled
<1>5. Accepted'
  BY Zenon, <1>1 DEF OldInv, Accepted
<1>6. lpc' = "accepted" => \A a \in pending' : IsLocal(a)' \/ from'[req'[a]] # file'[cmdFd']
  BY Zenon, <1>1, <1>3 DEF OldInv, IsLocal, Local, NoConn
<1> QED BY Zenon, <1>4, <1>5, <1>6 DEF OldInv, Accepted

LEMMA OldSend == ASSUME AllOK, OldInv, NEW t \in Thr, SendStep(t) PROVE OldInv'
<1>1. /\ \A f \in Fds : file'[f] \in {file[f], NoConn}
      /\ UNCHANGED <<pending, req, cancelled, from, client, backlog, armed, watched, cmdFd, lpc, fire>>
  <2>1. CASE SendReadFd(t)
    BY Zenon, <2>1 DEF SendReadFd, EndSend, infos, clients, socket, loop
  <2>2. CASE SendHeader(t)
    BY Zenon, <2>2 DEF SendHeader, FailWrite, infos, clients, socket, loop
  <2>3. CASE SendData(t)
    BY Zenon, <2>3 DEF SendData, FailWrite, EndSend, infos, clients, socket, loop
  <2>4. CASE SendClose(t)
    BY Zenon, <2>4 DEF SendClose, EndSend, clients, loop, AllOK, SocketOK
  <2> QED BY Zenon, <2>1, <2>2, <2>3, <2>4 DEF SendStep
<1> QED BY Zenon, <1>1, OldShrinks

LEMMA OldComplete ==
    ASSUME AllOK, OldInv, NEW t \in Thr, NEW a \in Addrs, Complete(t, a),
           UNCHANGED <<socket, clients, lpc, fire>>
    PROVE  OldInv'
<1>1. pending' \subseteq pending /\ UNCHANGED <<req, cancelled>>
  BY Zenon DEF Complete
<1> QED BY Zenon, <1>1, OldShrinks DEF socket, clients

\* The loop moves on within one connection, or within none.
LEMMA OldMoves ==
    ASSUME AllOK, OldInv, UNCHANGED <<pending, req, cancelled, from, client, backlog>>,
           UNCHANGED <<file, cmdFd, watched>>, lpc' # "accepted", Listening' => Listening
    PROVE  OldInv'
<1>1. \A a : IsLocal(a)' <=> IsLocal(a)
  BY Zenon DEF IsLocal
<1>2. OldCancelled'
  BY Zenon, <1>1 DEF OldInv, OldCancelled
<1>3. Accepted'
  BY Zenon, <1>1 DEF OldInv, Accepted
<1> QED BY Zenon, <1>2, <1>3 DEF OldInv, Accepted

\* A request gets a RequestInfo: one of the connection that is served, or a local one.
LEMMA OldEnlist ==
    ASSUME AllOK, OwnerInv, OldInv, NEW a \in Addrs, NEW r \in Reqs, Enlist(a, r),
           \A b \in pending : from'[req[b]] = from[req[b]],
           \A f \in Fds : file'[f] \in {file[f], NoConn},
           UNCHANGED <<client, backlog, armed, watched, cmdFd>>,
           lpc \notin {"accepted", "cancel"}, lpc' \notin {"accepted", "cancel"},
           "listen" \in fire' => "listen" \in fire,
           \/ from'[r] = Local
           \/ /\ watched /\ file[cmdFd] # NoConn /\ file' = file /\ from'[r] = file[cmdFd]
    PROVE  OldInv'
<1>1. /\ pending' = pending \cup {a} /\ req'[a] = r /\ cancelled'[a] = FALSE
      /\ \A b \in pending : b # a /\ req'[b] = req[b] /\ cancelled'[b] = cancelled[b]
  BY ZenonT(30) DEF Enlist, AllOK, InfosOK, OwnerInv, OneOwner
<1>2. \A b \in pending : IsLocal(b)' <=> IsLocal(b)
  BY Zenon, <1>1 DEF IsLocal
<1>3. Listening' => Listening
  BY Zenon DEF Listening
<1>4. watched => ~Listening' /\ cmdFd \in Fds
  BY Zenon, <1>3 DEF Listening, AllOK, SocketInv
<1>a. \A b \in pending : from'[req'[b]] = from[req[b]]
  BY Zenon, <1>1
<1>b. ASSUME Listening' PROVE \A b \in pending : IsLocal(b)' \/ cancelled'[b]
  BY Zenon, <1>1, <1>2, <1>3, <1>b DEF OldInv, OldCancelled
<1>c. ASSUME watched', file'[cmdFd'] # NoConn
      PROVE  \A b \in pending :
                IsLocal(b)' \/ (cancelled'[b] <=> from'[req'[b]] # file'[cmdFd'])
  <2>1. watched /\ cmdFd' = cmdFd /\ file'[cmdFd] = file[cmdFd] /\ file[cmdFd] # NoConn
    BY Zenon, <1>4, <1>c
  <2>2. \A b \in pending : IsLocal(b) \/ (cancelled[b] <=> from[req[b]] # file[cmdFd])
    BY Zenon, <2>1 DEF OldInv, OldCancelled
  <2> QED BY <1>1, <1>2, <1>a, <2>1, <2>2
<1>d. ASSUME NEW b \in pending
      PROVE  IsLocal(b)' \/ (from'[req'[b]] \notin backlog' /\ client'[from'[req'[b]]] # "new")
  <2>1. IsLocal(b) \/ (from[req[b]] \notin backlog /\ client[from[req[b]]] # "new")
    BY Zenon DEF OldInv
  <2>2. CASE IsLocal(b)
    BY Zenon, <1>2, <2>2
  <2>3. CASE from[req[b]] \notin backlog /\ client[from[req[b]]] # "new"
    <3>1. backlog' = backlog /\ client' = client /\ from'[req'[b]] = from[req[b]]
      BY Zenon, <1>a
    <3> QED BY Zenon, <2>3, <3>1
  <2> QED BY Zenon, <2>1, <2>2, <2>3
<1>e. /\ \A f \in Fds : file'[f] # NoConn =>
                         file'[f] \notin backlog' /\ client'[file'[f]] # "new"
      /\ \A c \in backlog' : client'[c] # "new"
  BY Zenon DEF OldInv
<1>5. CASE from'[r] = Local
  <2>1. IsLocal(a)'
    BY Zenon, <1>1, <1>5 DEF IsLocal
  <2>2. OldCancelled'
    BY Zenon, <1>1, <1>b, <1>c, <2>1 DEF OldCancelled
  <2> QED BY Zenon, <1>1, <1>d, <1>e, <2>1, <2>2 DEF OldInv
<1>6. CASE watched /\ file[cmdFd] # NoConn /\ file' = file /\ from'[r] = file[cmdFd]
  <2>1. OldCancelled'
    BY Zenon, <1>1, <1>4, <1>6, <1>c DEF OldCancelled
  <2>2. from'[r] \notin backlog /\ client[from'[r]] # "new"
    BY Zenon, <1>4, <1>6 DEF OldInv
  <2> QED BY Zenon, <1>1, <1>d, <1>e, <2>1, <2>2 DEF OldInv
<1> QED BY Zenon, <1>5, <1>6

LEMMA OldLocal ==
    ASSUME AllOK, OwnerInv, OnceInv, OldInv, IssueLocal,
           UNCHANGED <<client, backlog, armed, watched, cmdFd>>,
           \A f \in Fds : file'[f] \in {file[f], NoConn},
           lpc \notin {"accepted", "cancel"}, lpc' \notin {"accepted", "cancel"},
           "listen" \in fire' => "listen" \in fire
    PROVE  OldInv'
<1>1. PICK r \in Reqs, a \in Addrs : /\ IsNextReq(r) /\ from' = [from EXCEPT ![r] = Local]
                                     /\ Enlist(a, r)
  BY Zenon DEF IssueLocal
<1>2. from[r] = Unused /\ from'[r] = Local /\ \A q \in Reqs : q # r => from'[q] = from[q]
  BY Zenon, <1>1 DEF IsNextReq, AllOK, ClientsOK
<1>3. \A b \in pending : req[b] \in Reqs /\ req[b] # r
  BY Zenon, <1>2, UnusedNowhere DEF OwnerInv, OneOwner, OnceInv, InfosOpen
<1> QED BY Zenon, <1>1, <1>2, <1>3, OldEnlist

LEMMA OldRead ==
    ASSUME AllOK, OwnerInv, OldInv, NEW r \in Reqs,
           ReadShort(r) \/ ReadUnsupported(r) \/ ReadAndDispatch(r)
    PROVE  OldInv'
<1>1. CASE ReadShort(r) \/ ReadUnsupported(r)
  BY Zenon, <1>1, OldShrinks DEF ReadShort, ReadUnsupported, socket, infos, loop
<1>2. CASE ReadAndDispatch(r)
  <2>1. PICK a \in Addrs : Enlist(a, r)
    BY Zenon, <1>2 DEF ReadAndDispatch
  <2>2. /\ lpc = "read" /\ file[cmdFd] # NoConn /\ from[r] = file[cmdFd] /\ watched
        /\ UNCHANGED <<socket, client, backlog, from, lpc, fire>>
    BY Zenon, <1>2 DEF ReadAndDispatch, ReadRecord, Reading, IsFirst, AllOK, SocketInv,
       ServingPcs
  <2> QED BY Zenon, <2>1, <2>2, OldEnlist DEF socket
<1> QED BY Zenon, <1>1, <1>2

LEMMA OldDebug == ASSUME AllOK, OwnerInv, OnceInv, OldInv, DebugStep PROVE OldInv'
<1>1. CASE DebugRequest \/ DebugPowerOff \/ DebugRadioOn \/ DebugSelectNetwork
  <2>1. /\ IssueLocal /\ UNCHANGED <<client, backlog, armed, watched, cmdFd>>
        /\ lpc \in {"fire", "sleep"} /\ lpc' \in {"fire", "sleep"}
        /\ "listen" \in fire' => "listen" \in fire
    BY Zenon, <1>1 DEF DebugRequest, DebugPowerOff, DebugRadioOn, DebugSelectNetwork,
       CallDebug, socket
  <2>2. \A f \in Fds : file'[f] \in {file[f], NoConn}
    BY Zenon, <1>1 DEF DebugRequest, DebugPowerOff, DebugRadioOn, DebugSelectNetwork, socket
  <2> QED BY Zenon, <2>1, <2>2, OldLocal
<1>2. CASE DebugUnsol \/ DebugNothing
  <2>1. /\ UNCHANGED <<pending, req, cancelled, from, client, backlog>>
        /\ UNCHANGED <<file, cmdFd, watched>> /\ lpc' = "fire"
    BY Zenon, <1>2 DEF DebugUnsol, DebugNothing, CallDebug, socket, clients, infos
  <2>2. Listening' => Listening
    BY Zenon, <1>2 DEF DebugUnsol, DebugNothing, CallDebug, Listening, socket
  <2> QED BY Zenon, <2>1, <2>2, OldMoves
<1> QED BY Zenon, <1>1, <1>2 DEF DebugStep

LEMMA OldListen ==
    ASSUME AllOK, OldInv, NEW c \in Conns, Accept(c) \/ Reject(c) \/ AcceptFails(c)
    PROVE  OldInv'
<1>0. \A a : IsLocal(a)' <=> IsLocal(a)
  BY Zenon DEF IsLocal, Accept, Reject, AcceptFails, infos, clients
<1>1. /\ Listening /\ ~watched /\ ~watched' /\ c \in backlog
      /\ UNCHANGED <<pending, req, from, client>> /\ backlog' \subseteq backlog
  <2>1. "listen" \in fire /\ lpc = "fire" /\ ~watched
    BY Zenon DEF Accept, Reject, AcceptFails, CallListen, AllOK, SocketInv
  <2>2. watched' = watched /\ c \in backlog /\ client' = client /\ backlog' \subseteq backlog
    BY Zenon DEF Accept, Reject, AcceptFails, CallListen, clients
  <2>3. UNCHANGED <<pending, req, from>>
    BY Zenon DEF Accept, Reject, AcceptFails, infos, clients
  <2> QED BY Zenon, <2>1, <2>2, <2>3 DEF Listening
<1>2. \A a \in pending : IsLocal(a) \/ cancelled[a]
  BY Zenon, <1>1 DEF OldInv, OldCancelled
<1>3. CASE Accept(c)
  <2>1. PICK f \in Fds : file' = [file EXCEPT ![f] = c] /\ cmdFd' = f
    BY Zenon, <1>3 DEF Accept
  <2>2. OldCancelled' /\ c \notin backlog'
    BY Zenon, <1>0, <1>1, <1>2, <1>3 DEF Accept, OldCancelled, infos
  <2>3. file'[f] = c /\ \A g \in Fds : g # f => file'[g] = file[g]
    BY Zenon, <2>1 DEF AllOK, SocketOK
  <2>4. Accepted'
    BY Zenon, <1>0, <1>1, <2>2, <2>3 DEF OldInv, Accepted
  <2>a. file'[cmdFd'] = c /\ UNCHANGED <<pending, req, from>> /\ c \in backlog
    BY Zenon, <1>1, <2>1, <2>3
  <2>b. \A a \in pending : IsLocal(a) \/ from[req[a]] # c
    BY Zenon, <2>a DEF OldInv
  <2>5. \A a \in pending' : IsLocal(a)' \/ from'[req'[a]] # file'[cmdFd']
    BY Zenon, <1>0, <2>a, <2>b
  <2> QED BY Zenon, <2>2, <2>4, <2>5 DEF OldInv, Accepted
<1>4. CASE Reject(c) \/ AcceptFails(c)
  <2>1. UNCHANGED <<file, lpc>> /\ lpc # "accepted" /\ \A a \in pending : cancelled[a] => cancelled'[a]
    BY Zenon, <1>4 DEF Reject, AcceptFails, CallListen, CancelAll, AllOK, InfosOK, infos
  <2>2. OldCancelled'
    BY Zenon, <1>0, <1>1, <1>2, <2>1 DEF OldCancelled
  <2>3. Accepted'
    BY Zenon, <1>0, <1>1, <2>1 DEF OldInv, Accepted
  <2> QED BY Zenon, <2>1, <2>2, <2>3 DEF OldInv, Accepted
<1> QED BY Zenon, <1>3, <1>4

LEMMA OldPublish == ASSUME AllOK, OldInv, Publish PROVE OldInv'
<1>1. /\ \A a : IsLocal(a)' <=> IsLocal(a)
      /\ UNCHANGED <<pending, req, cancelled, from, client, backlog, file, cmdFd>>
  BY Zenon DEF IsLocal, Publish, infos, clients
<1>2. Listening /\ ~Listening' /\ lpc' = "greet" /\ lpc = "accepted"
  BY Zenon DEF Publish, Listening, AllOK, SocketInv
<1>3. OldCancelled'
  BY Zenon, <1>1, <1>2 DEF OldInv, OldCancelled
<1>4. Accepted'
  BY Zenon, <1>1 DEF OldInv, Accepted
<1> QED BY Zenon, <1>2, <1>3, <1>4 DEF OldInv, Accepted

LEMMA OldClose == ASSUME AllOK, OldInv, CloseCommand \/ CancelPending PROVE OldInv'
<1>1. /\ \A a : IsLocal(a)' <=> IsLocal(a)
      /\ UNCHANGED <<pending, req, from, client, backlog>>
  BY Zenon DEF IsLocal, CloseCommand, CancelPending, infos, clients
<1>2. CASE CloseCommand
  <2>1. OldCancelled'
    BY Zenon, <1>2 DEF CloseCommand, OldCancelled, Listening
  <2>2. \A f \in Fds : file'[f] # NoConn => file'[f] = file[f]
    BY Zenon, <1>2 DEF CloseCommand, AllOK, SocketOK
  <2>3. Accepted'
    BY Zenon, <1>1, <2>2 DEF OldInv, Accepted
  <2> QED BY Zenon, <1>2, <2>1, <2>3 DEF OldInv, Accepted, CloseCommand
<1>3. CASE CancelPending
  <2>1. \A a \in pending : cancelled'[a]
    BY Zenon, <1>3 DEF CancelPending, CancelAll, AllOK, InfosOK
  <2>2. ~watched' /\ lpc' = "fire" /\ file' = file
    BY Zenon, <1>3 DEF CancelPending, AllOK, SocketInv, socket
  <2>3. OldCancelled'
    BY Zenon, <1>1, <2>1, <2>2 DEF OldCancelled
  <2>4. Accepted'
    BY Zenon, <1>1, <2>2 DEF OldInv, Accepted
  <2> QED BY Zenon, <2>2, <2>3, <2>4 DEF OldInv, Accepted
<1> QED BY Zenon, <1>2, <1>3

LEMMA OldClient ==
    ASSUME AllOK, OwnerInv, OnceInv, OldInv, ClientStep PROVE OldInv'
<1>1. \A a \in pending : req[a] \in Reqs /\ (IsLocal(a) \/ from[req[a]] \in Conns)
  BY Zenon DEF OwnerInv, OneOwner, OnceInv, InfosOpen, Open
<1>2. \A f \in Fds : file[f] # NoConn => file[f] \in Conns
  BY Zenon DEF AllOK, SocketOK
<1>3. UNCHANGED <<socket, infos, loop>>
  BY Zenon DEF ClientStep, Connect, ClientSends, ClientStalls, ClientReads, ClientCloses,
     DebugConnects
<1>4. Listening' <=> Listening
  BY Zenon, <1>3 DEF Listening, socket, loop
<1>5. ASSUME NEW c \in Conns, Connect(c) PROVE OldInv'
  <2>1. /\ client[c] = "new" /\ backlog' = backlog \cup {c} /\ client'[c] = "open"
        /\ (\A d \in Conns : d # c => client'[d] = client[d]) /\ UNCHANGED from
    BY Zenon, <1>5 DEF Connect, AllOK, ClientsOK
  <2>2. \A a : IsLocal(a)' <=> IsLocal(a)
    BY Zenon, <1>3, <2>1 DEF IsLocal, infos
  <2>3. OldCancelled'
    BY Zenon, <1>3, <1>4, <2>1, <2>2 DEF OldInv, OldCancelled, socket, infos
  <2>4. Accepted'
    BY <1>1, <1>2, <1>3, <2>1, <2>2 DEF OldInv, Accepted, socket, infos, AllOK, ClientsOK
  <2> QED BY Zenon, <1>3, <2>1, <2>2, <2>3, <2>4 DEF OldInv, Accepted, socket, infos, loop
<1>6. ASSUME NEW c \in Conns, ClientSends(c) PROVE OldInv'
  <2>1. PICK r \in Reqs : IsNextReq(r) /\ from' = [from EXCEPT ![r] = c]
    BY Zenon, <1>6 DEF ClientSends
  <2>2. from[r] = Unused /\ (\A q \in Reqs : q # r => from'[q] = from[q])
        /\ UNCHANGED <<client, backlog>>
    BY Zenon, <1>6, <2>1 DEF ClientSends, IsNextReq, AllOK, ClientsOK
  <2>3. \A a \in pending : req[a] # r
    BY Zenon, <2>2, UnusedNowhere DEF OwnerInv, OneOwner
  <2>4. \A a \in pending : from'[req'[a]] = from[req[a]] /\ (IsLocal(a)' <=> IsLocal(a))
    BY Zenon, <1>1, <1>3, <2>2, <2>3 DEF IsLocal, infos
  <2>5. OldCancelled'
    BY Zenon, <1>3, <1>4, <2>4 DEF OldInv, OldCancelled, socket, infos
  <2>6. Accepted'
    BY Zenon, <1>3, <2>2, <2>4 DEF OldInv, Accepted, socket, infos
  <2> QED BY Zenon, <1>3, <2>4, <2>5, <2>6 DEF OldInv, Accepted, socket, infos, loop
<1>7. ASSUME NEW c \in Conns, ClientStalls(c) \/ ClientReads(c) \/ ClientCloses(c) PROVE OldInv'
  <2>1. /\ \A d \in Conns : client'[d] = "new" => client[d] = "new"
        /\ UNCHANGED <<from, backlog>>
    BY Zenon, <1>7 DEF ClientStalls, ClientReads, ClientCloses, AllOK, ClientsOK
  <2>2. \A a : IsLocal(a)' <=> IsLocal(a)
    BY Zenon, <1>3, <2>1 DEF IsLocal, infos
  <2>3. OldCancelled'
    BY Zenon, <1>3, <1>4, <2>1, <2>2 DEF OldInv, OldCancelled, socket, infos
  <2>4. Accepted'
    BY Zenon, <1>1, <1>2, <1>3, <2>1, <2>2 DEF OldInv, Accepted, socket, infos, AllOK, ClientsOK
  <2> QED BY Zenon, <1>3, <2>1, <2>2, <2>3, <2>4 DEF OldInv, Accepted, socket, infos, loop
<1>8. CASE DebugConnects
  BY Zenon, <1>3, <1>8, OldShrinks DEF DebugConnects, socket, infos, clients, loop
<1> QED BY Zenon, <1>5, <1>6, <1>7, <1>8 DEF ClientStep

LEMMA OldStep ==
    AllOK /\ OwnerInv /\ OnceInv /\ OldInv /\ [Next]_vars => OldInv'
<1> SUFFICES ASSUME AllOK, OwnerInv, OnceInv, OldInv, [Next]_vars PROVE OldInv'
  OBVIOUS
<1>1. CASE LoopStep
  <2>1. CASE EnterSelect \/ SelectReturns \/ Fired \/ Greet \/ CallCommands \/ ReadNothing
    <3>1. /\ UNCHANGED <<pending, req, cancelled, from, client, backlog, file, cmdFd, watched>>
          /\ lpc' # "accepted"
      BY Zenon, <2>1 DEF EnterSelect, SelectReturns, Fired, Greet, CallCommands, ReadNothing,
                  socket, clients, infos
    <3>2. Listening' => Listening
      <4>1. CASE SelectReturns
        BY Zenon, <4>1 DEF SelectReturns, ReadyEvents, Listening
      <4>2. CASE EnterSelect \/ Fired \/ Greet \/ CallCommands \/ ReadNothing
        BY Zenon, <4>2 DEF EnterSelect, Fired, Greet, CallCommands, ReadNothing, Reading,
           Listening, socket
      <4> QED BY Zenon, <2>1, <4>1, <4>2
    <3> QED BY Zenon, <3>1, <3>2, OldMoves
  <2>2. CASE CompleteInPlace
    <3>1. daddr \in Addrs /\ Loop \in Thr
      BY Zenon, <2>2 DEF CompleteInPlace, AllOK, SocketInv, Thr
    <3> QED BY Zenon, <2>2, <3>1, OldComplete DEF CompleteInPlace
  <2>3. CASE SendStep(Loop)
    BY Zenon, <2>3, OldSend DEF Thr
  <2> QED BY Zenon, <1>1, <2>1, <2>2, <2>3, OldListen, OldPublish, OldRead, OldClose, OldDebug
          DEF LoopStep
<1>2. ASSUME NEW v \in Vendors, VendorStep(v) PROVE OldInv'
  <2>0. v \in Thr
    BY Zenon DEF Thr
  <2>1. CASE VendorComplete(v)
    <3>1. PICK a \in held : Complete(v, a)
      BY Zenon, <2>1 DEF VendorComplete
    <3>2. a \in Addrs /\ UNCHANGED <<socket, clients, lpc, fire>>
      BY Zenon, <2>1 DEF AllOK, InfosOK, VendorComplete, loop
    <3> QED BY Zenon, <2>0, <3>1, <3>2, OldComplete
  <2>2. CASE VendorUnsol(v)
    BY Zenon, <2>2, OldShrinks DEF VendorUnsol, socket, clients, infos, loop
  <2> QED BY Zenon, <1>2, <2>0, <2>1, <2>2, OldSend DEF VendorStep
<1>3. CASE ClientStep
  BY Zenon, <1>3, OldClient
<1>4. CASE Restart
  <2>1. /\ pending' = {} /\ backlog' = {} /\ \A f \in Fds : file'[f] = NoConn
        /\ ~watched' /\ lpc' = "select"
    BY Zenon, <1>4 DEF Restart
  <2> QED BY Zenon, <2>1 DEF OldInv, OldCancelled
<1>5. CASE UNCHANGED vars
  BY Zenon, <1>5, OldShrinks DEF vars, socket, clients, infos, loop
<1> QED BY Zenon, <1>1, <1>2, <1>3, <1>4, <1>5 DEF Next

\* However connections end and begin while threads complete requests, what is on the
\* list is cancelled exactly when it belongs to an earlier connection
\* (onCommandsSocketClosed, listenCallback).
THEOREM OldRequestsCancelled == Spec => []OldCancelled
<1>1. Init => OldInv
  BY DEF Init, OldInv, OldCancelled
<1>2. OldInv => OldCancelled
  BY Zenon DEF OldInv
<1> QED BY <1>1, <1>2, OldStep, AllOKAlways, OwnerAlways, OnceAlways, PTL DEF Spec
=============================================================================
