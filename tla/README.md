# Verification of the SEMC msm7x30 common device code

TLA+ models of the programs in this repository, the TLC runs that check them on
small instances, and TLAPS proofs of their main properties for every value of
the constants. `PROJECT.json` has the line-by-line correspondence ("map"), the
runs, the mutants, the hazards and the findings.

## 1. Inventory

Almost all the code that can go wrong in ways a test would not show is in
`libril`, the radio interface layer daemon.

| Part | State | Operations | Shared with | What is hard |
|---|---|---|---|---|
| Event library (`libril/ril_event.cpp`) | watch table, `readFds`, `nfds`, sorted timer list, pending list | add, delete, timer add, one turn of the loop | every thread adds; one thread runs the loop and every callback | the loop reads `readFds`, the timer list and `nfds` with no lock; a wake pipe makes up for it |
| Request path (`libril/ril.cpp`) | command connection, pending-request list, the RequestInfo structures | accept, read and dispatch, complete, cancel, write, debug options | event loop, vendor threads, the phone process, the debug tool | completion races with the end of the connection; descriptor numbers and addresses are reused; writes block |
| Unsolicited messages (`libril/ril.cpp`) | wake lock, `s_last_wake_timeout_info`, `s_lastNITZTimeData` | `RIL_onUnsolicitedResponse`, timer callbacks, greeting of a client | vendor threads and the event loop, with no mutex at all | a pointer is read, freed by the loop, reused, then written; a copy is stored after the client it is for was greeted |
| Dispatch functions (`libril/ril.cpp` 570-2366) | none | one per shape of request: read a parcel, forward or give up | request path | truncated parcels, counts from the wire |
| Response functions (`libril/ril.cpp` 2468-4111) | none | one per shape of response: check a length, write a parcel | request and unsolicited paths | versions of structures told apart by their length |
| Radio state (`libril/ril.cpp` 5031-5146) | three cached values | decode a radio state, notify what changed | vendor threads, event loop | unsynchronised caches |
| Startup (`libril/ril.cpp` 4573-4875) | `s_started`, `s_registerCalled`, sockets | start the loop, register, listen | registering thread, loop | order of the start |
| SIM access sockets (`RilSocket`, `RilSapSocket`, `rilSocketQueue.h`) | socket list, dispatch queue, queue of pending responses | accept, push, process, complete, disconnect | event loop, one processing thread per connection, vendor threads | one more thread for each connection; completion frees the first entry that looks alike |
| Reference counts (`libshims/RefBase.cpp`) | strong and weak counts, flags | inc, dec, attempt, extend | any threads | promotion races with the last release |
| Shared buffers and vectors (`libshims`) | reference-counted arrays | copy on write, grow, shrink, sort, search | owners of the same buffer | capacity and sharing at the same time |
| pmem heaps (`libshims/MemoryHeapPmem.cpp`) | mapped sub-heaps | map, unmap, revoke | clients of a heap | revocation while in use |
| Lights (`liblights/lights.c`) | state of the shared LED | set backlight, buttons, battery, notification | callers under one mutex | two sources, one LED |
| keycheck (`keycheck/keycheck.c`) | table of input devices | poll, add and remove devices | the kernel | devices come and go |
| init (`init/`) | files, one child process | choose Android or recovery | keycheck | a child with a time limit |
| The rest: `libinit`, Java settings, headers, makefiles, scripts, resources | | | | stateless or data for other programs |

What makes the parts correct:

* event library: no descriptor or timer a thread adds is missed by a loop that
  is about to sleep; timers run in order; an event runs once per occasion;
* request path: each RequestInfo has one owner and is freed once; a request has
  at most one answer, on its own connection; a connection that ends never leaves
  the daemon deaf;
* unsolicited messages: the wake lock is given back, and not before its time;
  network time reaches the client once;
* SIM access: every request is handed to the vendor library once and its
  structures freed once; responses do not mix on the socket;
* reference counts: an object is destroyed once, after the last strong release,
  and never while a promotion to strong has succeeded;
* vectors: a copy never sees the changes of another, and a buffer is freed with
  its last owner; a sorted vector stays in order; the sort is stable;
* pmem heaps: every area is given back to the driver once;
* lights: the LED shows the notification, or else the battery, and nothing mixed;
* init: the recovery is started when it was asked for and only then.

## 2. Structure

| Module | Models |
|---|---|
| `RilEvent` | the event library, the loop under everything else |
| `RilRequest` | the command connection and its requests |
| `RilUnsol` | unsolicited messages, wake lock, NITZ copy |
| `RilParcel`, `RilMarshal`, `RilDispatch` | dispatch and response functions |
| `RilSap` | the SIM access socket and its queues |
| `RefHolders`, `RefBase` | what reference counts promise, and how two counters keep it |
| `VectorImpl`, `SortedVector` | shared storage; ordered contents |
| `PmemHeap` | pmem heaps, on top of what `RefHolders` promises |
| `Lights` | the lights module |
| `BootSelect` | init, keycheck and the two recovery scripts |
| `*Proofs` | theorems (section 6) |
| `MC*` | instances for TLC; `MCParts` puts seven modules side by side |

`RilRequest`, `RilUnsol` and `RilSap` take from `RilEvent` that one thread runs
all callbacks, one at a time, that a level-triggered input is served again while
it lasts, and that timers are served in the end. `PmemHeap` takes from
`RefHolders` that an area dies with its last holder and that a promotion succeeds
only while there is one; `RefBase` is shown to implement `RefHolders`.

## 3. Modules

### RilEvent (`ril_event.cpp`, `eventLoop` and the wake-up helpers of `ril.cpp`)

State: `watch_table`, `index`, `fd`, `readFds`, `nfds`, `timer_list`, `timeout`,
`pending_list` as in the code; `rfds`, `selNfds`, `tv` are the loop's private
copies; `wakeByte` is the wake pipe; `tpc` is where a thread is in
`ril_event_add`/`triggerEvLoop`. What runs under `listMutex` is one action,
except that `nfds` is updated in a second step (the loop passes it to `select`
without the lock). Each unlocked read of the loop (`memcpy` of the set,
`calcNextTimeout`, the argument `nfds`) is a step of its own. A callback adds and
deletes events as the callbacks of `ril.cpp` do. `select` is external: it
returns ready descriptors below `selNfds`, times out, is interrupted or fails.
A failing `select` ends the daemon, and init starts it again (`Restart`).

### RilRequest (the command connection and its requests)

State: the socket (`fdCommand`, the kernel's descriptor table `file`, whether
each event is watched), clients, the live `RequestInfo` structures by address
(`alloc`, `req`, `cancelled`, `pending`), the tokens the vendor library holds,
and where each thread is in `sendResponse`. A request is a number; what it will
turn out to be is its kind: too short, unsupported, invalid for its dispatch
function, completed in place once or twice (`dispatchVoiceRadioTech`), forwarded,
or answered with more than 8 kB. `sendResponseRaw` is three steps (read
`fdCommand`, take the mutex and write the length, write the data) plus the close
after a failed write; addresses and descriptor numbers are reused as malloc and
the kernel may.

* A write to a closed client is taken to return an error: nothing in `src` says
  what SIGPIPE does to the daemon.
* EINTR in the middle of reading is left out: select reports the input again.
* `"inplace"` also stands for a vendor library that completes within `onRequest`.
* `debugCallback` waits in `recv` for its arguments, on the event loop: meanwhile
  only the debug tool and the other threads move.
* `SIM_COUNT` is 1, as this device is built: one command socket.

### RilUnsol (unsolicited messages)

State: the wake lock (a name, it does not count), the `UserCallbackInfo`
structures by address, `s_last_wake_timeout_info`, `s_lastNITZTimeData`, and
where each thread is in `RIL_onUnsolicitedResponse`. Every access to the two
unsynchronised globals is a step. Reading freed or unwritten bytes gives `Torn`;
writing `userParam` through a stale pointer marks whatever timer has that address
by then. A double `free` and a `memcpy` to NULL end the process and are not
followed further. Kinds of messages: taking the lock, not taking it
(`ON_USSD_REQUEST`, `SIGNAL_STRENGTH`), NITZ, and radio state changes, which nest
up to three others. Time is abstract: a timer may expire at any moment after it
was added, in any order (an over-approximation of RilEvent).

### RilParcel, RilMarshal, RilDispatch (parcels)

The dispatch functions read a request from a Parcel and the response functions
write a vendor structure to one; they differ only in which fields they treat and
in which order. `RilParcel` says what one step of such a function does: read an
integer (with or without a status), copy a string to the heap, test the status,
call the vendor library, free, write a field, begin an element of a list.
`RilMarshal` and `RilDispatch` give the list of steps of each function that
`s_commands` and `s_unsolResponses` name. The composition is by EXTENDS:
`RilDispatch` extends `RilMarshal`, which extends `RilParcel`, because some
dispatch functions complete a request themselves and so run a response function.
The Parcel class is external. What the model takes from its use:

* a parcel is a sequence of cells, and each is an integer or a string. A byte
  written with `write` takes a cell, like an integer;
* a read at the end fails, does not move the position and leaves its target as
  it was, so the field gets any value (`stale`). `p.readInt32()` gives 0 and a
  string NULL. A parcel ends between two cells, never inside one;
* the parcel is produced while it is read, by a client that writes the cells the
  function reads and stops anywhere. `SendBack` is a client that reads a response
  and sends it back in the request that takes it.

The vendor library passes structures of any length and any enumeration value that
the functions tell apart. The pointer and length are told apart as the functions do
(`"null"`, `"nullsome"`, `"fit"`, `"odd"` and so on), a list of networks has any
number of strings, and cell and hardware types include ones the code does not know
(`"other"`).

A NULL `path` in `dispatchSIM_IO`, a NULL `appId` in the facility functions and a
NULL message to a response function that does not test it end in `"crash"`: the
code promises nothing for them.

### RilSap (`RilSapSocket.cpp`, `RilSocket.cpp`, `rilSocketQueue.h`)

State: `commandFd` and the kernel's table of descriptors (`sapFile`), the two
queues, where each processing thread and each vendor thread is, which
`SapSocketRequest` and `MsgHeader` are allocated. A queue operation is one step
(it holds the mutex), and a `dequeue` on an empty queue is a step to waiting. Each
connection starts a thread and none ever ends, as in the code. A response is two
halves, so that `close` and a new connection can come between them. The DISCONNECT
that `sendDisconnect` makes when a connection ends is left out: it goes straight
to the vendor library, is in neither queue and has no connection to be answered
on. The client's numbering is a constant (`TokensRestart`): unique numbers, or
from 1 on in every connection. The vendor library answers every request once.

### RefHolders, RefBase (`RefBase.cpp`, `RefBase.h`)

`RefHolders` has an object, its control block, and the sets of handles that hold
each. `RefBase` has the counters; a handle is worked on by one thread at a time,
so a handle is a process, and a step is one atomic operation or one destructor. A
loop around `cmpxchg` is one step, at the exchange that succeeds or the read that
ends it. Lifetimes are `STRONG` and `WEAK`. The refinement takes `strongs` to be
the handles counted in `mStrong` and `weaks` those counted in `mWeak`.

The runs and proofs assume that an `sp<>` is not made from the raw pointer once
the constructor has handed out a `wp<>` (`FirstRefShared = FALSE`). With TRUE the
four properties fail, in two ways. The last such `wp<>` deletes an object that
never had an `sp<>`, although its creator is about to make one (`HeldIsLive`,
`NothingLeaks`, `KeepsPromise`). And `incStrong` takes `INITIAL_STRONG_VALUE` off
without looking, and so may a promotion at the same time: the count becomes
negative, and a later promotion fails although there is an `sp<>`
(`PromotionFails`). No class in the repository hands out a `wp<>` in its
constructor.

A `wp<>` that a destructor makes of its own object is left out. `~MemoryPmem` does
so (`remove(this)`) and drops it before it returns, while the `decStrong` that
called it still counts in `mWeak`, so that it is never the last.

### VectorImpl, SortedVector (`VectorImpl.cpp`, `SharedBuffer.cpp`)

`VectorImpl` is about storage: which buffer each vector has, its capacity and
count, the reference count of each buffer, and cells with the items. A step is
one access to `mRefs` with the work on memory of its own that follows. `wanted`
is a history of what the calls on a vector should have made of it. Arguments come
from outside the vector (an item that is passed by reference to its own storage
may be freed by the growth). `SortedVector` is about contents: binary search,
add, remove, both merges and the insertion sort, as operators on sequences of
items with a key and a tag that the comparison does not see. Merging into an empty
`SortedVector` compares with items that are not there: the model goes each way the
code may then go. Before its first move `sort` takes storage of its own with
`editArrayImpl`; for the storage that is an edit like any other (`Change` in
`VectorImpl`), and the sort has no action there.

### PmemHeap (`MemoryHeapPmem.cpp`)

Each area goes from its constructor to the list, to its two destructors;
`revoke()` of the heap copies the list and promotes, tests, unmaps and drops one
area after the other. One thread is inside `revoke()` at a time, and the copy is one
step, under the lock.

### Lights (`lights.c`)

Callers wait for `g_lock`, store a state and write the files of the LED one by
one. The files are modelled as the LED class of the kernel has them: the delays
exist only while the trigger is the timer. `Gamma` is the power function.

### BootSelect (`init/`, `keycheck.c`, `pre-recovery.sh`, `postrecoveryboot.sh`)

`init` and `keycheck` are two processes with a clock; only the file in `/cache`
outlives a loss of power, which may come at any step (`SwitchOff`). A status is
what `waitpid` returns, the exit code times 256. A child that is killed is taken
to die before it reads another event. When `execv` of keycheck fails the child
returns from `system_exec_bg` as a second init, finds no child of its own and goes
on to Android (`SecondInit`) while the first one waits for it.

## 4. Runs

| Run | Module | Instance | Shows |
|---|---|---|---|
| `event_live` | MCRilEvent | 3 descriptor events (wake pipe, a one-shot, a persistent one), 1 timer, 1 thread and the callbacks | tables agree, no add dropped, each event runs once per occasion; inputs and timers are served |
| `event_timers` | MCRilEvent | 3 timers, 2 threads, a table of 1 slot, failing select | no lost wake-up, timers in order |
| `request_races` | MCRilRequest | 2 connections, 2 requests (one of any kind, the other forwarded), 2 vendor threads, 2 descriptor numbers | one owner, at most one answer, exactly the old requests cancelled |
| `request_live` | MCRilRequest | up to 3 connections (one a stranger's), 2 requests of the four kinds that are to be answered, 1 debug connection, a client that stalls; four in all | listens or serves; every request answered unless its connection ends, every connection accepted |
| `request_stray` | MCRilRequest | 2 connections, 1 request | violation: an answer on the wrong connection |
| `unsol_races` | MCRilUnsol | 2 vendor threads, 2 messages (NITZ, radio state), 2 connections, 2 addresses; three messages and connections in all | the wake lock has a releaser, no freed timer runs, NITZ at most once |
| `unsol_live` | MCRilUnsol | 1 vendor thread and the loop, 2 messages, 1 connection | the wake lock is released |
| `unsol_held` | MCRilUnsol | 1 thread, 2 messages | violation: the lock goes while a message is being sent |
| `unsol_stranded` | MCRilUnsol | 1 thread, 1 NITZ message, 1 connection | violation: a NITZ copy kept past its client |
| `codec` | MCRilParcel | all functions of the tables; versions 2, 3, 4, 6, 7, 8 | one status test vouches for the integers before it; requests are settled once, copies freed, where counts fit and where not; what is sent back is read in its place; up to how many data calls the structure is recognised |
| `parts` | MCParts | 4 handles; 2 SAP connections, 2 requests, 2 vendor threads; 2 vectors of 2 items in 3 buffers; sorted vectors of 3 keys and 2 tags; 2 pmem areas; 2 callers of lights; 2 inputs, 3 boots | nothing held dangles and nothing leaks, promotions fail only late, `RefHolders` is implemented; SAP requests have one place, threads are woken, responses do not mix; vectors keep their values and counts; searches find what adds, removals and merges left, and the sort is stable; areas are unmapped once; the LED shows the right light; recovery is started when asked for |
| `sap_tokens` | MCRilSap | 2 connections, 2 requests with the same number | violation: the answer of one request frees another's structure |

Bounds. Two connections are the smallest number at which a descriptor number or a
stale decision can meet the next connection; two threads, or one and the loop,
meet every pairwise race on a shared variable; two addresses are the smallest
number at which an address is reused while another is live. Where a property is
also a theorem the bound does not matter. `unsol_races` has at most three messages
and connections together (`ThreeInAll`): a second message meets one connection,
and a second connection meets one message, which is what the races and the mutants
need. `request_races` has one request of any kind beside one that is forwarded
(`OneOdd`): a forwarded request is the one that stays on the list, so it is what
the other's completion and the end of a connection can meet. `request_live` has at
most four in all of connections, requests, and requests of another kind than
forwarded (which so count twice), where a debug connection counts as two
(`FourInAll`). So two connections meet two requests, a stranger meets a second
connection and a request, the debug option that powers the radio off meets an open
connection with a request or with another connection waiting, and every kind that
is to be answered occurs, beside a second connection too. These bounds cut off
only steps of clients and of vendor threads that nothing obliges to happen, so
that fairness is not affected. In `event_live` a timer has no delay and the clock
moves once: as the comparison is strict, the timer expires with the tick.
`event_timers` has different delays. Deadlock is not checked where the bounded
number of messages ends (`CHECK_DEADLOCK FALSE` in RilUnsol) and in `codec`, where
a function ends, and in `parts` and `sap_tokens`, where all requests, boots and
areas are used up.

`parts` checks seven modules that share no variable. In each behaviour the
variable `part` says which of them moves; the others stay in one initial state, so
the states are the sum and not the product, and every invariant is still an
invariant of each part's own behaviours. Four handles are
enough for one that is dropped, one that is promoted, the one it is promoted
from, and a bystander; three buffers are one for each of two vectors and one for
a copy being made; three sorted items have a
first, a middle and a last; three boots are a request, the recovery and the boot
after it. `INITIAL_STRONG_VALUE` is 100, far above the number of handles, in
place of 2^28. Descriptors, vectors and callers share one set of interchangeable
values, vendor threads and items another; no liveness is checked there.

In `codec` the six versions are those on each side of every comparison with
`s_callbacks.version` (3, 4, 5, 7 and 8). Lists have up to two elements
(`MaxNum`, `MaxCount`): none, one, and one after another. Array sizes are scaled
down so that a length can pass them: `DigitMax` 1 for the CDMA SMS arrays,
`ArrayMax` 2 for information records and service classes, `SsInfoMax` 2, and
`numParamsRilV3` 2 in place of 6. `MaxDataCalls` is 10, past the first length that
two structures share: nine of 40 bytes are as long as ten of 36 (`ril.cpp:2875`).
Lists of networks have up to `5 * MaxNum` strings, multiples of five or not.

Fairness. The loop and threads in the middle of an operation are scheduled (weak
fairness: they are runnable threads); `s_writeMutex` does not starve a thread and
the vendor library completes what it was given (strong fairness on `SendStep` and
`VendorComplete`); a client that stopped reading reads again or closes; the debug
tool sends its arguments or closes; `accept` does not fail for ever; init restarts
the daemon. Nobody has to connect, send or close. `LockReleased` needs a bounded
number of messages: the code extends the lock with each message by design.

Mutants: every property of a passing run has a mutant in `PROJECT.json`, a
definition placed before the mapped one with a small bug, under which TLC finds
the property violated.

## 5. Findings

* `request_stray`: `RIL_onRequestComplete` tests `cancelled` before the response
  is written; a connection that ends in between lets the answer of an old request
  go to the next connection, against the comment at `ril.cpp:4157`. How many
  answers may go astray in this way is not checked.
* `unsol_held`: the timer of an earlier message releases the wake lock while a
  later message is being sent (`ril.cpp:5212`).
* `unsol_stranded`: a NITZ message whose send failed just before a client
  connected is stored after the client was greeted, and waits for the connection
  after that (`ril.cpp:5276`).
* `sap_tokens`: `onRequestComplete` frees the first pending entry with the same
  message id and client's number. The queue outlives its connection, so after a
  reconnect the late answer of an old request frees the `SapSocketRequest` of a
  new one, whose address the vendor library still has, against the comment at
  `RilSapSocket.cpp:268`. With unique numbers (`parts`) this does not happen.

Stated as exceptions within the properties of `codec`: `dispatchImsSms` drops a
request of unknown format without an answer (`ril.cpp:1626`); the functions that
answer from the radio state complete a request twice when the radio is off
(`ril.cpp:1968`, `1995`); `smsc` in `dispatchSmsWrite` and an empty number in
`dispatchCallForward` are never freed. `CountsMatch` says that a written count is the
number of elements that follow exactly when none of three things is the case:
strings of networks are left over after the last whole one (`ril.cpp:2699` tests only
that there are whole pointers), a hardware type is unknown (`ril.cpp:3640`, counted
and not written), CDMA digits are more than the array holds (`ril.cpp:3978`; the
reader cuts alike, which `RoundTrip` shows). `LayoutRecognised` says that a list of
fewer than nine data calls is read as it was made, and that a longer one may be
taken for an older and smaller structure, never for one that reads past the array.
Nothing in the repository promises more, so these are no findings.

Not runs of their own: `processTimeouts` compares strictly where its comment at
`ril_event.cpp:167` says `>=` (one more turn of the loop, nothing else);
`onNewCommandConnect` frees the NITZ copy also when sending it failed; merging
into an empty `SortedVector` compares with items that are not there
(`VectorImpl.cpp:658`), and a merge in front or behind keeps both of two equal
items where `add` would keep one; power that fails after the recovery file is
deleted and before the recovery runs loses the request
(`init/init_semc/init_board_device.h:62`); two threads in `MemoryHeapPmem::revoke`
could unmap an area twice; when `execv` of keycheck fails, the child goes on as a
second init (`init_exec.cpp:46`).

## 6. Proofs

Every theorem is about a specification with arbitrary constants that satisfy the
ASSUMEs: any number of threads, events, connections, requests, vectors, areas,
inputs and boots. The parts of `parts` have a specification each (`RefSpec`,
`SapSpec`, `VecSpec`, `PmemSpec`, `LightsSpec`, `BootSpec`), with the initial
states and the actions that the run uses. No property below is inductive alone.
Each argument is an inductive invariant that contains it, with one lemma for each
action or group of actions; TLC checked each invariant before it was proved.

| Module | Theorem | Property |
|---|---|---|
| `RilEventProofs` | `TypeCorrect`, `TablesAgree`, `TimersRunInOrder`, `EventsFiredOnce`, `WakeupNeverLost` | `TypeOK`, `TableInv`, `TimersInOrder`, `FiredOnce`, `NoLostWakeup` |
| `RilEventRoomProofs` | `AddNeverDropped` | `NoDroppedAdd` |
| `RilRequestProofs` | `TypeCorrect`, `ListensOrServes`, `OwnedOnce`, `AnsweredAtMostOnce`, `OldRequestsCancelled` | `TypeOK`, `ListenOrServe`, `OneOwner`, `AnsweredOnce`, `OldCancelled` |
| `RilUnsolPmemBootProofs` | `TypeCorrect`, `LockNeverOrphaned`, `TimersNeverDangle`, `NitzDeliveredOnce` | `TypeOK`, `LockHasReleaser`, `TimersLive`, `NitzAtMostOnce` |
| | `RecoveryOnlyWhenAsked` | `RecoveryWhenAsked` |
| | `PmemUnmappedOnce`, `PmemRevokedAll` | `UnmappedOnce`, `RevokedAll` |
| `RilParcelLightsProofs` | `LightsShownAlways`, `OneTestIsEnough` | `LightsShown`, `CheckedIsComplete` |
| `RilSapProofs` | `SapRequestOnce`, `SapNoLostWakeup`, `SapResponsesWhole`, `SapRequestsOwned` | `SapOnce`, `SapAwake`, `SapWhole`, `SapOwned` |
| `RefBaseProofs` | `NoHandleDangles`, `EverythingFreed`, `PromotionsFailLate`, `CountersImplementHolders` | `HeldIsLive`, `NothingLeaks`, `PromotionFails`, `KeepsPromise` |
| `VectorImplProofs` | `VectorsCounted`, `VectorsApart` | `VecRefs`, `VecValues` |

Two proof modules are about parts that have nothing in common; each section of
theirs stands alone. `RilEventRoomProofs` is apart because it counts slots and
needs the theorems on finite sets, which slow down every other proof beside them.

**Event library.** The table invariant is inductive with `GrowInv` (one add at a
time is between its steps) and `SetupInv`. The lists are inductive with `ListInv`
(no event runs while another waits, a timer is in the list once, the pending list
is filled and emptied within one turn of the loop); where `ril_timer_add` puts a
timer is stated position by position, once for all callers. `WakeupNeverLost` needs
the private copies of the loop to be accurate unless a wake-up is on its way, at
each program counter of the loop (`WakeInv`). `AddNeverDropped` is the pigeonhole
principle: with no more events than slots, an event that is not watched leaves a
slot free.

**Requests.** `SocketInv`: where the loop is determines which event is watched and
which descriptor may be open. `OnceInv` places each unanswered request in exactly
one of the inbox, a `RequestInfo` and a sending thread; `OldInv` adds which
connections can have listed requests.

**Unsolicited messages.** A thread that cancels a timer still owes one, so the last
timer made is never cancelled by a thread that makes none. A timer is freed by the
loop alone, when it is off the list, so an address is given out again only after
its last call (`LockInv` has both). A NITZ message is with its thread, in the copy
or with the client, and in two places only while the copy is being freed.

**SIM access** (`SapIInv`). `SapPlaced` gives each request that was pushed one place
of one kind (the queue, a thread, the vendor library, an answer, done), and
`InHand` and `Known` say that whatever anybody holds was pushed. `SapAwake` is
inductive because each push signals under the mutex. For responses, a vendor
thread between `lock` and `unlock` holds `write_lock` (`SapLocked`), connections
have descriptors of their own (`SapFresh`), and a response is unfinished on an open
connection only while its sender is about to write the rest or to close
(`SapBegun`). `SapRequestsOwned` assumes `~TokensRestart`; then tokens are
distinct, a request is at one place of `pendingQueue` exactly while somebody
awaits it (`SapMemoryOK`), and the first entry that looks alike is the right one.
Without the assumption it is false, which is the run `sap_tokens`.

**Reference counts** (`RefIInv`), for any finite set of handles, under
`~FirstRefShared`: `mWeak` is the number of handles at places that count and
`mStrong` the number of strong ones, plus `INITIAL_STRONG_VALUE` while the first is
incomplete (`Counted`); what can be the case before the first reference is complete
(`BeforeFirst`); a call in progress works from a handle that is still held
(`Sources`); the object and the block are gone exactly when their counts have
ended (`Ends`): a destructor runs a step after the decrement that calls for it.

**Vectors** (`VecIInv`). First, laws for the operators on arrays: whichever of
editing in place, resizing and a fresh buffer `_grow` or `_shrink` chooses
(`GrowPlan`, `ShrinkPlan`), the capacity suffices and the array begins with the
items before the gap, the gap and those after it. Then, for each vector, its buffer
and the one it is about to have hold what they should at each place of a call
(`VecPlaced`, `VecHeld`), and counts are the numbers of holders (`VecRefs`). What a
vector writes is its own or has one holder, so no other vector is disturbed
(`OthersHeld`, `OthersPlaced`).

**pmem heaps** (`PmemIInv`): for each area what was given back and what is still
mapped make up what was asked for, with the one exception of an area between its
unmap and the assignment of `mSize` (`SizeAccounted`); who may hold an area at each
place of its life (`HoldersKnown`, `ListedKnown`), and which area `revoke` is at
(`RevokeKnown`).

**Lights** (`LightsIInv`): while a caller has writes left, each file either is right
already or is written by one of them, and the delays are written after the trigger
that makes them (`LedOwed`); only the caller in `g_lock` has any (`LightsLocked`).

**Ramdisk** (`BootIInv`): what init has decided agrees with who asked, before, at and
after the time it waits for keys (`Decided`); a child, a second init included, exists
only when there was no file; and a status that stands for a key
comes from a key of this boot (`KeySeen`).

**Parcels**: for any lists of steps (`Programs` is arbitrary) and so for functions
yet to be written, `CheckedIsComplete` is inductive with `FailureLasts`: a failed
read leaves nothing to read and `status` bad, and only a read that succeeds makes
`status` good again.

Only model-checked:

* liveness (`ReadyServed`, `TimerServed`, `Answered`, `Served`, `LockReleased`): it
  needs fairness and `ENABLED`, which the prover does not reason about;
* `NothingStale`, `SettledOnce`, `CopiesFreed`, `CountsMatch`, `RoundTrip` and
  `LayoutRecognised`: they are about some sixty concrete lists of steps, whose
  branches and loops unfold into lists inside the steps. A proof would repeat the
  run, list by list; the run is exhaustive but for the lengths of lists;
* `SearchFinds` and `SortStable`: what a binary search and an insertion sort
  compute for every input needs induction over data;
* that the violations of section 5 occur.

## 7. Not modelled

* Radio state decoding (`ril.cpp` 5031-5146): the three cached values are
  written with no lock by vendor threads, the loop and two dispatch functions. Any
  of them may be the last one sent, and the repository says nothing of which should be:
  there is no property to check. `RilUnsol` has the messages it nests.
* Registration (`RIL_register`, `startListen`) as steps: it runs once, on the
  thread that starts the daemon, and the other modules begin with its result. The
  loop already runs then, and vendor threads may; messages they send before
  `s_registerCalled` is set are dropped (`ril.cpp:5198`). What a thread sees
  while registration is half done is not checked.
* The dispatch and response functions that no table names; they never run.
* `LightRefBase` and the debugging code of `RefBase`; `slap` and `unslap` of pmem
  heaps, one ioctl each; devices that come and go under keycheck.
* `GraphicBufferMapper.cpp`, `libinit`, the Java settings: they forward, read or
  write once and keep no state. Headers, makefiles, scripts and resources are data
  for other programs.

In the modelled parts: the bytes of messages (a message is whole or not there,
but for the two halves of `RilSap`), failing allocations, logging, the print
buffers of the daemon, and the version string that is published on connection.
