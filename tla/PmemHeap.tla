------------------------------ MODULE PmemHeap ------------------------------
(***************************************************************************)
(* MemoryHeapPmem: a heap whose areas the kernel driver maps one by one,   *)
(* handed out as reference counted objects and taken back by revoke(),     *)
(* which a thread may call while the clients drop theirs.  What sp<> and   *)
(* wp<> do is taken from RefHolders, which RefBase implements: an area     *)
(* dies with its last holder, and a promotion succeeds only on one that    *)
(* has a holder.                                                           *)
(***************************************************************************)
EXTENDS Integers, FiniteSets

CONSTANTS
    Areas,          \* the areas the clients map, each once
    Client, Revoker \* the two holders of an area: whoever mapped it, and the
                    \* thread inside MemoryHeapPmem::revoke

ASSUME PmemAssumption == Client # Revoker

VARIABLES
    heapOpen,       \* heapID() > 0: PMEM_CONNECT succeeded
    areaAt,         \* areaAt[a]: "none", "made", "held", "revoke" and
                    \* "remove" (in its destructors) or "gone"
    mSize,          \* mSize[a]: 0 once it is given back, or empty
    asked,          \* history: the size the area was made with
    areaHeld,       \* areaHeld[a]: who holds an sp<> to it
    mAllocations,   \* the heap's list of weak references
    unmaps,         \* unmaps[a]: how often PMEM_UNMAP was asked for
    revokeAt,       \* the revoking thread: "idle", "next", "check", "clear", "drop"
    allocations,    \* its copy of the list: what is left of it
    current,        \* the area it has promoted
    copied          \* history: the list it copied

pmemVars == <<heapOpen, areaAt, mSize, asked, areaHeld, mAllocations, unmaps,
              revokeAt, allocations, current, copied>>

PmemInit ==
    /\ heapOpen \in BOOLEAN
    /\ areaAt = [a \in Areas |-> "none"]
    /\ mSize = [a \in Areas |-> 0]
    /\ asked = [a \in Areas |-> 0]
    /\ areaHeld = [a \in Areas |-> {}]
    /\ mAllocations = {}
    /\ unmaps = [a \in Areas |-> 0]
    /\ revokeAt = "idle"
    /\ allocations = {} /\ current = {} /\ copied = {}

revokeVars == <<revokeAt, allocations, current, copied>>

-----------------------------------------------------------------------------
(* The clients. *)

(* createMemory: a heap without a file makes nothing; else the area is     *)
(* mapped (an error is only logged) and the local sp<> holds it.           *)
CreateMemory(a) ==
    /\ heapOpen /\ areaAt[a] = "none"
    /\ \E size \in {0, 1} :
        /\ mSize' = [mSize EXCEPT ![a] = size]
        /\ asked' = [asked EXCEPT ![a] = size]
    /\ areaAt' = [areaAt EXCEPT ![a] = "made"]
    /\ areaHeld' = [areaHeld EXCEPT ![a] = {Client}]
    /\ UNCHANGED <<heapOpen, mAllocations, unmaps, revokeVars>>

(* The second half of mapMemory, under mLock. *)
AddAllocation(a) ==
    /\ areaAt[a] = "made"
    /\ mAllocations' = mAllocations \union {a}
    /\ areaAt' = [areaAt EXCEPT ![a] = "held"]
    /\ UNCHANGED <<heapOpen, mSize, asked, areaHeld, unmaps, revokeVars>>

(* Whoever drops the last sp<> runs the destructors. *)
Dropped(a, holder) ==
    /\ areaHeld' = [areaHeld EXCEPT ![a] = @ \ {holder}]
    /\ areaAt' = IF areaHeld[a] = {holder}
                 THEN [areaAt EXCEPT ![a] = "revoke"] ELSE areaAt

DropArea(a) ==
    /\ areaAt[a] = "held" /\ Client \in areaHeld[a]
    /\ Dropped(a, Client)
    /\ UNCHANGED <<heapOpen, mSize, asked, mAllocations, unmaps, revokeVars>>

(* Mutant: the area is freed without being given back. *)
DestroyQuietly(a) ==
    /\ areaAt[a] = "revoke"
    /\ mSize' = [mSize EXCEPT ![a] = 0]
    /\ areaAt' = [areaAt EXCEPT ![a] = "remove"]
    /\ UNCHANGED <<heapOpen, asked, areaHeld, mAllocations, unmaps, revokeVars>>

(* ~SubRegionMemory: revoke() of the area. *)
DestroyRevoke(a) ==
    /\ areaAt[a] = "revoke"
    /\ unmaps' = [unmaps EXCEPT ![a] = IF mSize[a] # 0 THEN @ + 1 ELSE @]
    /\ mSize' = [mSize EXCEPT ![a] = 0]
    /\ areaAt' = [areaAt EXCEPT ![a] = "remove"]
    /\ UNCHANGED <<heapOpen, asked, areaHeld, mAllocations, revokeVars>>

(* ~MemoryPmem: remove() from the list, under mLock; then it is freed. *)
DestroyRemove(a) ==
    /\ areaAt[a] = "remove"
    /\ mAllocations' = mAllocations \ {a}
    /\ areaAt' = [areaAt EXCEPT ![a] = "gone"]
    /\ UNCHANGED <<heapOpen, mSize, asked, areaHeld, unmaps, revokeVars>>

-----------------------------------------------------------------------------
(* MemoryHeapPmem::revoke. *)

(* The list is copied under mLock. *)
CopyAllocations ==
    /\ revokeAt = "idle"
    /\ allocations' = mAllocations
    /\ copied' = mAllocations
    /\ revokeAt' = "next"
    /\ UNCHANGED <<heapOpen, areaAt, mSize, asked, areaHeld, mAllocations,
                   unmaps, current>>

(* Mutant: the loop ends after the first area. *)
PromoteSkips(a) ==
    /\ revokeAt = "next" /\ a \in allocations
    /\ allocations' = {}
    /\ \/ /\ areaHeld[a] = {}
          /\ UNCHANGED <<areaHeld, current, revokeAt>>
       \/ /\ areaHeld[a] # {}
          /\ areaHeld' = [areaHeld EXCEPT ![a] = @ \union {Revoker}]
          /\ current' = {a}
          /\ revokeAt' = "check"
    /\ UNCHANGED <<heapOpen, areaAt, mSize, asked, mAllocations, unmaps, copied>>

(* promote() the next one: nothing comes of one that nobody holds. *)
PromoteArea(a) ==
    /\ revokeAt = "next" /\ a \in allocations
    /\ allocations' = allocations \ {a}
    /\ \/ /\ areaHeld[a] = {}
          /\ UNCHANGED <<areaHeld, current, revokeAt>>
       \/ /\ areaHeld[a] # {}
          /\ areaHeld' = [areaHeld EXCEPT ![a] = @ \union {Revoker}]
          /\ current' = {a}
          /\ revokeAt' = "check"
    /\ UNCHANGED <<heapOpen, areaAt, mSize, asked, mAllocations, unmaps, copied>>

(* SubRegionMemory::revoke, without a lock: the test and PMEM_UNMAP, ...   *)
RevokeCheck(a) ==
    /\ revokeAt = "check" /\ a \in current
    /\ unmaps' = [unmaps EXCEPT ![a] = IF mSize[a] # 0 THEN @ + 1 ELSE @]
    /\ revokeAt' = IF mSize[a] # 0 THEN "clear" ELSE "drop"
    /\ UNCHANGED <<heapOpen, areaAt, mSize, asked, areaHeld, mAllocations,
                   allocations, current, copied>>

(* ... and then mSize = 0. *)
RevokeClear(a) ==
    /\ revokeAt = "clear" /\ a \in current
    /\ mSize' = [mSize EXCEPT ![a] = 0]
    /\ revokeAt' = "drop"
    /\ UNCHANGED <<heapOpen, areaAt, asked, areaHeld, mAllocations, unmaps,
                   allocations, current, copied>>

(* The promoted sp<> goes out of scope. *)
RevokeDrop(a) ==
    /\ revokeAt = "drop" /\ a \in current
    /\ Dropped(a, Revoker)
    /\ current' = {}
    /\ revokeAt' = "next"
    /\ UNCHANGED <<heapOpen, mSize, asked, mAllocations, unmaps,
                   allocations, copied>>

RevokeReturns ==
    /\ revokeAt = "next" /\ allocations = {}
    /\ revokeAt' = "idle"
    /\ UNCHANGED <<heapOpen, areaAt, mSize, asked, areaHeld, mAllocations,
                   unmaps, allocations, current, copied>>

PmemNext ==
    \/ \E a \in Areas :
        \/ CreateMemory(a) \/ AddAllocation(a) \/ DropArea(a)
        \/ DestroyRevoke(a) \/ DestroyRemove(a)
        \/ PromoteArea(a) \/ RevokeCheck(a) \/ RevokeClear(a) \/ RevokeDrop(a)
    \/ CopyAllocations \/ RevokeReturns

-----------------------------------------------------------------------------
(* What the heap promises. *)

(* "revoke() doesn't need to be protected by a lock" (SubRegionMemory):    *)
(* with one thread in the heap's revoke(), no area is given back to the    *)
(* driver twice, and one that is gone was given back, whether revoke() or  *)
(* the destructor came first.                                              *)
UnmappedOnce ==
    \A a \in Areas :
        /\ unmaps[a] <= asked[a]
        /\ areaAt[a] \in {"remove", "gone"} => unmaps[a] = asked[a]

(* revoke() takes back every area of the list it copied, or the destructor *)
(* of that area is already under way: nothing it was asked to revoke stays *)
(* usable.                                                                 *)
RevokedAll ==
    \A a \in copied \ (allocations \union current) :
        mSize[a] = 0 \/ areaAt[a] = "revoke"
=============================================================================
