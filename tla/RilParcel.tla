----------------------------- MODULE RilParcel -----------------------------
(***************************************************************************)
(* How the dispatch and response functions of libril/ril.cpp read and      *)
(* write a Parcel.                                                         *)
(*                                                                         *)
(* The body of each function is a list of steps: read an integer or a      *)
(* string, test the status, call the vendor library, free a string, write  *)
(* a field, and so on.  This module says what each step does; RilDispatch  *)
(* and RilMarshal give the list of steps of each function.                 *)
(*                                                                         *)
(* A parcel is a sequence of cells.  A cell is an integer or a string and  *)
(* remembers the field it was written from.  The parcel of a request may   *)
(* end after any cell: a client that knows fewer fields writes fewer.  It  *)
(* is produced cell by cell while it is read, by a client that writes the  *)
(* kinds of cells the function reads.                                      *)
(***************************************************************************)
EXTENDS Integers, Sequences

CONSTANTS
    Programs,   \* the steps of each function, by its name
    Starts,     \* the calls to look at: the function, its response, its input
    Versions,   \* the values of s_callbacks.version
    Echo        \* the dispatch function that takes what a response function writes

VARIABLES
    name, prog,     \* the function, and the steps it has left
    version,        \* s_callbacks.version
    resp,           \* what the vendor library passed as response and responselen
    parcel, open,   \* the cells left to read, and whether the client wrote more
    status,         \* the result of the last read that has one is NO_ERROR
    checked,        \* no integer was read since status was tested
    stale,          \* a read of an integer failed: its field is what was in t
    args,           \* the fields read, in order, and where their values come from
    dups, outer,    \* fields whose strdup'ed copy is live; the same of the caller
    refreed,        \* a copy was freed a second time
    handed,         \* calls of onRequest
    answered,       \* calls of RIL_onRequestComplete by the dispatch function
    ended,          \* how the function left before its end, if it did
    reply,          \* the cells written
    counts,         \* the counts written, and the elements written after each
    echoed          \* the parcel is a response that the client sent back

call   == <<name, version, resp>>
input  == <<parcel, open, status, checked, stale>>
heap   == <<dups, outer, refreed>>
effect == <<handed, answered, ended>>
output == <<reply, counts, echoed>>
vars   == <<call, prog, input, args, heap, effect, output>>

-----------------------------------------------------------------------------
(* The steps.  Each operator is a list of steps, so that lists are joined  *)
(* with \o.                                                                *)

IntIn(f, dom)    == <<[op |-> "int", f |-> f, dom |-> dom]>>
Ints(fs)         == [i \in DOMAIN fs |-> [op |-> "int", f |-> fs[i], dom |-> {1}]]
IntValue(f, dom) == <<[op |-> "intvalue", f |-> f, dom |-> dom]>>
StrIn(f, dom)    == <<[op |-> "str", f |-> f, dom |-> dom]>>
Strs(fs)         == [i \in DOMAIN fs |->
                        [op |-> "str", f |-> fs[i], dom |-> {"null", "", "text"}]]
String16(f)      == <<[op |-> "string16", f |-> f, dom |-> {"null", "", "text"}]>>
Inplace(f)       == <<[op |-> "inplace", f |-> f, dom |-> {"text"}]>>
Strdup(f)        == <<[op |-> "strdup", f |-> f]>>
Check            == <<[op |-> "check"]>>
CheckStr(f)      == <<[op |-> "checkstr", f |-> f]>>
NullIfEmpty(f)   == <<[op |-> "nullifempty", f |-> f]>>
Rewind(f)        == <<[op |-> "rewind", f |-> f]>>
Encode(fs)       == <<[op |-> "encode", fs |-> fs]>>
Call             == <<[op |-> "call"]>>
Complete(p, r)   == <<[op |-> "complete", then |-> p, resp |-> r]>>
Frees(fs)        == [i \in DOMAIN fs |-> [op |-> "free", f |-> fs[i]]]
FreeCallers      == <<[op |-> "freecallers"]>>
Leave(how)       == <<[op |-> "leave", how |-> how]>>

Repeat(f, cap, body) == <<[op |-> "repeat", f |-> f, cap |-> cap, body |-> body]>>
IfIn(f, set, p, q)   == <<[op |-> "if", f |-> f, set |-> set, then |-> p, else |-> q]>>
IfBelow(n, p, q)     == <<[op |-> "below", n |-> n, then |-> p, else |-> q]>>
IfResp(set, p, q)    == <<[op |-> "resp", set |-> set, then |-> p, else |-> q]>>

Put(fs)           == [i \in DOMAIN fs |-> [op |-> "put", k |-> "int", f |-> fs[i]]]
PutStr(fs)        == [i \in DOMAIN fs |-> [op |-> "put", k |-> "str", f |-> fs[i]]]
PutCount(f)       == <<[op |-> "putcount", f |-> f]>>
Element           == <<[op |-> "element"]>>
Pick(f, dom)      == <<[op |-> "pick", f |-> f, dom |-> dom]>>
Derive(f, g, map) == <<[op |-> "derive", f |-> f, from |-> g, map |-> map]>>

-----------------------------------------------------------------------------
(* What the steps do.                                                      *)

Op    == Head(prog)
At(o) == prog # <<>> /\ Op.op = o
Next1 == prog' = Tail(prog)

(* The value of a field: the last one read.                                *)
Known(f) == \E i \in DOMAIN args : args[i].f = f
Last(f)  == CHOOSE i \in DOMAIN args :
                args[i].f = f /\ \A j \in DOMAIN args : j > i => args[j].f # f
Val(f)   == args[Last(f)].v

Log(f, from, v) == args' = Append(args, [f |-> f, from |-> from, v |-> v])

(* The cells a read can find: the next of the parcel, or one more that the *)
(* client wrote.                                                           *)
Cells(k) == IF parcel # <<>> THEN {Head(parcel)}
            ELSE IF open THEN {[k |-> k, f |-> Op.f, v |-> x] : x \in Op.dom}
            ELSE {}

Consume == /\ parcel' = IF parcel = <<>> THEN <<>> ELSE Tail(parcel)
           /\ open' = open

(* Nothing more to read, now or later: the position does not move.         *)
AtEnd   == /\ parcel = <<>> /\ parcel' = parcel
           /\ open' = FALSE

(* A cell of the other kind is read as something else.                     *)
Source(c, k) == IF c.k = k THEN c.f ELSE "torn"

(* status = p.readInt32(&t); field = t.  A read that fails leaves in t     *)
(* what was there: some value.                                             *)
ReadInt ==
    /\ At("int") /\ Next1
    /\ \/ \E c \in Cells("int") :
             /\ Consume
             /\ status' = TRUE /\ UNCHANGED stale
             /\ IF c.k = "int" THEN Log(Op.f, c.f, c.v)
                ELSE \E x \in Op.dom : Log(Op.f, "torn", x)
       \/ /\ AtEnd
          /\ status' = FALSE /\ stale' = TRUE
          /\ \E x \in Op.dom : Log(Op.f, "end", x)
    /\ checked' = FALSE
    /\ UNCHANGED <<call, heap, effect, output>>

(* field = p.readInt32(): 0 when there is nothing to read, and no status.  *)
ReadIntValue ==
    /\ At("intvalue") /\ Next1
    /\ \/ \E c \in Cells("int") : Consume /\ Log(Op.f, c.f, c.v)
       \/ AtEnd /\ Log(Op.f, "zero", 0)
    /\ UNCHANGED <<call, status, checked, stale, heap, effect, output>>

(* field = strdupReadString(p): a copy on the heap, or NULL for a null     *)
(* string and when there is nothing to read.                               *)
strdupReadString ==
    /\ At("str") /\ Next1
    /\ \/ \E c \in Cells("str") :
             /\ Consume
             /\ Log(Op.f, Source(c, "str"), c.v)
             /\ dups' = IF c.v = "null" THEN dups ELSE dups \cup {Len(args) + 1}
       \/ AtEnd /\ Log(Op.f, "end", "null") /\ UNCHANGED dups
    /\ UNCHANGED <<call, status, checked, stale, outer, refreed, effect, output>>

(* field = strdup("..."): a copy of a string that is not in the parcel.    *)
StrdupLiteral ==
    /\ At("strdup") /\ Next1
    /\ Log(Op.f, "literal", "text")
    /\ dups' = dups \cup {Len(args) + 1}
    /\ UNCHANGED <<call, input, outer, refreed, effect, output>>

(* p.readString16(): a string object, which is empty for a null string.    *)
ReadString16 ==
    /\ At("string16") /\ Next1
    /\ \/ \E c \in Cells("str") :
             /\ Consume
             /\ Log(Op.f, Source(c, "str"), IF c.v = "null" THEN "" ELSE c.v)
       \/ AtEnd /\ Log(Op.f, "end", "")
    /\ UNCHANGED <<call, status, checked, stale, heap, effect, output>>

(* field = p.readInplace(len): a pointer into the parcel, or NULL.         *)
ReadInplace ==
    /\ At("inplace") /\ Next1
    /\ \/ \E c \in Cells("str") : Consume /\ Log(Op.f, Source(c, "str"), c.v)
       \/ AtEnd /\ Log(Op.f, "end", "null")
    /\ UNCHANGED <<call, status, checked, stale, heap, effect, output>>

(* goto invalid, a return with an error, or the end of the process.        *)
Leaves(how) ==
    /\ prog' = <<>>
    /\ ended' = how

(* Mutant: only the string is tested.                                      *)
CheckStatusOfString ==
    /\ At("check") \/ At("checkstr")
    /\ IF At("checkstr") /\ Val(Op.f) = "null"
         THEN Leaves("invalid") /\ UNCHANGED checked
         ELSE Next1 /\ checked' = TRUE /\ UNCHANGED ended
    /\ UNCHANGED <<call, parcel, open, status, stale, args, heap, handed, answered, output>>

(* if (status != NO_ERROR) goto invalid; with checkstr, also for a string  *)
(* that is NULL.                                                           *)
CheckStatus ==
    /\ At("check") \/ At("checkstr")
    /\ IF ~status \/ (At("checkstr") /\ Val(Op.f) = "null")
         THEN Leaves("invalid") /\ UNCHANGED checked
         ELSE Next1 /\ checked' = TRUE /\ UNCHANGED ended
    /\ UNCHANGED <<call, parcel, open, status, stale, args, heap, handed, answered, output>>

(* The copy is forgotten, not freed.                                       *)
SetNull ==
    /\ At("nullifempty") /\ Next1
    /\ args' = IF Val(Op.f) = "" THEN [args EXCEPT ![Last(Op.f)].v = "null"] ELSE args
    /\ UNCHANGED <<call, input, heap, effect, output>>

(* Calls another dispatch function, which has its own locals, on the same  *)
(* parcel from the position before the first field.                        *)
CallRewound ==
    /\ At("rewind") /\ Next1
    /\ parcel' = IF args[Len(args)].from = "zero" THEN parcel
                 ELSE <<[k |-> "int", f |-> Op.f, v |-> args[Len(args)].v]>> \o parcel
    /\ args' = <<>> /\ checked' = TRUE /\ stale' = FALSE
    /\ UNCHANGED <<call, open, status, heap, effect, output>>

(* The parcel p2, with a count and the strings given.                      *)
Encoded(fs) ==
    <<[k |-> "int", f |-> "countStrings", v |-> Len(fs)]>> \o
    [i \in DOMAIN fs |-> [k |-> "str", f |-> fs[i], v |-> Val(fs[i])]]

(* Calls another dispatch function on p2.                                  *)
CallEncoded ==
    /\ At("encode") /\ Next1
    /\ parcel' = Encoded(Op.fs) /\ open' = FALSE
    /\ args' = <<>> /\ checked' = TRUE /\ stale' = FALSE
    /\ outer' = dups /\ dups' = {}
    /\ UNCHANGED <<call, status, refreed, effect, output>>

(* CALL_ONREQUEST: the request is the vendor library's now.                *)
CallVendor ==
    /\ At("call") /\ Next1
    /\ handed' = handed + 1
    /\ UNCHANGED <<call, input, args, heap, answered, ended, output>>

(* RIL_onRequestComplete from within the dispatch function.                *)
CompleteHere ==
    /\ At("complete")
    /\ answered' = answered + 1
    /\ prog' = Op.then \o Tail(prog)
    /\ resp' = Op.resp
    /\ reply' = <<>>
    /\ UNCHANGED <<name, version, input, args, heap, handed, ended, counts, echoed>>

Copies(f) == {i \in DOMAIN args : args[i].f = f /\ args[i].v # "null"}

Free ==
    /\ At("free") /\ Next1
    /\ refreed' = (refreed \/ ~ (Copies(Op.f) \subseteq dups))
    /\ dups' = dups \ Copies(Op.f)
    /\ UNCHANGED <<call, input, args, outer, effect, output>>

FreeOuter ==
    /\ At("freecallers") /\ Next1
    /\ outer' = {}
    /\ UNCHANGED <<call, input, args, dups, refreed, effect, output>>

LeaveEarly ==
    /\ At("leave") /\ Leaves(Op.how)
    /\ UNCHANGED <<call, input, args, heap, handed, answered, output>>

Times(body, n) == [i \in 1 .. n * Len(body) |-> body[((i - 1) % Len(body)) + 1]]

Smaller(a, b) == IF a < b THEN a ELSE b

Loop ==
    /\ At("repeat")
    /\ LET n == Smaller(Val(Op.f), Op.cap)
       IN  prog' = Times(Op.body, IF n < 0 THEN 0 ELSE n) \o Tail(prog)
    /\ UNCHANGED <<call, input, args, heap, effect, output>>

Take(cond) == /\ prog' = (IF cond THEN Op.then ELSE Op.else) \o Tail(prog)
              /\ UNCHANGED <<call, input, args, heap, effect, output>>

Branch ==
    \/ At("if")    /\ Take(Val(Op.f) \in Op.set)
    \/ At("below") /\ Take(version < Op.n)
    \/ At("resp")  /\ Take(resp \in Op.set)

-----------------------------------------------------------------------------
(* Response functions.                                                     *)

(* A field of the structure the vendor library passed: any value of those  *)
(* that matter.                                                            *)
PickField ==
    /\ At("pick") /\ Next1
    /\ \E x \in Op.dom : Log(Op.f, Op.f, x)
    /\ UNCHANGED <<call, input, heap, effect, output>>

(* A value the function works out from another one.                        *)
DeriveField ==
    /\ At("derive") /\ Next1
    /\ Log(Op.f, Op.f, Op.map[Val(Op.from)])
    /\ UNCHANGED <<call, input, heap, effect, output>>

Cell(k, f) == [k |-> k, f |-> f,
               v |-> IF Known(f) THEN Val(f) ELSE IF k = "int" THEN 1 ELSE "text"]

(* p.writeInt32, writeStringToParcel.                                      *)
PutField ==
    /\ At("put") /\ Next1
    /\ reply' = Append(reply, Cell(Op.k, Op.f))
    /\ UNCHANGED <<call, input, args, heap, effect, counts, echoed>>

(* The number of elements that follow.                                     *)
PutNumber ==
    /\ At("putcount") /\ Next1
    /\ reply' = Append(reply, Cell("int", Op.f))
    /\ counts' = Append(counts, [f |-> Op.f, said |-> Val(Op.f), given |-> 0])
    /\ UNCHANGED <<call, input, args, heap, effect, echoed>>

BeginElement ==
    /\ At("element") /\ Next1
    /\ counts' = [counts EXCEPT ![Len(counts)].given = @ + 1]
    /\ UNCHANGED <<call, input, args, heap, effect, reply, echoed>>

(* The client reads a response and sends what it read as a request.        *)
SendBack ==
    /\ prog = <<>> /\ ended = "no" /\ name \in DOMAIN Echo
    /\ name' = Echo[name] /\ prog' = Programs[Echo[name]]
    /\ parcel' = reply /\ reply' = <<>>
    /\ echoed' = TRUE
    /\ args' = <<>> /\ counts' = <<>> /\ stale' = FALSE
    /\ UNCHANGED <<version, resp, open, status, checked, heap, effect>>

-----------------------------------------------------------------------------
Init ==
    /\ \E s \in Starts : /\ name = s.name /\ prog = Programs[s.name]
                         /\ resp = s.resp /\ open = s.open
    /\ version \in Versions
    /\ parcel = <<>> /\ status = TRUE /\ checked = TRUE /\ stale = FALSE
    /\ args = <<>>
    /\ dups = {} /\ outer = {} /\ refreed = FALSE
    /\ handed = 0 /\ answered = 0 /\ ended = "no"
    /\ reply = <<>> /\ counts = <<>> /\ echoed = FALSE

Reads  == ReadInt \/ ReadIntValue \/ strdupReadString \/ ReadString16 \/ ReadInplace
Tests  == CheckStatus \/ SetNull \/ LeaveEarly \/ Loop \/ Branch
Passes == CallRewound \/ CallEncoded \/ CallVendor \/ CompleteHere
Copied == StrdupLiteral \/ Free \/ FreeOuter
Writes == PickField \/ DeriveField \/ PutField \/ PutNumber \/ BeginElement \/ SendBack

Next == Reads \/ Tests \/ Passes \/ Copied \/ Writes

Spec == Init /\ [][Next]_vars

-----------------------------------------------------------------------------
(* The dispatch functions test the status of the last integer they read,   *)
(* not of each, and rely on a failed read making the later ones fail (the  *)
(* comments "note we only check status at the end" say so).  When the      *)
(* status was tested since the last integer was read, every integer that   *)
(* was read came from the parcel.                                          *)
CheckedIsComplete == checked => ~ stale

(* What CheckedIsComplete rests on: after a read that failed there is      *)
(* nothing left to read, and status keeps saying so.                       *)
FailureLasts == stale => parcel = <<>> /\ ~ open /\ ~ status

(* Whatever reaches the vendor library came from the parcel: each dispatch *)
(* function tests the status between its last integer and the call.        *)
NothingStale == handed > 0 => ~ stale

(* What a client reads from a response and sends back in the request that  *)
(* takes it is read with each field in its place and nothing left over.    *)
RoundTrip ==
    echoed /\ handed > 0 =>
        /\ \A i \in DOMAIN args : args[i].from = args[i].f
        /\ parcel = <<>>
=============================================================================
