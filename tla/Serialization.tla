---------------------------- MODULE Serialization ----------------------------
(***************************************************************************)
(* src/serialization.c: coreconfToCBOR writes a value as CBOR,             *)
(* cborToCoreconfValue reads one back with its limits on depth and on the  *)
(* entries of a map.  Every allocation may fail.                           *)
(*                                                                         *)
(* A value is a tree (as in CoreconfTree, integers with their width); CBOR *)
(* is a sequence of items, each taken to be one byte long.  The recursion  *)
(* of the decoder is `stack`, one frame for each call that waits for a     *)
(* value inside its own.  Every block of memory is named by what it is for *)
(* and by the item it was allocated for, so that `heap` says at any moment *)
(* what would be left behind.                                              *)
(***************************************************************************)
EXTENDS Integers, SequencesExt, FiniteSetsExt

CONSTANTS
  Closing,             \* not a position: a peer's mark for the end of a container
  Values,              \* the values that are encoded, by this library or by a peer
  Malformed,           \* what else the decoder is given
  Capacity,            \* items the buffer of the encoder holds
  Largest,             \* width -> largest signed integer: 2^(width - 1) - 1
  Bucket,              \* key -> its index in the table of a map (hashKey)
  CORECONF_MAX_DEPTH,  \* 20
  CORECONF_MAX_LOOP    \* 50

VARIABLES
  pc,      \* "idle"; "encode", "encoded"; the decoder's "value" (to decode the item at
           \* `at`), "loop" (of parseArray or parseMap) and "return"; "halted"
  src,     \* the value that is encoded, NULL for malformed input
  todo,    \* positions of src that are still to be encoded
  buf,     \* the encoded items
  at,      \* the item to decode
  stack,   \* the calls of the decoder that wait
  ret,     \* what the last call returned
  heap,    \* the blocks allocated by this call of the decoder
  dropped, \* history: the blocks of values an array or a map had no room for
  oom      \* history: whether an allocation failed in this call: "no", "noticed" (by
           \* its caller, or never: the program stopped) or "ignored"

vars == <<pc, src, todo, buf, at, stack, ret, heap, dropped, oom>>

-----------------------------------------------------------------------------
(* Values and items *)

Key(k) == <<"key", k>>
Elem(i) == <<"elem", i>>
Content == <<"tag", 0>>
Positions == Seq({"key", "elem", "tag"} \X Int)

\* No value: the tree without a root.
NULL == <<>>

Widths == {8, 16, 32, 64}
Types == {"MAP", "ARRAY", "TAG", "UINT", "INT", "REAL", "STRING", "BYTES", "TRUE", "FALSE", "NULL"}

\* val: the size of a map or array, the number of a tag, the payload of a leaf
\* (that of a string or bytes by a number, 0 if empty).
Cell(type, width, val) == [type |-> type, width |-> width, val |-> val]
Cells == [type : Types, width : Widths \cup {0}, val : Int]

Item(major, arg) == [major |-> major, arg |-> arg]
INDEFINITE == -1
Break == Item("BREAK", 0)
Items == {item \in [major : Types \cup {"NINT", "BREAK", "OTHER"}, arg : Int] :
            item.major \in {"ARRAY", "MAP"} => item.arg >= INDEFINITE}

\* The elements of an array, the values of a map's objects, the content of a tag.
Children(v, p) == {q \in DOMAIN v : q # <<>> /\ Front(q) = p}

\* Only integers have a width, which holds them.
Fits(c) ==
  CASE c.type = "UINT" -> c.width \in Widths /\ c.val \in 0 .. 2 * Largest[c.width] + 1
    [] c.type = "INT" -> c.width \in Widths /\ c.val \in -Largest[c.width] - 1 .. Largest[c.width]
    [] OTHER -> c.width = 0

\* What the constructors build: a container has the children its size
\* announces, a tag its value and a leaf nothing.
IsValue(v) ==
  /\ IsFiniteSet(DOMAIN v) /\ <<>> \in DOMAIN v /\ DOMAIN v \subseteq Positions
  /\ v \in [DOMAIN v -> Cells]
  /\ \A p \in DOMAIN v :
       /\ p # <<>> => Front(p) \in DOMAIN v
       /\ Fits(v[p])
       /\ CASE v[p].type = "ARRAY" ->
                 v[p].val >= 0 /\ Children(v, p) = {Append(p, Elem(i)) : i \in 1 .. v[p].val}
            [] v[p].type = "MAP" ->
                 /\ v[p].val = Cardinality(Children(v, p))
                 /\ \A q \in Children(v, p) : Last(q)[1] = "key"
            [] v[p].type = "TAG" -> Children(v, p) = {Append(p, Content)}
            [] OTHER -> Children(v, p) = {}

ASSUME SerializationAssumption ==
  /\ Closing \notin Positions
  /\ \A v \in Values : IsValue(v)
  /\ Malformed \subseteq Seq(Items)
  /\ Capacity \in Nat /\ CORECONF_MAX_DEPTH \in Nat /\ CORECONF_MAX_LOOP \in Nat
  /\ Largest \in [Widths -> Nat] /\ \A w \in Widths : Largest[w] <= Largest[64]

UintWidth(n) == Min({w \in Widths : n <= 2 * Largest[w] + 1})
IntWidth(n) == Min({w \in Widths : -n - 1 <= Largest[w]})

HeadItem(c) ==
  CASE c.type \in {"UINT", "INT"} -> Item(IF c.val >= 0 THEN "UINT" ELSE "NINT", c.val)
    [] OTHER -> Item(c.type, c.val)

-----------------------------------------------------------------------------
(* coreconfToCBOR: each position's key and head, then its children.  The   *)
(* entries of a map follow its buckets, those of a bucket in any order.    *)

ChildrenOf(p) == Children(src, p)

ChildOrders(p) ==
  IF src[p].type = "ARRAY" THEN {[i \in 1 .. src[p].val |-> Append(p, Elem(i))]}
  ELSE {order \in SetToSeqs(ChildrenOf(p)) :
          src[p].type = "MAP" =>
            \A i, j \in DOMAIN order :
              i < j => Bucket[Last(order[i])[2]] <= Bucket[Last(order[j])[2]]}

KeyItem(p) == IF p # <<>> /\ Last(p)[1] = "key" THEN <<Item("UINT", Last(p)[2])>> ELSE <<>>

StartEncoding(v) ==
  /\ src' = v /\ todo' = <<<<>>>> /\ buf' = <<>>
  /\ UNCHANGED <<at, stack, ret, heap, dropped, oom>>

Encode(v) == pc = "idle" /\ pc' = "encode" /\ StartEncoding(v)

EncodeStep ==
  /\ pc = "encode" /\ todo # <<>>
  /\ LET items == Append(KeyItem(Head(todo)), HeadItem(src[Head(todo)]))
     IN Len(buf) + Len(items) <= Capacity /\ buf' = buf \o items
  /\ \E order \in ChildOrders(Head(todo)) : todo' = order \o Tail(todo)
  /\ UNCHANGED <<pc, src, at, stack, ret, heap, dropped, oom>>

\* The buffer is full: -1, through all calls.
EncodeFails ==
  /\ pc = "encode" /\ todo # <<>>
  /\ Len(buf) + Len(KeyItem(Head(todo))) + 1 > Capacity
  /\ pc' = "idle" /\ todo' = <<>> /\ buf' = <<>> /\ src' = NULL
  /\ UNCHANGED <<at, stack, ret, heap, dropped, oom>>

\* 0: the buffer holds the value.
EncodeReturns ==
  /\ pc = "encode" /\ todo = <<>>
  /\ pc' = "encoded"
  /\ UNCHANGED <<src, todo, buf, at, stack, ret, heap, dropped, oom>>

(* External: another implementation, whose arrays and maps may be of       *)
(* indefinite length.                                                      *)

PeerEncodes(v) == pc = "idle" /\ pc' = "peer" /\ StartEncoding(v)

PeerStep ==
  /\ pc = "peer" /\ todo # <<>>
  /\ LET p == Head(todo) IN
     \/ /\ p = Closing
        /\ buf' = Append(buf, Break) /\ todo' = Tail(todo)
     \/ /\ p # Closing
        /\ buf' = Append(buf \o KeyItem(p), HeadItem(src[p]))
        /\ \E order \in ChildOrders(p) : todo' = order \o Tail(todo)
     \/ /\ p # Closing /\ src[p].type \in {"ARRAY", "MAP"}
        /\ buf' = Append(buf \o KeyItem(p), Item(src[p].type, INDEFINITE))
        /\ \E order \in ChildOrders(p) : todo' = order \o <<Closing>> \o Tail(todo)
  /\ UNCHANGED <<pc, src, at, stack, ret, heap, dropped, oom>>

PeerReturns ==
  /\ pc = "peer" /\ todo = <<>>
  /\ pc' = "encoded"
  /\ UNCHANGED <<src, todo, buf, at, stack, ret, heap, dropped, oom>>

Receive(items) ==
  /\ pc = "idle"
  /\ pc' = "encoded" /\ buf' = items
  /\ UNCHANGED <<src, todo, at, stack, ret, heap, dropped, oom>>

-----------------------------------------------------------------------------
(* cborToCoreconfValue *)

\* A frame: the container that parseArray or parseMap fills (a tag has none
\* yet), the item it began with, how many values are left to read, the slots of
\* an array, the turns of parseMap's loop and the key just read.
Frame(kind, tree, left, room) ==
  [kind |-> kind, tree |-> tree, id |-> at, left |-> left, room |-> room, loopCount |-> 0,
   key |-> 0]

top == Last(stack)
indent == Len(stack)
next == IF at <= Len(buf) THEN buf[at] ELSE Item("END", 0)

\* A decoded cell knows the item it was allocated for.
Decoded(c) == [cell |-> c, id |-> at]
Single(c) == [p \in {<<>>} |-> Decoded(c)]
Under(step, t) == [p \in {<<step>> \o q : q \in DOMAIN t} |-> t[Tail(p)]]

\* A value outside an array has a struct of its own, and in a map an object.
BlocksAt(t, p) ==
  LET c == t[p].cell
      name(kind) == <<kind, t[p].id>>
  IN (IF p = <<>> \/ Last(p)[1] # "elem" THEN {name("value")} ELSE {})
     \cup (IF p # <<>> /\ Last(p)[1] = "key" THEN {name("object")} ELSE {})
     \cup (IF c.type \in {"MAP", "ARRAY", "STRING"} \/ (c.type = "BYTES" /\ c.val > 0)
             THEN {name("content")} ELSE {})
     \cup (IF c.type = "ARRAY" /\ c.val > 0 THEN {name("elements")} ELSE {})

Blocks(t) == UNION {BlocksAt(t, p) : p \in DOMAIN t}
FrameBlocks(f) == Blocks(f.tree) \cup IF f.room > 0 THEN {<<"elements", f.id>>} ELSE {}

StartDecoding ==
  /\ pc = "encoded"
  /\ pc' = "value" /\ at' = 1
  /\ UNCHANGED <<src, todo, buf, stack, ret, heap, dropped, oom>>

Noticed == IF oom = "ignored" THEN oom ELSE "noticed"

Return(t) == pc' = "return" /\ ret' = t /\ UNCHANGED <<src, todo, buf, dropped>>
ReturnNULL == Return(NULL) /\ UNCHANGED <<at, stack, heap>>

TooDeep ==
  /\ pc = "value" /\ indent > CORECONF_MAX_DEPTH
  /\ ReturnNULL /\ UNCHANGED oom

\* What the item is read as: the narrowest integer that holds it.
LeafOf(item) ==
  CASE item.major = "UINT" -> Cell("UINT", UintWidth(item.arg), item.arg)
    [] item.major = "NINT" -> Cell("INT", IntWidth(item.arg), item.arg)
    [] OTHER -> Cell(item.major, 0, item.arg)
IsLeaf(item) ==
  \/ item.major \in {"REAL", "STRING", "BYTES", "TRUE", "FALSE", "NULL"}
  \/ item.major = "UINT" /\ item.arg <= 2 * Largest[64] + 1
  \/ item.major = "NINT" /\ -item.arg - 1 <= Largest[64]

DecodeLeaf ==
  /\ pc = "value" /\ indent <= CORECONF_MAX_DEPTH
  /\ IsLeaf(next)
  /\ Return(Single(LeafOf(next)))
  /\ heap' = heap \cup Blocks(Single(LeafOf(next)))
  /\ at' = at + 1
  /\ UNCHANGED <<stack, oom>>

\* No memory for it.  Most constructors write to what malloc returned before
\* they, or anyone, looks at it: then the program stops, or the write does no
\* harm (address 0 is memory on some microcontrollers) and NULL is returned.
LeafOutOfMemory ==
  /\ pc = "value" /\ indent <= CORECONF_MAX_DEPTH
  /\ IsLeaf(next)
  /\ oom' = Noticed
  /\ ReturnNULL

\* Anything else: a break, a simple value, an integer that is too large.
Unsupported ==
  /\ pc = "value" /\ indent <= CORECONF_MAX_DEPTH
  /\ ~IsLeaf(next)
  /\ next.major \notin {"ARRAY", "MAP", "TAG"} \/ (next.major = "TAG" /\ next.arg > 2 * Largest[32] + 1)
  /\ ReturnNULL /\ UNCHANGED oom

\* nanocbor_get_tag reads 32 bits, although a tag's number has 64 here.
EnterTag ==
  /\ pc = "value" /\ indent <= CORECONF_MAX_DEPTH
  /\ next.major = "TAG" /\ next.arg <= 2 * Largest[32] + 1
  /\ stack' = Append(stack, Frame("TAG", NULL, 1, 0))
  /\ at' = at + 1
  /\ UNCHANGED <<pc, src, todo, buf, ret, heap, dropped, oom>>

TagReturns ==
  /\ pc = "return" /\ stack # <<>> /\ top.kind = "TAG" /\ ret # NULL
  /\ LET tag == [cell |-> Cell("TAG", 0, buf[top.id].arg), id |-> top.id]
         t == [p \in {<<>>} \cup DOMAIN Under(Content, ret) |->
                 IF p = <<>> THEN tag ELSE Under(Content, ret)[p]]
     IN Return(t) /\ heap' = heap \cup BlocksAt(t, <<>>)
  /\ stack' = Front(stack)
  /\ UNCHANGED <<at, oom>>

\* Mutant: what the tag was to hold is not freed.
TagOutOfMemoryLoses ==
  /\ pc = "return" /\ stack # <<>> /\ top.kind = "TAG" /\ ret # NULL
  /\ Return(NULL)
  /\ stack' = Front(stack) /\ oom' = Noticed
  /\ UNCHANGED <<at, heap>>

\* No memory for the tag: what it was to hold is freed.
TagOutOfMemory ==
  /\ pc = "return" /\ stack # <<>> /\ top.kind = "TAG" /\ ret # NULL
  /\ Return(NULL) /\ heap' = heap \ Blocks(ret)
  /\ stack' = Front(stack) /\ oom' = Noticed
  /\ UNCHANGED at

-----------------------------------------------------------------------------
(* parseArray and parseMap *)

\* A definite array says its length up front: its elements are allocated at
\* once, unless there are more than the input has bytes.
TooLong == next.major = "ARRAY" /\ next.arg > Len(buf) - at

Room == IF next.major = "ARRAY" /\ next.arg > 0 THEN next.arg ELSE 0

Enter ==
  /\ pc = "value" /\ indent <= CORECONF_MAX_DEPTH
  /\ next.major \in {"ARRAY", "MAP"} /\ ~TooLong
  /\ LET f == Frame(next.major, Single(Cell(next.major, 0, 0)), next.arg, Room)
     IN stack' = Append(stack, f) /\ heap' = heap \cup FrameBlocks(f)
  /\ pc' = "loop" /\ at' = at + 1
  /\ UNCHANGED <<src, todo, buf, ret, dropped, oom>>

\* What was made of it is freed again.
EnterFails ==
  /\ pc = "value" /\ indent <= CORECONF_MAX_DEPTH
  /\ \/ TooLong /\ UNCHANGED oom
     \/ next.major = "ARRAY" /\ Room > 0 /\ oom' = Noticed
  /\ ReturnNULL

\* The container itself is not checked for NULL before it is used.
Halt ==
  /\ pc = "value" /\ indent <= CORECONF_MAX_DEPTH
  /\ next.major \in {"ARRAY", "MAP"} \/ (IsLeaf(next) /\ next.major \notin {"STRING", "BYTES", "NULL"})
  /\ pc' = "halted" /\ oom' = Noticed
  /\ UNCHANGED <<src, todo, buf, at, stack, ret, heap, dropped>>

\* External: nanocbor_at_end is also true where the input ends, and there
\* nanocbor_leave_container succeeds: what came of a container is returned.
AtEnd == at > Len(buf) \/ IF top.left = INDEFINITE THEN next = Break ELSE top.left = 0

Leave ==
  /\ pc = "loop" /\ AtEnd
  /\ Return(top.tree)
  /\ at' = IF at <= Len(buf) /\ top.left = INDEFINITE THEN at + 1 ELSE at
  /\ stack' = Front(stack)
  /\ UNCHANGED <<heap, oom>>

NextElement ==
  /\ pc = "loop" /\ top.kind = "ARRAY" /\ ~AtEnd
  /\ pc' = "value"
  /\ UNCHANGED <<src, todo, buf, at, stack, ret, heap, dropped, oom>>

\* Mutant: one entry less.
MapIsFullEarly == top.loopCount >= CORECONF_MAX_LOOP

MapIsFull == top.loopCount > CORECONF_MAX_LOOP

NextEntry ==
  /\ pc = "loop" /\ top.kind = "MAP" /\ ~AtEnd
  /\ ~MapIsFull /\ next.major = "UINT"
  /\ stack' = [stack EXCEPT ![indent].key = next.arg]
  /\ pc' = "value" /\ at' = at + 1
  /\ UNCHANGED <<src, todo, buf, ret, heap, dropped, oom>>

\* The frame's call returns NULL and frees the container with all it holds.
Fail ==
  /\ Return(NULL)
  /\ heap' = IF top.kind = "TAG" THEN heap ELSE heap \ FrameBlocks(top)
  /\ stack' = Front(stack)
  /\ UNCHANGED <<at, oom>>

\* Mutant: tries the next item.
MapFailsLater ==
  /\ pc = "loop" /\ top.kind = "MAP" /\ ~AtEnd
  /\ (MapIsFull /\ Fail) \/ (next.major # "UINT" /\ UNCHANGED vars)

MapFails ==
  /\ pc = "loop" /\ top.kind = "MAP" /\ ~AtEnd
  /\ MapIsFull \/ next.major # "UINT"
  /\ Fail

\* A NULL inside a container or a tag fails the whole value.
NULLInside ==
  /\ pc = "return" /\ stack # <<>> /\ ret = NULL
  /\ Fail

Continue(f) ==
  /\ stack' = [stack EXCEPT ![indent] =
                 [f EXCEPT !.left = IF @ = INDEFINITE THEN @ ELSE @ - 1]]
  /\ pc' = "loop"
  /\ UNCHANGED <<src, todo, buf, at, ret>>

\* The array holds a copy of the struct, which is freed.  An array of
\* indefinite length grows first.
AddElement ==
  /\ pc = "return" /\ stack # <<>> /\ top.kind = "ARRAY" /\ ret # NULL
  /\ LET size == top.tree[<<>>].cell.val + 1
         element == Under(Elem(size), ret)
         grown == [p \in DOMAIN top.tree \cup DOMAIN element |->
                     IF p = <<>> THEN [top.tree[p] EXCEPT !.cell.val = size]
                     ELSE IF p \in DOMAIN element THEN element[p] ELSE top.tree[p]]
         f == [top EXCEPT !.tree = grown, !.room = IF size > @ THEN size ELSE @]
     IN /\ Continue(f)
        /\ heap' = (heap \cup FrameBlocks(f)) \ {<<"value", ret[<<>>].id>>}
  /\ UNCHANGED <<dropped, oom>>

\* It cannot grow, and the loop goes on: the struct is freed, what the value
\* holds is not.
ElementDropped ==
  /\ pc = "return" /\ stack # <<>> /\ top.kind = "ARRAY" /\ ret # NULL
  /\ top.tree[<<>>].cell.val + 1 > top.room
  /\ Continue(top)
  /\ heap' = heap \ {<<"value", ret[<<>>].id>>}
  /\ dropped' = dropped \cup (Blocks(ret) \ {<<"value", ret[<<>>].id>>})
  /\ oom' = "ignored"

\* insertCoreconfHashMap compares CORECONF_MAX_LOOP + 1 objects of the bucket.
\* Which place a key that is there has among them depends on the order the
\* entries came in.
Replaces == <<Key(top.key)>> \in DOMAIN top.tree
OthersInBucket ==
  Cardinality({p \in DOMAIN top.tree : Len(p) = 1 /\ p # <<Key(top.key)>>
                                       /\ Bucket[p[1][2]] = Bucket[top.key]})

\* Mutant: the entry that is replaced is not freed.
AddEntryKeeps ==
  /\ pc = "return" /\ stack # <<>> /\ top.kind = "MAP" /\ ret # NULL
  /\ LET entry == Under(Key(top.key), ret)
         map == [p \in DOMAIN top.tree \cup DOMAIN entry |->
                   IF p \in DOMAIN entry THEN entry[p] ELSE top.tree[p]]
     IN /\ Continue([top EXCEPT !.tree = map, !.loopCount = @ + 1])
        /\ heap' = heap \cup Blocks(map)
  /\ UNCHANGED <<dropped, oom>>

\* An entry with the key is replaced and freed.
AddEntry ==
  /\ pc = "return" /\ stack # <<>> /\ top.kind = "MAP" /\ ret # NULL
  /\ Replaces \/ OthersInBucket <= CORECONF_MAX_LOOP + 1
  /\ LET entry == Under(Key(top.key), ret)
         kept == {p \in DOMAIN top.tree : p = <<>> \/ p[1] # Key(top.key)}
         size == Cardinality({p \in kept : Len(p) = 1}) + 1
         map == [p \in kept \cup DOMAIN entry |->
                   IF p = <<>> THEN [top.tree[p] EXCEPT !.cell.val = size]
                   ELSE IF p \in kept THEN top.tree[p] ELSE entry[p]]
     IN /\ Continue([top EXCEPT !.tree = map, !.loopCount = @ + 1])
        /\ heap' = (heap \ Blocks(top.tree)) \cup Blocks(map)
  /\ UNCHANGED <<dropped, oom>>

\* It says -1, which parseMap does not look at: no memory for the object, or a
\* bucket it gives up on, and then the object is lost too.
EntryDropped ==
  /\ pc = "return" /\ stack # <<>> /\ top.kind = "MAP" /\ ret # NULL
  /\ LET givesUp == OthersInBucket + (IF Replaces THEN 1 ELSE 0) > CORECONF_MAX_LOOP + 1
         object == {<<"object", ret[<<>>].id>>}
     IN /\ oom' \in IF givesUp THEN {oom, "ignored"} ELSE {"ignored"}
        /\ dropped' = dropped \cup Blocks(ret) \cup IF givesUp THEN object ELSE {}
        /\ heap' = heap \cup IF givesUp THEN object ELSE {}
  /\ Continue([top EXCEPT !.loopCount = @ + 1])

-----------------------------------------------------------------------------
\* The caller frees the value; a program that stopped is started again.
Done ==
  /\ (pc = "return" /\ stack = <<>>) \/ pc = "halted"
  /\ pc' = "idle" /\ src' = NULL /\ buf' = <<>> /\ at' = 1 /\ stack' = <<>> /\ ret' = NULL
  /\ heap' = {} /\ dropped' = {} /\ oom' = "no"
  /\ UNCHANGED todo

Init ==
  /\ pc = "idle" /\ src = NULL /\ todo = <<>> /\ buf = <<>> /\ at = 1 /\ stack = <<>>
  /\ ret = NULL /\ heap = {} /\ dropped = {} /\ oom = "no"

Client ==
  \/ \E v \in Values : Encode(v) \/ PeerEncodes(v)
  \/ \E items \in Malformed : Receive(items)
  \/ StartDecoding \/ Done

Step ==
  \/ EncodeStep \/ EncodeFails \/ EncodeReturns \/ PeerStep \/ PeerReturns
  \/ TooDeep \/ DecodeLeaf \/ LeafOutOfMemory \/ Unsupported
  \/ EnterTag \/ TagReturns \/ TagOutOfMemory \/ Enter \/ EnterFails \/ Halt
  \/ Leave \/ NextElement \/ NextEntry \/ MapFails \/ NULLInside
  \/ AddElement \/ ElementDropped \/ AddEntry \/ EntryDropped

\* One thread: a call that was begun goes on.
Spec == Init /\ [][Client \/ Step]_vars /\ WF_vars(Step)

-----------------------------------------------------------------------------
(* The check a generated write handler makes of a leaf of YANG type        *)
(* `member`, and of a union.                                               *)

memberCheck(member, c) ==
  CASE member \in {"uint8", "uint16", "uint32", "uint64", "identityref"} -> c.type = "UINT"
    [] member \in {"int8", "int16", "int32", "int64"} -> c.type = "INT"
    [] member = "boolean" -> c.type \in {"TRUE", "FALSE"}
    [] member = "binary" -> c.type = "BYTES"
    [] member = "string" -> c.type = "STRING"
    [] member = "decimal64" -> c.type = "REAL"
    [] OTHER -> c.type \notin {"MAP", "ARRAY"}
unionTypeCheck(members, c) == \E member \in members : memberCheck(member, c)

-----------------------------------------------------------------------------
(* Properties *)

\* All memory the call has allocated is in the value it returned last, in a
\* container that is being filled, or in a value that was dropped; and no block
\* is in two of them, so that none is freed twice.
TypeOK ==
  /\ at \in 1 .. Len(buf) + 1 /\ indent <= CORECONF_MAX_DEPTH + 1
  /\ \A p \in DOMAIN ret : ret[p].cell \in Cells
  /\ LET owners == <<Blocks(IF pc = "return" THEN ret ELSE NULL), dropped>>
                     \o [i \in DOMAIN stack |-> FrameBlocks(stack[i])]
     IN /\ heap = UNION {owners[i] : i \in DOMAIN owners}
        /\ \A i, j \in DOMAIN owners : i # j => owners[i] \cap owners[j] = {}

Returned == pc = "return" /\ stack = <<>>

\* What CBOR keeps of a value: integers have no width, and no sign if they are
\* not negative.
Normal(v) ==
  [p \in DOMAIN v |->
     IF v[p].type \notin {"UINT", "INT"} THEN v[p]
     ELSE IF v[p].val >= 0 THEN Cell("UINT", UintWidth(v[p].val), v[p].val)
     ELSE Cell("INT", IntWidth(v[p].val), v[p].val)]

WithinLimits(v) ==
  \A p \in DOMAIN v : /\ Len(p) <= CORECONF_MAX_DEPTH
                      /\ v[p].type = "MAP" => v[p].val <= CORECONF_MAX_LOOP + 1
                      /\ v[p].type = "TAG" => v[p].val <= 2 * Largest[32] + 1

\* Whatever coreconfToCBOR says 0 to (README.md:194: "Encode the whole model to
\* CORECONF CBOR"), in whatever order the entries of its maps came, is read
\* back as the same value, and as NULL if it is too deep, a map has too many
\* entries or a tag a large number: never as a part of it, even where memory
\* runs out, unless it does so in an append or an insert.  Another encoder's
\* indefinite lengths make no difference.
RoundTrip ==
  Returned /\ src # NULL /\ oom # "ignored" =>
    IF ret # NULL THEN [p \in DOMAIN ret |-> ret[p].cell] = Normal(src) /\ WithinLimits(src)
    ELSE oom = "noticed" \/ ~WithinLimits(src)

\* A call that returns NULL, wherever it gave up, has freed all it had made,
\* and one that returns a value has made nothing else: the limits of parseMap
\* come before those of insertCoreconfHashMap.  Only an append or an insert
\* for which memory runs out loses something.
NothingLost ==
  Returned /\ oom # "ignored" => heap = Blocks(ret)

\* Malformed, too deep or too large, every call returns (or stops the program).
Calling == pc \in {"encode", "peer", "value", "loop"} \/ (pc = "return" /\ stack # <<>>)
CallReturns == Calling ~> ~Calling
=============================================================================
