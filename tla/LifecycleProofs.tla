--------------------------- MODULE LifecycleProofs ---------------------------
(***************************************************************************)
(* No block of a model is freed twice or reached after it was freed, for   *)
(* every descriptor and every allocation that fails.  The lemmas speak of  *)
(* accounts: the owners o of blocks, the heap h, the lost blocks l and the *)
(* number c of allocations.                                                *)
(*                                                                         *)
(* From "What has been built" on: as long as no list and no set ran out of *)
(* memory, the first entries of its source are in the table under way, and *)
(* no step loses a block unless a keymap was malformed.                    *)
(***************************************************************************)
EXTENDS ModelLifecycle, SeqLemmas, TLAPS

-----------------------------------------------------------------------------
(* Accounts *)

SingleOwner(o) == \A p, q \in o : p[2] = q[2] => p = q

Accounts(o, h, l, c) ==
  /\ h = BlocksOf(o) \cup l /\ BlocksOf(o) \cap l = {}
  /\ SingleOwner(o)
  /\ c \in Nat /\ h \subseteq 1 .. c

\* A new block gets an owner.
LEMMA Acquire ==
  ASSUME NEW o, NEW h, NEW l, NEW c, Accounts(o, h, l, c), NEW place
  PROVE  Accounts(o \cup {<<place, c + 1>>}, h \cup {c + 1}, l, c + 1)
<1> DEFINE p == <<place, c + 1>>
<1>1. c + 1 \notin h /\ c + 1 \in Nat /\ h \cup {c + 1} \subseteq 1 .. c + 1
  BY DEF Accounts
<1>2. p[2] = c + 1
  OBVIOUS
<1> HIDE DEF p
<1>3. BlocksOf(o \cup {p}) = BlocksOf(o) \cup {c + 1}
  BY <1>2 DEF BlocksOf
<1>4. BlocksOf(o \cup {p}) \cap l = {}
  BY <1>1, <1>3 DEF Accounts
<1>5. SingleOwner(o \cup {p})
  BY <1>1, <1>2 DEF Accounts, SingleOwner, BlocksOf
<1>6. h \cup {c + 1} = BlocksOf(o \cup {p}) \cup l
  BY <1>3 DEF Accounts
<1> QED  BY <1>1, <1>4, <1>5, <1>6 DEF Accounts, p

\* What only part of the owners keep: the other blocks are r, but for 0.
Leaves(o, kept, r) ==
  /\ kept \subseteq o
  /\ BlocksOf(o \ kept) \subseteq r /\ r \subseteq BlocksOf(o \ kept) \cup {0}

\* No block of an owner that goes is a block of one that stays.
LEMMA Apart ==
  ASSUME NEW o, NEW h, NEW l, NEW c, Accounts(o, h, l, c),
         NEW kept, NEW r, Leaves(o, kept, r)
  PROVE  /\ BlocksOf(o) = BlocksOf(kept) \cup BlocksOf(o \ kept)
         /\ BlocksOf(kept) \cap BlocksOf(o \ kept) = {}
         /\ 0 \notin h /\ SingleOwner(kept)
<1>1. BlocksOf(o) = BlocksOf(kept) \cup BlocksOf(o \ kept)
  BY DEF Leaves, BlocksOf
<1>2. BlocksOf(kept) \cap BlocksOf(o \ kept) = {}
  BY DEF Leaves, BlocksOf, Accounts, SingleOwner
<1>3. 0 \notin h
  BY DEF Accounts
<1>4. SingleOwner(kept)
  BY DEF Leaves, Accounts, SingleOwner
<1> QED  BY <1>1, <1>2, <1>3, <1>4

\* They are freed.
LEMMA Free ==
  ASSUME NEW o, NEW h, NEW l, NEW c, Accounts(o, h, l, c),
         NEW kept, NEW r, Leaves(o, kept, r)
  PROVE  Accounts(kept, h \ r, l, c)
<1>1. /\ BlocksOf(o) = BlocksOf(kept) \cup BlocksOf(o \ kept)
      /\ BlocksOf(kept) \cap BlocksOf(o \ kept) = {}
      /\ 0 \notin h /\ SingleOwner(kept)
  BY Apart
<1>2. BlocksOf(kept) \cap l = {} /\ BlocksOf(o \ kept) \cap l = {}
  BY <1>1 DEF Accounts
<1>3. 0 \notin BlocksOf(kept) /\ 0 \notin l
  BY <1>1 DEF Accounts
<1>4. h \ r = BlocksOf(kept) \cup l
  BY <1>1, <1>2, <1>3 DEF Accounts, Leaves
<1> QED  BY <1>1, <1>2, <1>4 DEF Accounts

\* They are lost.
LEMMA Lose ==
  ASSUME NEW o, NEW h, NEW l, NEW c, Accounts(o, h, l, c),
         NEW kept, NEW r, Leaves(o, kept, r), 0 \notin r
  PROVE  Accounts(kept, h, l \cup r, c)
<1>1. /\ BlocksOf(o) = BlocksOf(kept) \cup BlocksOf(o \ kept)
      /\ BlocksOf(kept) \cap BlocksOf(o \ kept) = {}
      /\ 0 \notin h /\ SingleOwner(kept)
  BY Apart
<1>2. r = BlocksOf(o \ kept)
  BY DEF Leaves
<1>3. h = BlocksOf(kept) \cup (l \cup r) /\ BlocksOf(kept) \cap (l \cup r) = {}
  BY <1>1, <1>2 DEF Accounts
<1> QED  BY <1>1, <1>3 DEF Accounts

LEMMA InList ==
  ASSUME NEW n, NEW x, NEW m, NEW o
  PROVE  o \in ListOwners(n, x, m) <=> \/ m.id # 0 /\ o = <<<<n, x, "list">>, m.id>>
                                       \/ m.buffer # 0 /\ o = <<<<n, x, "longs">>, m.buffer>>
BY DEF ListOwners, Pointer

LEMMA BlocksOfList ==
  ASSUME NEW n, NEW x, NEW m
  PROVE  BlocksOf(ListOwners(n, x, m)) = ListBlocks(m)
<1>1. ASSUME NEW b \in ListBlocks(m)
      PROVE  b \in BlocksOf(ListOwners(n, x, m))
  <2>1. CASE b = m.id
    <3>1. <<<<n, x, "list">>, m.id>> \in ListOwners(n, x, m)
      BY <1>1, <2>1, InList DEF ListBlocks
    <3> QED  BY <2>1, <3>1 DEF BlocksOf
  <2>2. CASE b = m.buffer
    <3>1. <<<<n, x, "longs">>, m.buffer>> \in ListOwners(n, x, m)
      BY <1>1, <2>2, InList DEF ListBlocks
    <3> QED  BY <2>2, <3>1 DEF BlocksOf
  <2> QED  BY <1>1, <2>1, <2>2 DEF ListBlocks
<1>2. ASSUME NEW o \in ListOwners(n, x, m)
      PROVE  o[2] \in ListBlocks(m)
  BY <1>2, InList DEF ListBlocks
<1> QED  BY <1>1, <1>2 DEF BlocksOf

\* The owners of a list move to another place.
LEMMA Move ==
  ASSUME NEW rest, NEW m, NEW n, NEW t, NEW x, NEW y, NEW h, NEW l, NEW c,
         rest \cap ListOwners(n, x, m) = {},
         Accounts(rest \cup ListOwners(n, x, m), h, l, c)
  PROVE  Accounts(rest \cup ListOwners(t, y, m), h, l, c)
<1> DEFINE old == ListOwners(n, x, m)
           new == ListOwners(t, y, m)
<1>1. BlocksOf(old) = ListBlocks(m) /\ BlocksOf(new) = ListBlocks(m)
  BY BlocksOfList
<1>2. SingleOwner(new)
  <2>1. SingleOwner(old)
    BY DEF Accounts, SingleOwner
  <2>2. m.id # 0 /\ m.buffer # 0 => m.id # m.buffer
    <3>1. SUFFICES ASSUME m.id # 0, m.buffer # 0, m.id = m.buffer
                   PROVE  FALSE
      OBVIOUS
    <3>2. <<<<n, x, "list">>, m.id>> \in old /\ <<<<n, x, "longs">>, m.buffer>> \in old
      BY <3>1, InList
    <3>3. <<<<n, x, "list">>, m.id>> = <<<<n, x, "longs">>, m.buffer>>
      BY <2>1, <3>1, <3>2 DEF SingleOwner
    <3> QED  BY <3>3
  <2> QED  BY <2>2, InList DEF SingleOwner
<1> HIDE DEF old, new
<1>3. BlocksOf(rest \cup old) = BlocksOf(rest \cup new)
  BY <1>1 DEF BlocksOf
<1>4. ASSUME NEW p \in rest, NEW q \in new
      PROVE  p[2] # q[2]
  <2>1. PICK o \in old : o[2] = q[2]
    <3>1. q[2] \in BlocksOf(old)
      BY <1>1 DEF BlocksOf
    <3> QED  BY <3>1 DEF BlocksOf
  <2>2. p # o
    BY DEF old
  <2> QED  BY <2>1, <2>2 DEF Accounts, SingleOwner, old
<1>5. SingleOwner(rest)
  BY DEF Accounts, SingleOwner
<1>6. SingleOwner(rest \cup new)
  BY <1>2, <1>4, <1>5 DEF SingleOwner
<1> QED  BY <1>3, <1>6 DEF Accounts, old, new

-----------------------------------------------------------------------------
(* Tables *)

LEMMA InPointer ==
  ASSUME NEW n, NEW x, NEW part, NEW b, NEW o
  PROVE  o \in Pointer(n, x, part, b) <=> b # 0 /\ o = <<<<n, x, part>>, b>>
BY DEF Pointer

LEMMA InTable ==
  ASSUME NEW n, NEW t, NEW o
  PROVE  o \in TableOwners(n, t) <=>
           \/ o \in Pointer(n, 0, "table", t.id)
           \/ \E sid \in DOMAIN t.items : o \in ListOwners(n, sid, t.items[sid])
BY DEF TableOwners

\* A table's pointers bear its name.
LEMMA Places ==
  ASSUME NEW n
  PROVE  /\ \A x, part, b : \A o \in Pointer(n, x, part, b) : o[1][1] = n
         /\ \A x, m : \A o \in ListOwners(n, x, m) : o[1][1] = n
         /\ \A t : \A o \in TableOwners(n, t) : o[1][1] = n
<1>1. \A x, part, b : \A o \in Pointer(n, x, part, b) : o[1][1] = n
  BY InPointer
<1>2. \A x, m : \A o \in ListOwners(n, x, m) : o[1][1] = n
  BY InList
<1>3. \A t : \A o \in TableOwners(n, t) : o[1][1] = n
  BY <1>1, <1>2, InTable
<1> QED  BY <1>1, <1>2, <1>3

\* The table u is t with the list m put under k.
Put(u, t, k, m) ==
  /\ u.id = t.id /\ DOMAIN u.items = DOMAIN t.items \cup {k}
  /\ u.items[k] = m /\ \A sid \in DOMAIN t.items \ {k} : u.items[sid] = t.items[sid]

Replaced(n, t, k) == IF k \in DOMAIN t.items THEN ListOwners(n, k, t.items[k]) ELSE {}

LEMMA PutOwners ==
  ASSUME NEW n, NEW u, NEW t, NEW k, NEW m, Put(u, t, k, m)
  PROVE  /\ Replaced(n, t, k) \subseteq TableOwners(n, t)
         /\ TableOwners(n, u) = (TableOwners(n, t) \ Replaced(n, t, k)) \cup ListOwners(n, k, m)
         /\ (TableOwners(n, t) \ Replaced(n, t, k)) \cap ListOwners(n, k, m) = {}
<1>1. Replaced(n, t, k) \subseteq TableOwners(n, t)
  BY InTable DEF Replaced
<1>2. ASSUME NEW sid \in DOMAIN t.items, sid # k, NEW o \in ListOwners(n, sid, t.items[sid])
      PROVE  o \notin Replaced(n, t, k) /\ o \notin ListOwners(n, k, m)
  BY <1>2, InList DEF Replaced
<1>3. ASSUME NEW o \in Pointer(n, 0, "table", t.id)
      PROVE  o \notin Replaced(n, t, k) /\ o \notin ListOwners(n, k, m)
  BY InPointer, InList DEF Replaced
<1>4. ASSUME NEW o \in TableOwners(n, u)
      PROVE  o \in (TableOwners(n, t) \ Replaced(n, t, k)) \cup ListOwners(n, k, m)
  <2>1. CASE o \in Pointer(n, 0, "table", u.id)
    BY <1>3, <2>1, InTable DEF Put
  <2>2. ASSUME NEW sid \in DOMAIN u.items, o \in ListOwners(n, sid, u.items[sid])
        PROVE  o \in (TableOwners(n, t) \ Replaced(n, t, k)) \cup ListOwners(n, k, m)
    <3>1. CASE sid = k
      BY <2>2, <3>1 DEF Put
    <3>2. CASE sid # k
      <4>1. sid \in DOMAIN t.items /\ u.items[sid] = t.items[sid]
        BY <3>2 DEF Put
      <4> QED  BY <1>2, <2>2, <3>2, <4>1, InTable
    <3> QED  BY <3>1, <3>2
  <2> QED  BY <2>1, <2>2, InTable
<1>5. ASSUME NEW o \in TableOwners(n, t), o \notin Replaced(n, t, k)
      PROVE  o \in TableOwners(n, u)
  <2>1. CASE o \in Pointer(n, 0, "table", t.id)
    BY <2>1, InTable DEF Put
  <2>2. ASSUME NEW sid \in DOMAIN t.items, o \in ListOwners(n, sid, t.items[sid])
        PROVE  o \in TableOwners(n, u)
    <3>1. sid # k
      BY <1>5, <2>2 DEF Replaced
    <3>2. sid \in DOMAIN u.items /\ u.items[sid] = t.items[sid]
      BY <3>1 DEF Put
    <3> QED  BY <2>2, <3>2, InTable
  <2> QED  BY <2>1, <2>2, InTable
<1>6. ListOwners(n, k, m) \subseteq TableOwners(n, u)
  BY InTable DEF Put
<1>7. (TableOwners(n, t) \ Replaced(n, t, k)) \cap ListOwners(n, k, m) = {}
  <2>1. SUFFICES ASSUME NEW o \in TableOwners(n, t), o \notin Replaced(n, t, k)
                 PROVE  o \notin ListOwners(n, k, m)
    OBVIOUS
  <2>2. CASE o \in Pointer(n, 0, "table", t.id)
    BY <1>3, <2>2
  <2>3. ASSUME NEW sid \in DOMAIN t.items, o \in ListOwners(n, sid, t.items[sid])
        PROVE  o \notin ListOwners(n, k, m)
    <3>1. CASE sid = k
      BY <2>1, <2>3, <3>1 DEF Replaced
    <3>2. CASE sid # k
      BY <1>2, <2>3, <3>2
    <3> QED  BY <3>1, <3>2
  <2> QED  BY <2>2, <2>3, InTable
<1> QED  BY <1>1, <1>4, <1>5, <1>6, <1>7

\* Tables without lists.
LEMMA EmptyTable ==
  ASSUME NEW n
  PROVE  /\ TableOwners(n, NoTable) = {}
         /\ \A t : t.items = <<>> => TableOwners(n, t) = Pointer(n, 0, "table", t.id)
<1>1. DOMAIN <<>> = {}
  OBVIOUS
<1>2. ASSUME NEW t, t.items = <<>>
      PROVE  TableOwners(n, t) = Pointer(n, 0, "table", t.id)
  <2>1. \A o : o \in TableOwners(n, t) <=> o \in Pointer(n, 0, "table", t.id)
    BY <1>1, <1>2, InTable
  <2> QED  BY <2>1
<1>3. Pointer(n, 0, "table", 0) = {}
  BY InPointer
<1> QED  BY <1>2, <1>3 DEF NoTable

LEMMA NoListOwners ==
  ASSUME NEW n, NEW x
  PROVE  ListOwners(n, x, NoList) = {}
BY InList DEF NoList

-----------------------------------------------------------------------------
(* The blocks of a model *)

LEMMA BlocksOfUnion ==
  ASSUME NEW o, NEW p
  PROVE  BlocksOf(o \cup p) = BlocksOf(o) \cup BlocksOf(p)
BY DEF BlocksOf

LEMMA BlocksOfPointer ==
  ASSUME NEW n, NEW x, NEW part, NEW b
  PROVE  BlocksOf(Pointer(n, x, part, b)) = {b} \ {0}
<1>1. CASE b = 0
  BY <1>1 DEF BlocksOf, Pointer
<1>2. CASE b # 0
  <2>1. Pointer(n, x, part, b) = {<<<<n, x, part>>, b>>}
    BY <1>2 DEF Pointer
  <2>2. <<<<n, x, part>>, b>>[2] = b
    OBVIOUS
  <2> QED  BY <1>2, <2>1, <2>2 DEF BlocksOf
<1> QED  BY <1>1, <1>2

LEMMA AllBlocks ==
  BlocksOf(Owners) = ({model, root, identifierSID.id, SIDIdentifier.id, handlers} \ {0})
                     \cup keymapBlocks \cup clookupBlocks \cup ListBlocks(list)
<1> DEFINE a == Pointer("model", 0, "block", model)
           b == Pointer("root", 0, "block", root)
           c == TableOwners("keymap", keymap)
           d == TableOwners("clookup", clookup)
           e == Pointer("identifierSID", 0, "table", identifierSID.id)
           f == Pointer("SIDIdentifier", 0, "table", SIDIdentifier.id)
           g == Pointer("handlers", 0, "table", handlers)
           h == ListOwners("new", 0, list)
<1>1. Owners = a \cup b \cup c \cup d \cup e \cup f \cup g \cup h
  BY DEF Owners
<1>2. /\ BlocksOf(a) = {model} \ {0} /\ BlocksOf(b) = {root} \ {0}
      /\ BlocksOf(c) = keymapBlocks /\ BlocksOf(d) = clookupBlocks
      /\ BlocksOf(e) = {identifierSID.id} \ {0} /\ BlocksOf(f) = {SIDIdentifier.id} \ {0}
      /\ BlocksOf(g) = {handlers} \ {0} /\ BlocksOf(h) = ListBlocks(list)
  BY BlocksOfPointer, BlocksOfList DEF keymapBlocks, clookupBlocks
<1> HIDE DEF a, b, c, d, e, f, g, h
<1>3. BlocksOf(Owners) = BlocksOf(a) \cup BlocksOf(b) \cup BlocksOf(c) \cup BlocksOf(d)
                         \cup BlocksOf(e) \cup BlocksOf(f) \cup BlocksOf(g) \cup BlocksOf(h)
  BY <1>1 DEF BlocksOf
<1> QED  BY <1>2, <1>3

-----------------------------------------------------------------------------
(* The invariant *)

IsList(l) == l = [id |-> l.id, buffer |-> l.buffer, longs |-> l.longs]
IsTable(t) ==
  /\ t = [id |-> t.id, items |-> t.items]
  /\ \A sid \in DOMAIN t.items : IsList(t.items[sid])

Shapes ==
  /\ IsTable(keymap) /\ IsTable(clookup) /\ IsList(list)
  /\ build = [into |-> build.into, how |-> build.how, after |-> build.after,
              entries |-> build.entries, left |-> build.left, loopCounter |-> build.loopCounter]

\* What a load has not come to yet is not there.
Unnamed == identifierSID = NoTable /\ SIDIdentifier = NoTable /\ handlers = 0
NoTables == keymap = NoTable /\ clookup = NoTable /\ Unnamed

BuildOK ==
  \/ /\ build.into = "keymap" /\ build.after = "clookup" /\ build.how \in {"static", "cbor"}
     /\ clookup = NoTable /\ Unnamed
  \/ /\ build.into = "clookup" /\ build.after = "identifierSID" /\ build.how \in {"static", "walk"}
     /\ Unnamed
  \/ build.into = "clookup" /\ build.after = "idle" /\ build.how = "walk"

Progress ==
  /\ pc = "idle" /\ model = 0 => root = 0 /\ NoTables
  /\ pc \notin {"idle", "halted"} => model # 0
  /\ pc = "root" => root = 0
  /\ pc \in {"root", "keymap"} => NoTables
  /\ pc \in {"root", "keymap", "clookup"} => desc \in Descs
  /\ pc = "clookup" => clookup = NoTable /\ Unnamed
  /\ pc = "identifierSID" => Unnamed
  /\ pc = "SIDIdentifier" => SIDIdentifier = NoTable /\ handlers = 0
  /\ pc = "entries" => BuildOK /\ (build.into = "keymap" => desc \in Descs)
  /\ list # NoList => pc \in {"entries", "halted"} /\ build.entries # <<>>

Accounted == Accounts(Owners, heap, lost, count)

IInv == Accounted /\ Shapes /\ Progress

-----------------------------------------------------------------------------
(* The accounts, action by action: allocations of the model itself *)

LEMMA LoadAccounted ==
  ASSUME Accounted, Progress, NEW d, Load(d)
  PROVE  Accounted'
<1>1. count + 1 # 0
  BY DEF Accounted, Accounts
<1>2. Owners' = Owners \cup {<<<<"model", 0, "block">>, count + 1>>}
  BY <1>1 DEF Load, Owners, Pointer, tables, fresh
<1> QED  BY <1>2, Acquire DEF Accounted, Load, Allocate, fresh

LEMMA DecodeRootAccounted ==
  ASSUME Accounted, Progress, DecodeRoot
  PROVE  Accounted'
<1>1. count + 1 # 0
  BY DEF Accounted, Accounts
<1>2. Owners' = Owners \cup {<<<<"root", 0, "block">>, count + 1>>}
  BY <1>1 DEF DecodeRoot, Progress, Owners, Pointer, tables, fresh
<1> QED  BY <1>2, Acquire DEF Accounted, DecodeRoot, Allocate, fresh

LEMMA NewKeymapAccounted ==
  ASSUME Accounted, Progress, NewKeymap
  PROVE  Accounted'
<1>1. count + 1 # 0
  BY DEF Accounted, Accounts
<1>2. TableOwners("keymap", keymap) = {}
  BY EmptyTable DEF NewKeymap, Progress, NoTables
<1>3. TableOwners("keymap", keymap') = {<<<<"keymap", 0, "table">>, count + 1>>}
  BY <1>1, EmptyTable DEF NewKeymap, NewTable, fresh, Pointer
<1>4. Owners' = Owners \cup {<<<<"keymap", 0, "table">>, count + 1>>}
  BY <1>2, <1>3 DEF NewKeymap, Owners
<1> QED  BY <1>4, Acquire DEF Accounted, NewKeymap, Allocate, fresh

LEMMA NewTableOfParents ==
  ASSUME Accounted, clookup = NoTable, clookup' = NewTable, Allocate,
         UNCHANGED <<model, root, keymap, identifierSID, SIDIdentifier, handlers, list>>
  PROVE  Accounted'
<1>1. count + 1 # 0
  BY DEF Accounted, Accounts
<1>2. TableOwners("clookup", clookup) = {}
  BY EmptyTable
<1>3. TableOwners("clookup", clookup') = {<<<<"clookup", 0, "table">>, count + 1>>}
  BY <1>1, EmptyTable DEF NewTable, fresh, Pointer
<1>4. Owners' = Owners \cup {<<<<"clookup", 0, "table">>, count + 1>>}
  BY <1>2, <1>3 DEF Owners
<1> QED  BY <1>4, Acquire DEF Accounted, Allocate, fresh

LEMMA NewNamesAccounted ==
  ASSUME Accounted, Progress, BuildIdentifierSID \/ BuildSIDIdentifier
  PROVE  Accounted'
<1>1. count + 1 # 0
  BY DEF Accounted, Accounts
<1>2. CASE BuildIdentifierSID
  <2>1. identifierSID.id = 0 /\ identifierSID'.id = count + 1
    BY <1>2 DEF BuildIdentifierSID, Progress, Unnamed, NoTable, fresh
  <2>2. Owners' = Owners \cup {<<<<"identifierSID", 0, "table">>, count + 1>>}
    BY <1>1, <1>2, <2>1 DEF BuildIdentifierSID, Owners, Pointer
  <2> QED  BY <1>2, <2>2, Acquire DEF Accounted, BuildIdentifierSID, fresh
<1>3. CASE BuildSIDIdentifier
  <2>1. SIDIdentifier.id = 0 /\ SIDIdentifier'.id = count + 1
    BY <1>3 DEF BuildSIDIdentifier, Progress, NoTable, fresh
  <2>2. Owners' = Owners \cup {<<<<"SIDIdentifier", 0, "table">>, count + 1>>}
    BY <1>1, <1>3, <2>1 DEF BuildSIDIdentifier, Owners, Pointer
  <2> QED  BY <1>3, <2>2, Acquire DEF Accounted, BuildSIDIdentifier, fresh
<1> QED  BY <1>2, <1>3

LEMMA RegisterAccounted ==
  ASSUME Accounted, Register
  PROVE  Accounted'
<1>1. count + 1 # 0
  BY DEF Accounted, Accounts
<1>2. Owners' = Owners \cup {<<<<"handlers", 0, "table">>, count + 1>>}
  BY <1>1 DEF Register, Owners, Pointer, fresh
<1> QED  BY <1>2, Acquire DEF Accounted, Register, Allocate, fresh

-----------------------------------------------------------------------------
(* What is freed *)

\* Everything.
LEMMA FreeAll ==
  ASSUME Accounted, NEW r,
         BlocksOf(Owners) \subseteq r, r \subseteq BlocksOf(Owners) \cup {0}
  PROVE  Accounts({}, heap \ r, lost, count)
<1>1. Leaves(Owners, {}, r)
  BY DEF Leaves, BlocksOf
<1> QED  BY <1>1, Free DEF Accounted

\* No block is left.
LEMMA Nothing ==
  model = 0 /\ root = 0 /\ NoTables /\ list = NoList => Owners = {}
BY EmptyTable, NoListOwners, InPointer DEF NoTables, Unnamed, NoTable, Owners

LEMMA NoBlocks ==
  ASSUME NEW n
  PROVE  BlocksOf(TableOwners(n, NoTable)) = {} /\ ListBlocks(NoList) = {}
BY EmptyTable DEF BlocksOf, ListBlocks, NoList

LEMMA LoadFailsAccounted ==
  ASSUME Accounted, clookup = NoTable, Unnamed, list = NoList,
         LoadFails, UNCHANGED list, heap' = heap \ ({model, root} \cup keymapBlocks),
         UNCHANGED <<count, lost>>
  PROVE  Accounted'
<1> DEFINE r == {model, root} \cup keymapBlocks
<1>1. BlocksOf(Owners) = ({model, root} \ {0}) \cup keymapBlocks
  BY AllBlocks, NoBlocks DEF Unnamed, NoTable, clookupBlocks
<1>2. Accounts({}, heap \ r, lost, count)
  BY <1>1, FreeAll
<1>3. (model = 0 /\ root = 0 /\ NoTables /\ list = NoList => Owners = {})'
  BY Nothing, PTL
<1>4. Owners' = {}
  BY <1>3 DEF LoadFails, NoTables, Unnamed, NoTable, NoList
<1> QED  BY <1>2, <1>4 DEF Accounted

LEMMA FailuresAccounted ==
  ASSUME Accounted, Progress, RootFails \/ NewKeymapFails \/ NewClookupFails
  PROVE  Accounted'
<1>1. /\ clookup = NoTable /\ Unnamed /\ list = NoList
      /\ LoadFails /\ UNCHANGED <<list, count, lost>>
  BY DEF RootFails, NewKeymapFails, NewClookupFails, Progress, NoTables, Release
<1>2. heap \ ({model, root} \cup keymapBlocks) = heap'
  <2>1. CASE NewClookupFails
    BY <2>1 DEF NewClookupFails, Release
  <2>2. CASE RootFails \/ NewKeymapFails
    <3>1. keymap = NoTable /\ (RootFails => root = 0)
      BY <2>2 DEF RootFails, NewKeymapFails, Progress, NoTables
    <3>2. keymapBlocks = {}
      BY <3>1, NoBlocks DEF keymapBlocks
    <3>3. 0 \notin heap
      BY DEF Accounted, Accounts
    <3> QED  BY <2>2, <3>1, <3>2, <3>3 DEF RootFails, NewKeymapFails, Release
  <2> QED  BY <2>1, <2>2
<1> QED  BY <1>1, <1>2, LoadFailsAccounted

LEMMA CreateListFailsAccounted ==
  ASSUME Accounted, Progress, CreateListFails
  PROVE  Accounted'
<1>1. BuildOK /\ list = NoList /\ UNCHANGED list
  BY DEF CreateListFails, HasEntry, Progress
<1>2. CASE build.into = "keymap"
  BY <1>1, <1>2, LoadFailsAccounted DEF CreateListFails, BuildOK, Release
<1>3. CASE build.into = "clookup"
  <2>1. /\ clookup' = NoTable /\ Release(clookupBlocks)
        /\ UNCHANGED <<model, root, keymap, identifierSID, SIDIdentifier, handlers>>
    BY <1>3 DEF CreateListFails
  <2>2. TableOwners("clookup", clookup') = {}
    BY <2>1, EmptyTable
  <2> DEFINE freed == TableOwners("clookup", clookup)
             kept == Owners \ freed
  <2>3. freed \subseteq Owners
    BY DEF Owners
  <2>4. Owners' = kept
    <3>1. \A o \in freed : o[1][1] = "clookup"
      BY Places
    <3>2. \A o \in Owners' : o[1][1] # "clookup"
      BY <2>2, Places DEF Owners
    <3>3. Owners' \cup freed = Owners
      BY <1>1, <2>1, <2>2 DEF Owners
    <3> QED  BY <3>1, <3>2, <3>3
  <2>5. Owners \ kept = freed
    BY <2>3
  <2>6. Leaves(Owners, kept, clookupBlocks)
    BY <2>5 DEF Leaves, clookupBlocks
  <2> HIDE DEF freed, kept
  <2>7. Accounts(kept, heap \ clookupBlocks, lost, count)
    BY <2>6, Free DEF Accounted
  <2> QED  BY <2>1, <2>4, <2>7 DEF Accounted, Release
<1> QED  BY <1>1, <1>2, <1>3 DEF BuildOK

LEMMA KeymapFailsAccounted ==
  ASSUME Accounted, Progress, KeymapFails
  PROVE  Accounted'
<1>1. clookup = NoTable /\ Unnamed
  BY DEF KeymapFails, HasEntry, Progress, BuildOK
<1> DEFINE gone == TableOwners("keymap", keymap)
           kept == Owners \ gone
           r == {model, root} \cup ListBlocks(list)
<1>2. Owners \ kept = gone
  BY DEF Owners
<1>3. 0 \notin keymapBlocks
  BY AllBlocks DEF Accounted, Accounts
<1>4. Leaves(Owners, kept, keymapBlocks)
  BY <1>2 DEF Leaves, keymapBlocks
<1>5. BlocksOf(kept) = BlocksOf(Owners) \ keymapBlocks
  BY <1>2, <1>4, Apart DEF keymapBlocks, Accounted
<1>6. BlocksOf(Owners) = ({model, root} \ {0}) \cup keymapBlocks \cup ListBlocks(list)
  BY <1>1, AllBlocks, NoBlocks DEF Unnamed, NoTable, clookupBlocks
<1>7. keymapBlocks \cap ({model, root} \cup ListBlocks(list)) = {}
  <2> DEFINE others == Pointer("model", 0, "block", model) \cup Pointer("root", 0, "block", root)
                       \cup ListOwners("new", 0, list)
  <2>1. others \subseteq Owners /\ \A o \in others : o[1][1] # "keymap"
    BY Places DEF Owners
  <2>2. \A o \in gone : o[1][1] = "keymap"
    BY Places
  <2>3. others \subseteq kept
    BY <2>1, <2>2
  <2>4. BlocksOf(others) \subseteq BlocksOf(kept)
    BY <2>3 DEF BlocksOf
  <2>5. BlocksOf(others) = ({model, root} \ {0}) \cup ListBlocks(list)
    <3> DEFINE a == Pointer("model", 0, "block", model)
               b == Pointer("root", 0, "block", root)
               c == ListOwners("new", 0, list)
    <3>1. /\ BlocksOf(a) = {model} \ {0} /\ BlocksOf(b) = {root} \ {0}
          /\ BlocksOf(c) = ListBlocks(list)
      BY BlocksOfPointer, BlocksOfList
    <3>2. others = a \cup b \cup c
      OBVIOUS
    <3> HIDE DEF a, b, c, others
    <3>3. BlocksOf(others) = BlocksOf(a) \cup BlocksOf(b) \cup BlocksOf(c)
      BY <3>2 DEF BlocksOf
    <3> QED  BY <3>1, <3>3
  <2> QED  BY <1>3, <1>5, <2>4, <2>5
<1> HIDE DEF kept, gone
<1>8. Accounts(kept, heap, lost \cup keymapBlocks, count)
  BY <1>3, <1>4, Lose DEF Accounted
<1>9. Leaves(kept, {}, r)
  BY <1>5, <1>6, <1>7 DEF Leaves, BlocksOf, ListBlocks
<1>10. Accounts({}, heap \ r, lost \cup keymapBlocks, count)
  BY <1>8, <1>9, Free
<1>11. (model = 0 /\ root = 0 /\ NoTables /\ list = NoList => Owners = {})'
  BY Nothing, PTL
<1>12. Owners' = {}
  BY <1>1, <1>11 DEF KeymapFails, LoadFails, NoTables, Unnamed, NoTable, NoList
<1> QED  BY <1>10, <1>12 DEF Accounted, KeymapFails

LEMMA ModelFreeAccounted ==
  ASSUME Accounted, Progress, ModelFree
  PROVE  Accounted'
<1>1. list = NoList
  BY DEF ModelFree, Loaded, Progress
<1>2. Accounts({}, heap \ BlocksOf(Owners), lost, count)
  BY FreeAll
<1>3. (model = 0 /\ root = 0 /\ NoTables /\ list = NoList => Owners = {})'
  BY Nothing, PTL
<1>4. Owners' = {}
  BY <1>1, <1>3 DEF ModelFree, NoTables, Unnamed, NoTable, NoList
<1> QED  BY <1>2, <1>4 DEF Accounted, ModelFree, Release

\* Rebuilding the table of parents frees its lists.
LEMMA BuildCLookupAccounted ==
  ASSUME Accounted, Shapes, BuildCLookup
  PROVE  Accounted'
<1> DEFINE top == Pointer("clookup", 0, "table", clookup.id)
           all == TableOwners("clookup", clookup)
           gone == all \ top
           kept == Owners \ gone
           r == clookupBlocks \ {clookup.id}
<1>1. /\ clookup' = [clookup EXCEPT !.items = <<>>]
      /\ heap' = heap \ r /\ UNCHANGED <<count, lost>>
      /\ UNCHANGED <<model, root, keymap, identifierSID, SIDIdentifier, handlers, list>>
  BY DEF BuildCLookup, Release
<1>2. top \subseteq all /\ all \subseteq Owners
  BY InTable DEF Owners
<1>3. \A o \in top : o[2] = clookup.id
  BY InPointer
<1>4. \A o \in gone : o[2] # clookup.id
  <2>1. SUFFICES ASSUME NEW o \in gone, o[2] = clookup.id
                 PROVE  FALSE
    OBVIOUS
  <2>2. clookup.id # 0
    BY <1>2, <2>1 DEF Accounted, Accounts, BlocksOf
  <2> DEFINE p == <<<<"clookup", 0, "table">>, clookup.id>>
  <2>3. p \in top /\ p[2] = clookup.id
    BY <2>2, InPointer
  <2> HIDE DEF p, top, all
  <2>4. p = o
    BY <1>2, <2>1, <2>3 DEF Accounted, Accounts, SingleOwner
  <2> QED  BY <2>1, <2>3, <2>4
<1>5. r = BlocksOf(gone)
  <2>1. all = top \cup gone
    BY <1>2
  <2> HIDE DEF top, gone
  <2>2. clookupBlocks = BlocksOf(top) \cup BlocksOf(gone)
    BY <2>1 DEF clookupBlocks, BlocksOf
  <2>3. BlocksOf(top) \subseteq {clookup.id} /\ clookup.id \notin BlocksOf(gone)
    BY <1>3, <1>4 DEF BlocksOf
  <2> QED  BY <2>2, <2>3
<1>6. Owners \ kept = gone /\ kept \subseteq Owners
  BY <1>2
<1>7. Leaves(Owners, kept, r)
  BY <1>5, <1>6 DEF Leaves
<1>8. TableOwners("clookup", clookup') = top
  <2>1. clookup'.id = clookup.id /\ clookup'.items = <<>>
    BY <1>1 DEF Shapes, IsTable
  <2> QED  BY <2>1, EmptyTable
<1>9. Owners' = kept
  <2>1. \A o \in gone : o[1][1] = "clookup" /\ o \notin top
    BY Places
  <2> DEFINE rest == Pointer("model", 0, "block", model) \cup Pointer("root", 0, "block", root)
                     \cup TableOwners("keymap", keymap)
                     \cup Pointer("identifierSID", 0, "table", identifierSID.id)
                     \cup Pointer("SIDIdentifier", 0, "table", SIDIdentifier.id)
                     \cup Pointer("handlers", 0, "table", handlers)
                     \cup ListOwners("new", 0, list)
  <2>2. \A o \in rest : o[1][1] # "clookup"
    BY Places
  <2>3. Owners = rest \cup all /\ Owners' = rest \cup top
    BY <1>1, <1>8 DEF Owners
  <2> HIDE DEF rest, all, top
  <2> QED  BY <1>2, <2>1, <2>2, <2>3
<1> HIDE DEF kept, r
<1>10. Accounts(kept, heap \ r, lost, count)
  BY <1>7, Free DEF Accounted
<1> QED  BY <1>1, <1>9, <1>10 DEF Accounted

-----------------------------------------------------------------------------
(* Lists *)

\* addLong and addUniqueLong of the list j.
Grown(j, m) ==
  /\ IsList(m) /\ m.id = j.id
  /\ m.buffer = j.buffer \/ m.buffer = 0 \/ (m.buffer = fresh /\ j.buffer = 0)

LEMMA GrowsIsGrown ==
  ASSUME NEW j, IsList(j), NEW v, NEW m \in Grows(j, v) \cup GrowsUnique(j, v)
  PROVE  Grown(j, m)
<1>1. Grown(j, j)
  BY DEF Grown
<1>2. ASSUME NEW k \in Grows(j, v)
      PROVE  Grown(j, k)
  <2> DEFINE b == j.buffer
             i == j.id
             values == j.longs
             longs == Append([z \in DOMAIN values |-> NULL], v)
             more == Append(values, v)
  <2>1. j = [id |-> i, buffer |-> b, longs |-> values]
    BY DEF IsList
  <2> HIDE DEF b, i, values, longs, more
  <2>2. \/ b = 0 /\ k = [id |-> i, buffer |-> fresh, longs |-> longs]
        \/ b # 0 /\ k = [id |-> i, buffer |-> b, longs |-> more]
        \/ k = [id |-> i, buffer |-> 0, longs |-> values]
    BY <1>2, <2>1 DEF Grows, longs, more
  <2> QED  BY <2>1, <2>2 DEF Grown, IsList
<1> QED  BY <1>1, <1>2 DEF GrowsUnique

\* The owners of a list in one place, as the list grows.
LEMMA Grow ==
  ASSUME NEW rest, NEW n, NEW x, NEW j, NEW m,
         Accounts(rest \cup ListOwners(n, x, j), heap, lost, count),
         rest \cap ListOwners(n, x, j) = {},
         Grown(j, m), Allocated(j, m)
  PROVE  Accounts(rest \cup ListOwners(n, x, m), heap', lost', count')
<1> DEFINE longs == <<n, x, "longs">>
           old == ListOwners(n, x, j)
           new == ListOwners(n, x, m)
<1>1. count + 1 # 0 /\ j.buffer # count + 1
  <2>1. count \in Nat /\ heap \subseteq 1 .. count
    BY DEF Accounts
  <2>2. j.buffer # 0 => j.buffer \in heap
    <3>1. j.buffer # 0 => <<longs, j.buffer>> \in rest \cup old
      BY InList
    <3>2. \A o \in rest \cup old : o[2] \in heap
      BY DEF Accounts, BlocksOf
    <3>3. j.buffer # 0 => <<longs, j.buffer>>[2] \in heap
      BY <3>1, <3>2
    <3> QED  BY <3>3
  <2> QED  BY <2>1, <2>2
<1>2. CASE m.buffer = fresh
  <2>1. j.buffer = 0 /\ m.id = j.id
    BY <1>1, <1>2 DEF Grown, fresh
  <2>2. new = old \cup {<<longs, count + 1>>}
    <3>1. \A o : o \in new <=> o \in old \cup {<<longs, count + 1>>}
      BY <1>1, <1>2, <2>1, InList DEF fresh
    <3> QED  BY <3>1
  <2> HIDE DEF new, old, longs
  <2>3. Accounts((rest \cup old) \cup {<<longs, count + 1>>}, heap \cup {count + 1}, lost, count + 1)
    BY Acquire DEF old
  <2>4. rest \cup new = (rest \cup old) \cup {<<longs, count + 1>>}
    BY <2>2
  <2>5. heap' = heap \cup {count + 1} /\ count' = count + 1 /\ lost' = lost
    BY <1>2 DEF Allocated, Allocate, fresh
  <2> QED  BY <2>3, <2>4, <2>5 DEF new
<1>3. CASE m.buffer # fresh
  <2>1. heap' = heap /\ count' = count /\ lost' = lost \cup ({j.buffer} \ {m.buffer})
    BY <1>3 DEF Allocated
  <2>2. m.id = j.id /\ (m.buffer = j.buffer \/ m.buffer = 0)
    BY <1>3 DEF Grown
  <2>3. CASE m.buffer = j.buffer
    <3>1. \A o : o \in new <=> o \in old
      BY <2>2, <2>3, InList
    <3>2. new = old /\ lost' = lost
      BY <2>1, <2>3, <3>1
    <3> QED  BY <2>1, <3>2
  <2>4. CASE m.buffer = 0 /\ j.buffer # 0
    <3> DEFINE p == <<longs, j.buffer>>
               r == {j.buffer} \ {m.buffer}
    <3>1. old = new \cup {p} /\ p \notin new
      <4>1. \A o : o \in old <=> o \in new \cup {p}
        BY <2>2, <2>4, InList
      <4>2. p \notin new
        BY <2>4, InList
      <4> QED  BY <4>1, <4>2
    <3>2. p[2] = j.buffer /\ r = {j.buffer} /\ 0 \notin r
      BY <2>4
    <3> HIDE DEF p, r, old, new
    <3>3. (rest \cup old) \ (rest \cup new) = {p} /\ rest \cup new \subseteq rest \cup old
      BY <3>1 DEF old
    <3>4. BlocksOf({p}) = r
      BY <3>2 DEF BlocksOf
    <3>5. Leaves(rest \cup old, rest \cup new, r)
      BY <3>3, <3>4 DEF Leaves
    <3>6. Accounts(rest \cup new, heap, lost \cup r, count)
      BY <3>2, <3>5, Lose DEF old
    <3> QED  BY <2>1, <3>6 DEF r, new
  <2> QED  BY <2>2, <2>3, <2>4
<1> QED  BY <1>2, <1>3

-----------------------------------------------------------------------------
(* The table being built *)

tableOf(n) == IF n = "keymap" THEN keymap ELSE clookup

\* The owners outside the table n and the list being built.
Others(n) ==
  Pointer("model", 0, "block", model) \cup Pointer("root", 0, "block", root)
  \cup (IF n = "keymap" THEN TableOwners("clookup", clookup) ELSE TableOwners("keymap", keymap))
  \cup Pointer("identifierSID", 0, "table", identifierSID.id)
  \cup Pointer("SIDIdentifier", 0, "table", SIDIdentifier.id)
  \cup Pointer("handlers", 0, "table", handlers)

LEMMA Split ==
  \A k \in {"keymap", "clookup"} :
    Owners = Others(k) \cup TableOwners(k, tableOf(k)) \cup ListOwners("new", 0, list)
<1>1. SUFFICES ASSUME NEW n \in {"keymap", "clookup"}
               PROVE  Owners = Others(n) \cup TableOwners(n, tableOf(n)) \cup ListOwners("new", 0, list)
  OBVIOUS
<1>2. CASE n = "keymap"
  BY <1>2 DEF Owners, Others, tableOf
<1>3. CASE n = "clookup"
  BY <1>3 DEF Owners, Others, tableOf
<1> QED  BY <1>2, <1>3

LEMMA SplitNext ==
  (\A k \in {"keymap", "clookup"} :
     Owners = Others(k) \cup TableOwners(k, tableOf(k)) \cup ListOwners("new", 0, list))'
BY Split, PTL

LEMMA Elsewhere ==
  ASSUME NEW n \in {"keymap", "clookup"}
  PROVE  \A o \in Others(n) : o[1][1] \notin {n, "new"}
<1>1. CASE n = "keymap"
  BY <1>1, Places DEF Others
<1>2. CASE n = "clookup"
  BY <1>2, Places DEF Others
<1> QED  BY <1>1, <1>2

\* The owners, the list being built apart.
LEMMA NewApart ==
  ASSUME NEW n \in {"keymap", "clookup"}
  PROVE  (Others(n) \cup TableOwners(n, tableOf(n))) \cap ListOwners("new", 0, list) = {}
<1>1. \A o \in TableOwners(n, tableOf(n)) : o[1][1] = n
  BY Places
<1>2. \A o \in ListOwners("new", 0, list) : o[1][1] = "new"
  BY Places
<1> QED  BY <1>1, <1>2, Elsewhere

\* The others and the table stay as they are.
OthersStay == UNCHANGED <<model, root, keymap, clookup, identifierSID, SIDIdentifier, handlers>>

LEMMA StayOwners ==
  ASSUME OthersStay
  PROVE  Others("keymap")' = Others("keymap") /\ tableOf("keymap")' = tableOf("keymap")
BY DEF OthersStay, Others, tableOf

\* The owners after a change of the list being built.
LEMMA NewListOwners ==
  ASSUME OthersStay
  PROVE  Owners' = (Others("keymap") \cup TableOwners("keymap", tableOf("keymap")))
                   \cup ListOwners("new", 0, list')
<1>1. Owners' = Others("keymap")' \cup TableOwners("keymap", tableOf("keymap")')
                \cup ListOwners("new", 0, list')
  BY SplitNext
<1> QED  BY <1>1, StayOwners

LEMMA CreateListAccounted ==
  ASSUME Accounted, CreateList
  PROVE  Accounted'
<1> DEFINE rest == Others("keymap") \cup TableOwners("keymap", tableOf("keymap"))
<1>1. OthersStay /\ list = NoList /\ list' = NewList /\ Allocate
  BY DEF CreateList, OthersStay, tables
<1>2. count + 1 # 0
  BY DEF Accounted, Accounts
<1>3. Owners = rest \cup ListOwners("new", 0, list)
  BY Split
<1>4. Owners' = rest \cup ListOwners("new", 0, list')
  BY <1>1, NewListOwners
<1>5. ListOwners("new", 0, list) = {}
  BY <1>1, NoListOwners
<1>6. ListOwners("new", 0, list') = {<<<<"new", 0, "list">>, count + 1>>}
  <2>1. list'.id = count + 1 /\ list'.buffer = 0
    BY <1>1 DEF NewList, fresh
  <2>2. \A o : o \in ListOwners("new", 0, list') <=> o \in {<<<<"new", 0, "list">>, count + 1>>}
    BY <1>2, <2>1, InList
  <2> QED  BY <2>2
<1> HIDE DEF rest
<1>7. Owners' = Owners \cup {<<<<"new", 0, "list">>, count + 1>>}
  BY <1>3, <1>4, <1>5, <1>6
<1> QED  BY <1>1, <1>7, Acquire DEF Accounted, Allocate, fresh

LEMMA AddLongAccounted ==
  ASSUME Accounted, Shapes, AddLong
  PROVE  Accounted'
<1> DEFINE rest == Others("keymap") \cup TableOwners("keymap", tableOf("keymap"))
<1>1. OthersStay
  BY DEF AddLong, OthersStay, tables
<1>2. Grown(list, list') /\ Allocated(list, list')
  <2>1. PICK m \in Grows(list, Head(build.left)) \cup GrowsUnique(list, Head(build.left)) :
          list' = m /\ Allocated(list, m)
    BY DEF AddLong
  <2> QED  BY <2>1, GrowsIsGrown DEF Shapes
<1>3. Owners = rest \cup ListOwners("new", 0, list) /\ rest \cap ListOwners("new", 0, list) = {}
  BY Split, NewApart
<1>4. Owners' = rest \cup ListOwners("new", 0, list')
  BY <1>1, NewListOwners
<1> HIDE DEF rest
<1>5. Accounts(rest \cup ListOwners("new", 0, list), heap, lost, count)
  BY <1>3 DEF Accounted
<1>6. Accounts(rest \cup ListOwners("new", 0, list'), heap', lost', count')
  BY <1>2, <1>3, <1>5, Grow
<1> QED  BY <1>4, <1>6 DEF Accounted

LEMMA SetEntryFailsAccounted ==
  ASSUME Accounted, SetEntryFails
  PROVE  Accounted'
<1> DEFINE rest == Others("keymap") \cup TableOwners("keymap", tableOf("keymap"))
           gone == ListOwners("new", 0, list)
<1>1. /\ OthersStay /\ list' = NoList
      /\ heap' = heap /\ count' = count /\ lost' = lost \cup ListBlocks(list)
  BY DEF SetEntryFails, OthersStay, tables
<1>2. Owners = rest \cup gone /\ rest \cap gone = {}
  BY Split, NewApart
<1>3. BlocksOf(gone) = ListBlocks(list) /\ 0 \notin ListBlocks(list)
  BY BlocksOfList DEF ListBlocks
<1>4. Owners' = rest
  BY <1>1, NewListOwners, NoListOwners
<1> HIDE DEF rest, gone
<1>5. Owners \ rest = gone /\ rest \subseteq Owners
  BY <1>2
<1>6. Leaves(Owners, rest, ListBlocks(list))
  BY <1>3, <1>5 DEF Leaves
<1>7. Accounts(rest, heap, lost \cup ListBlocks(list), count)
  BY <1>3, <1>6, Lose DEF Accounted
<1> QED  BY <1>1, <1>4, <1>7 DEF Accounted

\* A list is put into the table being built.
LEMMA SetItemsPuts ==
  ASSUME Shapes, NEW n \in {"keymap", "clookup"}, n = build.into,
         UNCHANGED <<model, root, identifierSID, SIDIdentifier, handlers>>,
         NEW m, NEW items, SetItems(items), DOMAIN items = DOMAIN table.items \cup {entry.sid},
         items[entry.sid] = m,
         \A sid \in DOMAIN table.items \ {entry.sid} : items[sid] = table.items[sid]
  PROVE  /\ Put(tableOf(n)', tableOf(n), entry.sid, m)
         /\ Owners' = Others(n) \cup TableOwners(n, tableOf(n)') \cup ListOwners("new", 0, list')
<1>1. table = tableOf(n)
  BY DEF table, tableOf
<1>2. tableOf(n)' = [tableOf(n) EXCEPT !.items = items]
  BY DEF SetItems, tableOf
<1>3. tableOf(n) = [id |-> tableOf(n).id, items |-> tableOf(n).items]
  BY DEF Shapes, IsTable, tableOf
<1> HIDE DEF tableOf
<1>4. tableOf(n)'.id = tableOf(n).id /\ tableOf(n)'.items = items
  BY <1>2, <1>3
<1>5. Put(tableOf(n)', tableOf(n), entry.sid, m)
  BY <1>1, <1>4 DEF Put
<1>6. Others(n)' = Others(n)
  BY DEF SetItems, Others
<1>7. Owners' = Others(n)' \cup TableOwners(n, tableOf(n)') \cup ListOwners("new", 0, list')
  BY SplitNext
<1> QED  BY <1>5, <1>6, <1>7

LEMMA SetEntryAccounted ==
  ASSUME Accounted, Shapes, build.into \in {"keymap", "clookup"}, SetEntry
  PROVE  Accounted'
<1>1. PICK n \in {"keymap", "clookup"} : n = build.into
  OBVIOUS
<1> DEFINE k == entry.sid
           t == tableOf(n)
           u == tableOf(n)'
           old == Replaced(n, t, k)
           stay == TableOwners(n, t) \ old
           r == IF k \in DOMAIN t.items THEN ListBlocks(t.items[k]) ELSE {}
           new == ListOwners("new", 0, list)
           rest == Others(n) \cup stay
<1>2. t = table
  BY <1>1 DEF table, tableOf
<1>3. /\ heap' = heap /\ count' = count /\ lost' = lost \cup r /\ list' = NoList
      /\ UNCHANGED <<model, root, identifierSID, SIDIdentifier, handlers>>
  BY <1>2 DEF SetEntry
<1>4. /\ Put(u, t, k, list)
      /\ Owners' = Others(n) \cup TableOwners(n, u) \cup ListOwners("new", 0, list')
  <2> DEFINE items == [sid \in DOMAIN table.items \cup {k} |-> IF sid = k THEN list ELSE table.items[sid]]
  <2>1. SetItems(items)
    BY DEF SetEntry
  <2>2. /\ DOMAIN items = DOMAIN table.items \cup {k} /\ items[k] = list
        /\ \A sid \in DOMAIN table.items \ {k} : items[sid] = table.items[sid]
    OBVIOUS
  <2> HIDE DEF items, k
  <2> QED  BY <1>1, <1>3, <2>1, <2>2, SetItemsPuts DEF k
<1>5. /\ old \subseteq TableOwners(n, t)
      /\ TableOwners(n, u) = stay \cup ListOwners(n, k, list)
      /\ stay \cap ListOwners(n, k, list) = {}
  BY <1>4, PutOwners
<1>6. Owners = Others(n) \cup TableOwners(n, t) \cup new
  BY Split
<1>7. \A o \in TableOwners(n, t) : o[1][1] = n
  BY Places
<1>8. \A o \in new : o[1][1] = "new"
  BY Places
<1>9. \A o \in Others(n) : o[1][1] \notin {n, "new"}
  BY Elsewhere
<1>10. BlocksOf(old) = r /\ 0 \notin r
  <2>1. CASE k \in DOMAIN t.items
    BY <2>1, BlocksOfList DEF Replaced, ListBlocks
  <2>2. CASE k \notin DOMAIN t.items
    BY <2>2 DEF Replaced, BlocksOf
  <2> QED  BY <2>1, <2>2
<1>11. ListOwners("new", 0, list') = {}
  BY <1>3, NoListOwners
<1> HIDE DEF old, new, r, k, t, u
<1>12. Owners \ (rest \cup new) = old /\ rest \cup new \subseteq Owners /\ rest \cap new = {}
  BY <1>5, <1>6, <1>7, <1>8, <1>9
<1>13. Owners' = rest \cup ListOwners(n, k, list)
  BY <1>4, <1>5, <1>11
<1> HIDE DEF rest
<1>14. Leaves(Owners, rest \cup new, r)
  BY <1>10, <1>12 DEF Leaves
<1>15. Accounts(rest \cup new, heap, lost \cup r, count)
  BY <1>10, <1>14, Lose DEF Accounted
<1>16. Accounts(rest \cup ListOwners(n, k, list), heap, lost \cup r, count)
  BY <1>12, <1>15, Move DEF new
<1> QED  BY <1>3, <1>13, <1>16 DEF Accounted

LEMMA AddParentAccounted ==
  ASSUME Accounted, Shapes, build.into \in {"keymap", "clookup"}, AddParent
  PROVE  Accounted'
<1>1. PICK n \in {"keymap", "clookup"} : n = build.into
  OBVIOUS
<1> DEFINE k == entry.sid
           t == tableOf(n)
           u == tableOf(n)'
           j == t.items[k]
           stay == TableOwners(n, t) \ ListOwners(n, k, j)
           rest == Others(n) \cup stay
<1>2. t = table /\ k \in DOMAIN t.items
  BY <1>1 DEF table, tableOf, AddParent, Existing
<1>3. PICK m \in GrowsUnique(j, entry.longs[1]) :
        SetItems([table.items EXCEPT ![k] = m]) /\ Allocated(j, m)
  BY <1>2 DEF AddParent
<1>4. Grown(j, m)
  <2>1. IsList(j)
    BY <1>2 DEF Shapes, IsTable, tableOf
  <2> HIDE DEF j
  <2> QED  BY <1>3, <2>1, GrowsIsGrown
<1>5. list = NoList /\ list' = NoList
      /\ UNCHANGED <<model, root, identifierSID, SIDIdentifier, handlers>>
  BY DEF AddParent
<1>6. /\ Put(u, t, k, m)
      /\ Owners' = Others(n) \cup TableOwners(n, u) \cup ListOwners("new", 0, list')
  <2> DEFINE items == [table.items EXCEPT ![k] = m]
  <2>1. SetItems(items)
    BY <1>3
  <2>2. /\ DOMAIN items = DOMAIN table.items /\ items[k] = m
        /\ \A sid \in DOMAIN table.items \ {k} : items[sid] = table.items[sid]
    BY <1>2, <1>3 DEF SetItems
  <2>3. DOMAIN items = DOMAIN table.items \cup {k}
    BY <1>2, <2>2
  <2> HIDE DEF items, k
  <2> QED  BY <1>1, <1>5, <2>1, <2>2, <2>3, SetItemsPuts DEF k
<1>7. Replaced(n, t, k) = ListOwners(n, k, j)
  BY <1>2 DEF Replaced
<1>8. /\ ListOwners(n, k, j) \subseteq TableOwners(n, t)
      /\ TableOwners(n, u) = stay \cup ListOwners(n, k, m)
  BY <1>6, <1>7, PutOwners
<1>9. ListOwners("new", 0, list) = {} /\ ListOwners("new", 0, list') = {}
  BY <1>5, NoListOwners
<1>10. Owners = Others(n) \cup TableOwners(n, t) \cup ListOwners("new", 0, list)
  BY Split
<1>11. rest \cap ListOwners(n, k, j) = {}
  <2>1. \A o \in ListOwners(n, k, j) : o[1][1] = n
    BY Places
  <2> QED  BY <2>1, Elsewhere
<1> HIDE DEF j, k, t, u
<1>12. Owners = rest \cup ListOwners(n, k, j) /\ Owners' = rest \cup ListOwners(n, k, m)
  BY <1>6, <1>8, <1>9, <1>10
<1> HIDE DEF rest
<1>13. Accounts(rest \cup ListOwners(n, k, j), heap, lost, count)
  BY <1>12 DEF Accounted
<1>14. Accounts(rest \cup ListOwners(n, k, m), heap', lost', count')
  BY <1>3, <1>4, <1>11, <1>13, Grow
<1> QED  BY <1>12, <1>14 DEF Accounted

-----------------------------------------------------------------------------
(* The accounts, for every step *)

\* Steps that only move on.
LEMMA QuietAccounted ==
  ASSUME Accounted, OthersStay, UNCHANGED <<list, heap, count, lost>>
  PROVE  Accounted'
<1>1. Owners' = Owners
  BY DEF Owners, OthersStay
<1> QED  BY <1>1 DEF Accounted

\* Nothing is there, at the start and after a restart.
AtStart ==
  /\ model = 0 /\ root = 0 /\ NoTables /\ list = NoList
  /\ heap = {} /\ count = 0 /\ lost = {}

LEMMA StartAccounted ==
  AtStart => Accounted
<1>1. SUFFICES ASSUME AtStart
               PROVE  Accounted
  OBVIOUS
<1>2. Owners = {}
  BY <1>1, Nothing DEF AtStart
<1>3. BlocksOf(Owners) = {} /\ SingleOwner(Owners)
  BY <1>2 DEF BlocksOf, SingleOwner
<1> QED  BY <1>1, <1>3 DEF AtStart, Accounted, Accounts

LEMMA RestartAccounted ==
  ASSUME Restart
  PROVE  Accounted'
<1>1. (AtStart => Accounted)'
  BY StartAccounted, PTL
<1>2. AtStart'
  BY DEF Restart, AtStart, NoTables, Unnamed
<1> QED  BY <1>1, <1>2

LEMMA StepAccounted ==
  ASSUME IInv, [Next]_vars
  PROVE  Accounted'
<1> USE DEF IInv
<1>1. pc = "entries" => build.into \in {"keymap", "clookup"}
  BY DEF Progress, BuildOK
<1>2. CASE UNCHANGED vars
  BY <1>2, QuietAccounted DEF vars, tables, memory, OthersStay
<1>3. CASE \E d \in Descs : Load(d)
  BY <1>3, LoadAccounted
<1>4. CASE BuildCLookup
  BY <1>4, BuildCLookupAccounted
<1>5. CASE NewClookup \/ BuildNewCLookup
  BY <1>5, NewTableOfParents DEF NewClookup, BuildNewCLookup, Progress
<1>6. CASE Register
  BY <1>6, RegisterAccounted
<1>7. CASE ModelFree
  BY <1>7, ModelFreeAccounted
<1>8. CASE Restart
  BY <1>8, RestartAccounted
<1>9. CASE DecodeRoot \/ NewKeymap
  BY <1>9, DecodeRootAccounted, NewKeymapAccounted
<1>10. CASE RootFails \/ NewKeymapFails \/ NewClookupFails
  BY <1>10, FailuresAccounted
<1>11. CASE CreateListFails \/ KeymapFails
  BY <1>11, CreateListFailsAccounted, KeymapFailsAccounted
<1>12. CASE CreateList \/ AddLong
  BY <1>12, CreateListAccounted, AddLongAccounted
<1>13. CASE SetEntry \/ SetEntryFails \/ AddParent
  BY <1>1, <1>13, SetEntryAccounted, SetEntryFailsAccounted, AddParentAccounted
     DEF SetEntry, AddParent, HasEntry
<1>14. CASE BuildIdentifierSID \/ BuildSIDIdentifier
  BY <1>14, NewNamesAccounted
<1>15. CASE NoClookup \/ Halt \/ EntriesDone \/ SkipNames \/ NoIdentifierSID \/ NoSIDIdentifier
  BY <1>15, QuietAccounted
     DEF NoClookup, Halt, EntriesDone, SkipNames, NoIdentifierSID, NoSIDIdentifier,
         tables, memory, OthersStay
<1> QED
  BY <1>2, <1>3, <1>4, <1>5, <1>6, <1>7, <1>8, <1>9, <1>10, <1>11, <1>12, <1>13, <1>14, <1>15
     DEF Next, Client, Step

-----------------------------------------------------------------------------
(* The shapes, for every step *)

LEMMA NewShapes ==
  /\ IsTable(NoTable) /\ IsTable(NewTable) /\ IsList(NoList) /\ IsList(NewList)
  /\ \A t, items : IsTable(t) /\ (\A sid \in DOMAIN items : IsList(items[sid]))
                     => IsTable([t EXCEPT !.items = items])
<1>1. DOMAIN <<>> = {}
  OBVIOUS
<1>2. IsTable(NoTable) /\ IsTable(NewTable) /\ IsList(NoList) /\ IsList(NewList)
  BY <1>1 DEF IsTable, IsList, NoTable, NewTable, NoList, NewList
<1>3. ASSUME NEW t, NEW items, IsTable(t), \A sid \in DOMAIN items : IsList(items[sid])
      PROVE  IsTable([t EXCEPT !.items = items])
  <2>1. [t EXCEPT !.items = items] = [id |-> t.id, items |-> items]
    BY <1>3 DEF IsTable
  <2> DEFINE u == [id |-> t.id, items |-> items]
  <2>2. u.id = t.id /\ u.items = items
    OBVIOUS
  <2>3. IsTable(u)
    BY <1>3, <2>2 DEF IsTable
  <2> QED  BY <2>1, <2>3
<1> QED  BY <1>2, <1>3

IsBuild(b) ==
  b = [into |-> b.into, how |-> b.how, after |-> b.after,
       entries |-> b.entries, left |-> b.left, loopCounter |-> b.loopCounter]

\* What is built stays, only how far it is changes.
SameTable(b, u) == IsBuild(u) /\ u.into = b.into /\ u.how = b.how /\ u.after = b.after

LEMMA OneField ==
  ASSUME NEW b, IsBuild(b), NEW x
  PROVE  /\ SameTable(b, [b EXCEPT !.left = x]) /\ [b EXCEPT !.left = x].entries = b.entries
         /\ SameTable(b, [b EXCEPT !.entries = x])
         /\ SameTable(b, [b EXCEPT !.loopCounter = x])
         /\ [b EXCEPT !.loopCounter = x].entries = b.entries
<1> DEFINE i == b.into
           h == b.how
           a == b.after
           e == b.entries
           f == b.left
           c == b.loopCounter
<1>1. b = [into |-> i, how |-> h, after |-> a, entries |-> e, left |-> f, loopCounter |-> c]
  BY DEF IsBuild
<1>2. b.into = i /\ b.how = h /\ b.after = a /\ b.entries = e
  OBVIOUS
<1> HIDE DEF i, h, a, e, f, c
<1>3. /\ [b EXCEPT !.left = x]
           = [into |-> i, how |-> h, after |-> a, entries |-> e, left |-> x, loopCounter |-> c]
      /\ [b EXCEPT !.entries = x]
           = [into |-> i, how |-> h, after |-> a, entries |-> x, left |-> f, loopCounter |-> c]
      /\ [b EXCEPT !.loopCounter = x]
           = [into |-> i, how |-> h, after |-> a, entries |-> e, left |-> f, loopCounter |-> x]
  BY <1>1
<1>4. SameTable(b, [b EXCEPT !.left = x]) /\ [b EXCEPT !.left = x].entries = b.entries
  BY <1>2, <1>3 DEF SameTable, IsBuild
<1>5. SameTable(b, [b EXCEPT !.entries = x])
  BY <1>2, <1>3 DEF SameTable, IsBuild
<1>6. SameTable(b, [b EXCEPT !.loopCounter = x]) /\ [b EXCEPT !.loopCounter = x].entries = b.entries
  BY <1>2, <1>3 DEF SameTable, IsBuild
<1> QED  BY <1>4, <1>5, <1>6

LEMMA MoreBuilt ==
  ASSUME NEW b, IsBuild(b), NEW x, NEW y
  PROVE  /\ SameTable(b, [b EXCEPT !.left = x, !.loopCounter = y])
         /\ [b EXCEPT !.left = x, !.loopCounter = y].entries = b.entries
         /\ SameTable(b, [b EXCEPT !.entries = x, !.loopCounter = y])
<1> DEFINE u == [b EXCEPT !.left = x]
           v == [b EXCEPT !.entries = x]
<1>1. SameTable(b, u) /\ u.entries = b.entries /\ SameTable(b, v)
  BY OneField
<1>2. /\ [b EXCEPT !.left = x, !.loopCounter = y] = [u EXCEPT !.loopCounter = y]
      /\ [b EXCEPT !.entries = x, !.loopCounter = y] = [v EXCEPT !.loopCounter = y]
  OBVIOUS
<1> HIDE DEF u, v
<1>3. /\ SameTable(u, [u EXCEPT !.loopCounter = y]) /\ [u EXCEPT !.loopCounter = y].entries = u.entries
      /\ SameTable(v, [v EXCEPT !.loopCounter = y])
  BY <1>1, OneField DEF SameTable
<1> QED  BY <1>1, <1>2, <1>3 DEF SameTable

LEMMA SetItemsShapes ==
  ASSUME Shapes, NEW items, SetItems(items), \A sid \in DOMAIN items : IsList(items[sid])
  PROVE  IsTable(keymap') /\ IsTable(clookup')
BY NewShapes DEF Shapes, SetItems

LEMMA TableLists ==
  ASSUME Shapes
  PROVE  \A sid \in DOMAIN table.items : IsList(table.items[sid])
BY DEF Shapes, IsTable, table

LEMMA StepShapes ==
  ASSUME IInv, [Next]_vars
  PROVE  Shapes'
<1> USE DEF IInv
<1>1. IsTable(keymap) /\ IsTable(clookup) /\ IsList(list) /\ IsBuild(build)
  BY DEF Shapes, IsBuild
<1>2. SUFFICES IsTable(keymap') /\ IsTable(clookup') /\ IsList(list') /\ IsBuild(build')
  BY DEF Shapes, IsBuild
<1>3. CASE UNCHANGED <<keymap, clookup, list, build>>
  BY <1>1, <1>3
<1>4. CASE UNCHANGED <<clookup, list, build>> /\ keymap' = NoTable
  BY <1>1, <1>4, NewShapes
<1>5. CASE \/ (\E d \in Descs : Load(d)) \/ DecodeRoot \/ NoClookup \/ SkipNames
           \/ Register
           \/ BuildIdentifierSID \/ NoIdentifierSID \/ BuildSIDIdentifier \/ NoSIDIdentifier
           \/ Halt \/ EntriesDone \/ UNCHANGED vars
  BY <1>3, <1>5
     DEF Load, DecodeRoot, NoClookup, SkipNames, Register, BuildIdentifierSID,
         NoIdentifierSID, BuildSIDIdentifier, NoSIDIdentifier, Halt, EntriesDone, vars, tables
<1>6. CASE RootFails \/ NewKeymapFails \/ NewClookupFails
  BY <1>4, <1>6 DEF RootFails, NewKeymapFails, NewClookupFails, LoadFails
<1>7. CASE CreateListFails \/ KeymapFails
  BY <1>1, <1>7, NewShapes DEF CreateListFails, KeymapFails, LoadFails
<1>8. CASE ModelFree \/ Restart
  BY <1>1, <1>8, NewShapes DEF ModelFree, Restart, NoBuild, IsBuild
<1>9. ASSUME NEW into, NEW how, NEW entries, NEW after, Begin(into, how, entries, after)
      PROVE  IsBuild(build')
  BY <1>9 DEF Begin, IsBuild
<1>10. CASE NewKeymap \/ NewClookup \/ BuildNewCLookup
  BY <1>1, <1>9, <1>10, NewShapes DEF NewKeymap, NewClookup, BuildNewCLookup
<1>11. CASE BuildCLookup
  <2>1. DOMAIN <<>> = {}
    OBVIOUS
  <2>2. clookup' = [clookup EXCEPT !.items = <<>>] /\ UNCHANGED <<keymap, list>>
    BY <1>11 DEF BuildCLookup
  <2>3. IsTable(clookup')
    BY <1>1, <2>1, <2>2, NewShapes
  <2> QED  BY <1>1, <1>9, <1>11, <2>2, <2>3 DEF BuildCLookup
<1>12. IsBuild([build EXCEPT !.left = entry.longs]) /\ IsBuild(NextEntry)
       /\ IsBuild([build EXCEPT !.left = Tail(@), !.loopCounter = @ + 1])
  BY <1>1, OneField, MoreBuilt DEF SameTable, NextEntry
<1>13. CASE CreateList
  BY <1>1, <1>12, <1>13, NewShapes DEF CreateList, tables
<1>14. CASE AddLong
  <2>1. PICK m \in Grows(list, Head(build.left)) \cup GrowsUnique(list, Head(build.left)) : list' = m
    BY <1>14 DEF AddLong
  <2>2. IsList(list')
    BY <1>1, <2>1, GrowsIsGrown DEF Grown
  <2> QED  BY <1>1, <1>12, <1>14, <2>2 DEF AddLong, tables
<1>15. CASE SetEntry
  <2> DEFINE items == [sid \in DOMAIN table.items \cup {entry.sid} |->
                         IF sid = entry.sid THEN list ELSE table.items[sid]]
  <2>1. SetItems(items) /\ list' = NoList /\ build' = NextEntry
    BY <1>15 DEF SetEntry
  <2>2. \A sid \in DOMAIN items : IsList(items[sid])
    BY <1>1, TableLists
  <2> HIDE DEF items
  <2> QED  BY <1>12, <2>1, <2>2, NewShapes, SetItemsShapes
<1>16. CASE SetEntryFails
  BY <1>1, <1>12, <1>16, NewShapes DEF SetEntryFails, tables
<1>17. CASE AddParent
  <2>1. entry.sid \in DOMAIN table.items
    BY <1>17 DEF AddParent, Existing
  <2>2. IsList(table.items[entry.sid])
    BY <2>1, TableLists
  <2>3. PICK m \in GrowsUnique(table.items[entry.sid], entry.longs[1]) :
          SetItems([table.items EXCEPT ![entry.sid] = m])
    BY <1>17 DEF AddParent
  <2>4. IsList(m)
    BY <2>2, <2>3, GrowsIsGrown DEF Grown
  <2> DEFINE items == [table.items EXCEPT ![entry.sid] = m]
  <2>5. \A sid \in DOMAIN items : IsList(items[sid])
    BY <2>4, TableLists
  <2> HIDE DEF items
  <2>6. IsTable(keymap') /\ IsTable(clookup')
    BY <2>3, <2>5, SetItemsShapes DEF items
  <2> QED  BY <1>1, <1>12, <1>17, <2>6 DEF AddParent
<1> QED
  BY <1>5, <1>6, <1>7, <1>8, <1>10, <1>11, <1>13, <1>14, <1>15, <1>16, <1>17 DEF Next, Client, Step

-----------------------------------------------------------------------------
(* How far a load is, for every step *)

\* While a table is built.
LEMMA EntriesProgress ==
  ASSUME Shapes, Progress, HasEntry,
         CreateList \/ AddLong \/ SetEntry \/ SetEntryFails \/ AddParent
  PROVE  Progress'
<1>1. BuildOK /\ model # 0 /\ build.entries # <<>> /\ (build.into = "keymap" => desc \in Descs)
  BY DEF HasEntry, Progress
<1>2. SameTable(build, build') /\ (list' # NoList => build'.entries = build.entries)
  <2>1. IsBuild(build)
    BY DEF Shapes, IsBuild
  <2>2. CASE CreateList
    <3>1. build' = [build EXCEPT !.left = entry.longs]
      BY <2>2 DEF CreateList
    <3> QED  BY <2>1, <3>1, OneField
  <2>3. CASE AddLong
    <3> DEFINE x == Tail(build.left)
               y == build.loopCounter + 1
    <3>1. build' = [build EXCEPT !.left = x, !.loopCounter = y]
      BY <2>3 DEF AddLong
    <3> HIDE DEF x, y
    <3> QED  BY <2>1, <3>1, MoreBuilt
  <2>4. CASE SetEntry \/ SetEntryFails \/ AddParent
    <3> DEFINE x == Tail(build.entries)
               y == build.loopCounter + 1
    <3>1. build' = [build EXCEPT !.entries = x, !.loopCounter = y] /\ list' = NoList
      BY <2>4 DEF SetEntry, SetEntryFails, AddParent, NextEntry
    <3> HIDE DEF x, y
    <3> QED  BY <2>1, <3>1, MoreBuilt
  <2> QED  BY <2>2, <2>3, <2>4
<1>3. /\ pc' = "entries" /\ UNCHANGED <<desc, model, root, identifierSID, SIDIdentifier, handlers>>
      /\ build.into = "keymap" => clookup' = clookup
  BY DEF HasEntry, CreateList, AddLong, SetEntry, SetEntryFails, AddParent, SetItems, tables
<1>4. BuildOK'
  BY <1>1, <1>2, <1>3 DEF BuildOK, SameTable, Unnamed
<1> QED  BY <1>1, <1>2, <1>3, <1>4 DEF Progress, SameTable

\* A load fails, or what was loaded is freed: nothing is there.
LEMMA EmptyProgress ==
  ASSUME pc' = "idle", model' = 0, root' = 0, NoTables', list' = NoList
  PROVE  Progress'
BY DEF Progress

LEMMA StepProgress ==
  ASSUME IInv, [Next]_vars
  PROVE  Progress'
<1> USE DEF IInv
<1>1. CASE UNCHANGED vars
  BY <1>1 DEF vars, tables, Progress, NoTables, Unnamed, BuildOK
<1>2. CASE (\E d \in Descs : Load(d)) \/ DecodeRoot
  <2>1. fresh # 0
    BY DEF Accounted, Accounts, fresh
  <2> QED  BY <1>2, <2>1 DEF Load, DecodeRoot, tables, Progress, NoTables, Unnamed
<1>3. CASE ModelFree \/ Restart
  BY <1>3, EmptyProgress DEF ModelFree, Restart, Loaded, NoTables, Unnamed, Progress
<1>4. CASE RootFails \/ NewKeymapFails \/ NewClookupFails
  BY <1>4, EmptyProgress
     DEF RootFails, NewKeymapFails, NewClookupFails, LoadFails, NoTables, Unnamed, Progress
<1>5. CASE NewKeymap
  <2>1. pc' = "entries" /\ BuildOK' /\ desc' \in Descs
    BY <1>5, LifecycleAssumption DEF NewKeymap, Begin, BuildOK, Progress, NoTables, Unnamed
  <2>2. model' # 0 /\ list' = NoList
    BY <1>5 DEF NewKeymap, Progress
  <2> QED  BY <2>1, <2>2 DEF Progress
<1>6. CASE NewClookup
  <2>1. pc' = "entries" /\ BuildOK' /\ build'.into = "clookup"
    BY <1>6 DEF NewClookup, Begin, BuildOK, Progress, Unnamed
  <2>2. model' # 0 /\ list' = NoList
    BY <1>6 DEF NewClookup, Progress
  <2> QED  BY <2>1, <2>2 DEF Progress
<1>7. CASE BuildCLookup \/ BuildNewCLookup
  <2>1. pc' = "entries" /\ BuildOK' /\ build'.into = "clookup"
    BY <1>7 DEF BuildCLookup, BuildNewCLookup, Begin, BuildOK
  <2>2. model' # 0 /\ list' = NoList
    BY <1>7 DEF BuildCLookup, BuildNewCLookup, Loaded, Progress
  <2> QED  BY <2>1, <2>2 DEF Progress
<1>8. CASE CreateList \/ AddLong \/ SetEntry \/ SetEntryFails \/ AddParent
  <2>1. HasEntry
    BY <1>8 DEF CreateList, AddLong, SetEntry, SetEntryFails, AddParent
  <2> QED  BY <1>8, <2>1, EntriesProgress
<1>9. CASE CreateListFails
  <2>1. BuildOK /\ model # 0 /\ list = NoList /\ list' = NoList /\ build.how = "static"
    BY <1>9 DEF CreateListFails, HasEntry, Progress
  <2>2. CASE build.into = "keymap"
    BY <1>9, <2>1, <2>2, EmptyProgress DEF CreateListFails, LoadFails, BuildOK, NoTables, Unnamed
  <2>3. CASE build.into = "clookup"
    <3>1. Unnamed
      BY <2>1, <2>3 DEF BuildOK
    <3>2. pc' = "identifierSID" /\ model' # 0 /\ Unnamed'
      BY <1>9, <2>1, <2>3, <3>1 DEF CreateListFails, Unnamed
    <3> QED  BY <2>1, <3>2 DEF Progress
  <2> QED  BY <1>9, <2>2, <2>3 DEF CreateListFails
<1>10. CASE KeymapFails
  <2>1. clookup = NoTable /\ Unnamed
    BY <1>10 DEF KeymapFails, HasEntry, Progress, BuildOK
  <2> QED  BY <1>10, <2>1, EmptyProgress DEF KeymapFails, LoadFails, NoTables, Unnamed
<1>11. CASE Halt
  <2>1. model # 0 /\ (list # NoList => build.entries # <<>>)
    BY <1>11 DEF Halt, HasEntry, Progress
  <2> QED  BY <1>11, <2>1 DEF Halt, Progress, tables
<1>12. CASE EntriesDone
  <2>1. BuildOK /\ model # 0 /\ list = NoList /\ (build.into = "keymap" => desc \in Descs)
    BY <1>12 DEF EntriesDone, Progress
  <2>2. UNCHANGED <<desc, model, tables, list>> /\ pc' = build.after
    BY <1>12 DEF EntriesDone
  <2> QED  BY <2>1, <2>2 DEF Progress, BuildOK, Unnamed, tables
<1>13. CASE NoClookup \/ SkipNames \/ NoIdentifierSID \/ NoSIDIdentifier
  BY <1>13 DEF NoClookup, SkipNames, NoIdentifierSID, NoSIDIdentifier, Progress, Unnamed, tables
<1>14. CASE BuildIdentifierSID \/ BuildSIDIdentifier
  <2>1. model' # 0 /\ list' = NoList
    BY <1>14 DEF BuildIdentifierSID, BuildSIDIdentifier, Progress
  <2>2. CASE BuildIdentifierSID
    BY <2>1, <2>2 DEF BuildIdentifierSID, Progress, Unnamed
  <2>3. CASE BuildSIDIdentifier
    BY <2>1, <2>3 DEF BuildSIDIdentifier, Progress
  <2> QED  BY <1>14, <2>2, <2>3
<1>15. CASE Register
  <2>1. pc = "idle" /\ model # 0 /\ UNCHANGED <<pc, model, list>>
    BY <1>15 DEF Register, Loaded
  <2> QED  BY <2>1 DEF Progress
<1> QED
  BY <1>1, <1>2, <1>3, <1>4, <1>5, <1>6, <1>7, <1>8, <1>9, <1>10, <1>11, <1>12, <1>13, <1>14, <1>15
     DEF Next, Client, Step

-----------------------------------------------------------------------------
(* The theorems *)

\* Every block has one owner or is lost, and a load that failed has nothing: this
\* survives every step of coreconfModel.c.
THEOREM Invariance == Spec => []IInv
<1>1. Init => IInv
  <2>1. SUFFICES ASSUME Init
                 PROVE  IInv
    OBVIOUS
  <2>2. AtStart
    BY <2>1 DEF Init, AtStart, NoTables, Unnamed
  <2>3. Shapes
    BY <2>1, NewShapes DEF Init, Shapes, NoBuild
  <2>4. Progress
    BY <2>1 DEF Init, Progress, NoTables, Unnamed, NoTable
  <2> QED  BY <2>2, <2>3, <2>4, StartAccounted DEF IInv
<1>2. IInv /\ [Next]_vars => IInv'
  BY StepAccounted, StepShapes, StepProgress DEF IInv
<1> QED  BY <1>1, <1>2, PTL DEF Spec

\* Whichever allocation fails, and whatever the order of loads, rebuilds,
\* registrations and frees: nothing that the model reaches was freed, and no
\* block is freed twice.
THEOREM OwnedOnce == Spec => []OneOwner
<1>1. IInv => OneOwner
  BY DEF IInv, Accounted, Accounts, SingleOwner, OneOwner
<1> QED  BY <1>1, Invariance, PTL

-----------------------------------------------------------------------------
(* How far the decoder of a keymap counts *)

\* f adds up the numbers g.
Sums(f, n, g) == f = [i \in 0 .. n |-> IF i = 0 THEN 0 ELSE f[i - 1] + g[i]]

\* There is such a function.
LEMMA SumsExist ==
  ASSUME NEW n \in Nat, NEW g
  PROVE  \E f : Sums(f, n, g)
<1> DEFINE S == {k \in Nat : \E f : Sums(f, k, g)}
<1>1. 0 \in S
  <2> DEFINE f == [i \in 0 .. 0 |-> 0]
  <2>1. Sums(f, 0, g)
    BY DEF Sums
  <2> QED  BY <2>1
<1>2. ASSUME NEW k \in Nat, k \in S PROVE k + 1 \in S
  <2>1. PICK f : Sums(f, k, g)
    BY <1>2
  <2> DEFINE h == [i \in 0 .. k + 1 |-> IF i <= k THEN f[i] ELSE f[k] + g[k + 1]]
             c(i) == IF i = 0 THEN 0 ELSE f[i - 1] + g[i]
             d(i) == IF i = 0 THEN 0 ELSE h[i - 1] + g[i]
  <2>2. \A i \in 0 .. k : f[i] = c(i)
    BY <2>1 DEF Sums
  <2>3. \A i \in 0 .. k : h[i] = f[i]
    OBVIOUS
  <2>4. h[k + 1] = f[k] + g[k + 1]
    OBVIOUS
  <2>5. h = [i \in 0 .. k + 1 |-> h[i]]
    OBVIOUS
  <2> HIDE DEF h
  <2>6. ASSUME NEW i \in 0 .. k + 1
        PROVE  h[i] = d(i)
    <3>1. CASE i = k + 1
      <4>1. i # 0 /\ i - 1 = k /\ k \in 0 .. k
        BY <3>1
      <4>2. h[i - 1] = f[k]
        BY <2>3, <4>1
      <4> QED  BY <2>4, <3>1, <4>1, <4>2
    <3>2. CASE i \in 0 .. k
      <4>1. h[i] = c(i)
        BY <2>2, <2>3, <3>2
      <4>2. i # 0 => h[i - 1] = f[i - 1]
        BY <2>3, <3>2
      <4> QED  BY <4>1, <4>2
    <3> QED  BY <3>1, <3>2
  <2>7. Sums(h, k + 1, g)
    BY <2>5, <2>6 DEF Sums
  <2> QED  BY <2>7
<1> HIDE DEF S
<1>3. n \in S
  BY <1>1, <1>2, NatSetInduction
<1> QED  BY <1>3 DEF S

\* Every entry counts for its keys and for itself.
LEMMA CountedSteps ==
  ASSUME NEW src \in Seq(Entries)
  PROVE  /\ Counted(src)[0] = 0
         /\ \A i \in 0 .. Len(src) : Counted(src)[i] \in Nat
         /\ \A i \in 1 .. Len(src) : Counted(src)[i] = Counted(src)[i - 1] + (Len(src[i].longs) + 1)
<1> DEFINE n == Len(src)
           g == [i \in 1 .. n |-> Len(src[i].longs) + 1]
           Body(f) == [i \in 0 .. n |-> IF i = 0 THEN 0 ELSE f[i - 1] + (Len(src[i].longs) + 1)]
           f == CHOOSE f : f = Body(f)
<1>1. n \in Nat /\ \A i \in 1 .. n : Len(src[i].longs) \in Nat
  BY DEF Entries
<1>2. Counted(src) = f
  BY DEF Counted
<1>3. PICK h : Sums(h, n, g)
  <2> HIDE DEF g, n
  <2> QED  BY <1>1, SumsExist
<1>4. h = Body(h)
  <2>1. h = [i \in 0 .. n |-> IF i = 0 THEN 0 ELSE h[i - 1] + g[i]]
    BY <1>3 DEF Sums
  <2>2. \A i \in 0 .. n : i # 0 => g[i] = Len(src[i].longs) + 1
    BY <1>1
  <2> HIDE DEF g
  <2> QED  BY <2>1, <2>2
<1> HIDE DEF Body, n
<1>5. f = Body(f)
  BY <1>4
<1> HIDE DEF f
<1>6. f[0] = 0
  BY <1>1, <1>5 DEF Body
<1>7. \A i \in 1 .. n : f[i] = f[i - 1] + (Len(src[i].longs) + 1)
  BY <1>1, <1>5 DEF Body
<1> DEFINE S == {k \in Nat : k <= n => f[k] \in Nat}
<1>8. 0 \in S
  BY <1>6
<1>9. ASSUME NEW k \in Nat, k \in S
      PROVE  k + 1 \in S
  <2>1. SUFFICES ASSUME k + 1 <= n
                 PROVE  f[k + 1] \in Nat
    OBVIOUS
  <2>2. k + 1 \in 1 .. n /\ (k + 1) - 1 = k /\ f[k] \in Nat
    BY <1>1, <1>9, <2>1
  <2>3. f[k + 1] = f[k] + (Len(src[k + 1].longs) + 1)
    BY <1>7, <2>2
  <2> QED  BY <1>1, <2>2, <2>3
<1> HIDE DEF S
<1>10. \A k \in Nat : k \in S
  BY <1>8, <1>9, NatSetInduction
<1> QED  BY <1>1, <1>2, <1>6, <1>7, <1>10 DEF n, S

\* The counter never falls.
LEMMA CountedRises ==
  ASSUME NEW src \in Seq(Entries), NEW i \in 0 .. Len(src)
  PROVE  Counted(src)[i] <= Counted(src)[Len(src)]
<1> DEFINE n == Len(src)
           S == {k \in Nat : i + k <= n => Counted(src)[i] <= Counted(src)[i + k]}
<1>1. n \in Nat /\ \A j \in 1 .. n : Len(src[j].longs) \in Nat
  BY DEF Entries
<1>2. \A j \in 0 .. n : Counted(src)[j] \in Nat
  BY CountedSteps
<1>3. \A j \in 1 .. n : Counted(src)[j] = Counted(src)[j - 1] + (Len(src[j].longs) + 1)
  BY CountedSteps
<1> HIDE DEF n
<1>4. i \in 0 .. n
  BY DEF n
<1>5. 0 \in S
  BY <1>1, <1>2, <1>4
<1>6. ASSUME NEW k \in Nat, k \in S
      PROVE  k + 1 \in S
  <2>1. SUFFICES ASSUME i + (k + 1) <= n
                 PROVE  Counted(src)[i] <= Counted(src)[i + (k + 1)]
    OBVIOUS
  <2> DEFINE j == i + (k + 1)
  <2>2. j \in 1 .. n /\ j - 1 = i + k /\ i + k <= n /\ j - 1 \in 0 .. n
    BY <1>1, <1>4, <2>1
  <2>3. Counted(src)[i] <= Counted(src)[i + k]
    BY <1>6, <2>2
  <2>4. Counted(src)[j] = Counted(src)[j - 1] + (Len(src[j].longs) + 1)
    BY <1>3, <2>2
  <2>5. Counted(src)[j - 1] \in Nat /\ Counted(src)[i] \in Nat /\ Len(src[j].longs) \in Nat
    BY <1>1, <1>2, <1>4, <2>2
  <2> HIDE DEF j
  <2>6. Counted(src)[i] <= Counted(src)[j]
    BY <2>2, <2>3, <2>4, <2>5
  <2> QED  BY <2>6 DEF j
<1> HIDE DEF S
<1>7. n - i \in S
  BY <1>1, <1>4, <1>5, <1>6, NatSetInduction
<1>8. i + (n - i) = n /\ n - i \in Nat
  BY <1>1, <1>4
<1>9. Counted(src)[i] <= Counted(src)[n]
  BY <1>1, <1>7, <1>8 DEF S
<1> QED  BY <1>9 DEF n

-----------------------------------------------------------------------------
(* What has been built, as long as nothing has failed *)

\* A list has a buffer for its values.
Filled(l) == l.longs \in Seq(Int) /\ (l.buffer = 0 => l.longs = <<>>)

ParentsUpTo(entries, n, sid) ==
  {p \in Int : \E i \in 1 .. n : entries[i].sid = sid /\ p \in ToSet(entries[i].longs)}

\* The table t has what the first n entries say, a keymap the keys in their
\* order (those of the last entry for a SID), a table of parents each parent once.
HasKeys(t, entries, n) ==
  \A i \in 1 .. n :
    (\A j \in i + 1 .. n : entries[j].sid # entries[i].sid)
      => t.items[entries[i].sid].longs = entries[i].longs
HasParents(t, entries, n) ==
  \A sid \in DOMAIN t.items :
    /\ IsInjective(t.items[sid].longs)
    /\ ToSet(t.items[sid].longs) = ParentsUpTo(entries, n, sid)
SIDsIn(t, entries, n) == DOMAIN t.items = {entries[i].sid : i \in 1 .. n}
Has(t, into, entries, n) ==
  /\ SIDsIn(t, entries, n) /\ \A sid \in DOMAIN t.items : Filled(t.items[sid])
  /\ into = "keymap" => HasKeys(t, entries, n)
  /\ into = "clookup" => HasParents(t, entries, n)

\* The list l has what is not left of the entry e.
Filling(l, left, into, e) ==
  /\ l.id # 0 /\ Filled(l) /\ left \in Seq(Int)
  /\ into = "keymap" => l.longs \o left = e.longs
  /\ into = "clookup" => IsInjective(l.longs) /\ ToSet(l.longs) \cup ToSet(left) = ToSet(e.longs)

\* What tables are made from.
ParentSources == desc.walks \cup (IF desc.clookup.how = "static" THEN {desc.clookup.entries} ELSE {})
Sources ==
  IF build.into = "keymap" THEN {desc.keymap.entries}
  ELSE IF build.how = "static" THEN {desc.clookup.entries} ELSE desc.walks

\* A SID may be twice in a malformed keymap.
Single == build.how = "cbor" => malformed = {}

\* The first i entries of src are in the table, the next one may be in the list.
Built(src, i) ==
  /\ build.entries = SubSeq(src, i + 1, Len(src))
  /\ Has(table, build.into, src, i)
  /\ list # NoList =>
       /\ Filling(list, build.left, build.into, src[i + 1])
       /\ Single => src[i + 1].sid \notin DOMAIN table.items
  /\ build.how = "cbor" =>
       build.loopCounter = IF list = NoList THEN Counted(src)[i]
                           ELSE Counted(src)[i + 1] - (Len(build.left) + 1)

Building(into) == pc = "entries" /\ build.into = into

BuildSound ==
  pc = "entries" =>
    /\ build.into = "keymap" => build.how = desc.keymap.how
    /\ Building("clookup") /\ build.how = "static" => desc.clookup.how = "static"
    /\ \E src \in Sources : \E i \in 0 .. Len(src) : Built(src, i)

KeymapSound ==
  pc \notin {"root", "keymap"} /\ ~Building("keymap") =>
    Has(keymap, "keymap", desc.keymap.entries, Len(desc.keymap.entries))

ParentsSound ==
  clookup # NoTable /\ ~Building("clookup") =>
    \E src \in ParentSources : Has(clookup, "clookup", src, Len(src))

NamesSound ==
  /\ identifierSID # NoTable =>
       identifierSID.items = [i \in {e.identifier : e \in Named} |->
                                (CHOOSE e \in Named : e.identifier = i).sid]
  /\ SIDIdentifier # NoTable =>
       SIDIdentifier.items = [s \in {e.sid : e \in Named} |->
                                (CHOOSE e \in Named : e.sid = s).identifier]

DescSound ==
  /\ desc \in Descs /\ (pc # "root" => desc.instance)
  /\ malformed = {} => WellFormed(desc.keymap)

TablesSound == BuildSound /\ KeymapSound /\ ParentsSound /\ NamesSound

\* A block is lost only by a fault or by a malformed keymap, and without a fault
\* a model has what it was loaded from.
Whole ==
  /\ faults \in Nat
  /\ faults = 0 /\ malformed = {} => lost = {}
  /\ faults = 0 /\ model # 0 /\ pc # "halted" =>
       DescSound /\ (Arrays(desc.keymap.entries) => TablesSound)

\* A keymap with an entry that is not an array is never done: the decoder is not
\* past that entry.
Unfinished ==
  /\ build.entries \in Seq([sid : Int, longs : (Seq(Int) \ {<<>>}) \cup {NULL}])
  /\ ~Arrays(build.entries)
  /\ list # NoList => entry.longs # NULL

Stuck ==
  model # 0 /\ pc # "halted" /\ ~Arrays(desc.keymap.entries) =>
    pc \in {"root", "keymap"} \/ (Building("keymap") /\ Unfinished)

-----------------------------------------------------------------------------
(* Entries and lists *)

LEMMA KeymapFacts ==
  ASSUME DescSound, Arrays(desc.keymap.entries)
  PROVE  /\ desc.keymap.entries \in Seq(Entries)
         /\ desc.keymap.how = "static" \/ malformed = {} => Once(desc.keymap.entries)
         /\ \A i \in DOMAIN desc.keymap.entries : desc.keymap.entries[i].longs # <<>>
<1> DEFINE Rows == [sid : Int, longs : (Seq(Int) \ {<<>>}) \cup {NULL}]
           src == desc.keymap.entries
<1>1. /\ src \in Seq(Rows) /\ Arrays(src)
      /\ desc.keymap.how = "static" \/ malformed = {} => Once(src)
  BY LifecycleAssumption DEF DescSound, WellFormed
<1> HIDE DEF Rows, src
<1>2. \A i \in 1 .. Len(src) : src[i] \in Entries /\ src[i].longs # <<>>
  <2> TAKE i \in 1 .. Len(src)
  <2>1. src[i] \in Rows /\ i \in DOMAIN src
    BY <1>1
  <2>2. src[i].longs # NULL
    BY <1>1, <2>1 DEF Arrays
  <2> QED  BY <2>1, <2>2, LifecycleAssumption DEF Entries, Rows
<1>3. Len(src) \in Nat /\ DOMAIN src = 1 .. Len(src) /\ src = [i \in 1 .. Len(src) |-> src[i]]
  BY <1>1
<1>4. src \in [1 .. Len(src) -> Entries]
  BY <1>2, <1>3
<1>5. src \in Seq(Entries)
  BY <1>3, <1>4
<1> QED  BY <1>1, <1>2, <1>3, <1>5 DEF src

LEMMA SourceFacts ==
  ASSUME DescSound, Arrays(desc.keymap.entries), BuildOK, NEW src \in Sources,
         build.into = "keymap" => build.how = desc.keymap.how,
         build.into = "clookup" /\ build.how = "static" => desc.clookup.how = "static"
  PROVE  /\ src \in Seq(Entries)
         /\ build.how # "walk" /\ Single => Once(src)
         /\ build.how = "walk" => \A i \in DOMAIN src : Len(src[i].longs) = 1
         /\ build.into = "keymap" => \A i \in DOMAIN src : src[i].longs # <<>>
         /\ build.into = "clookup" => src \in ParentSources
         /\ build.how = "cbor" /\ Single => Counted(src)[Len(src)] <= CORECONF_MAX_LOOP + 2
<1>1. CASE build.into = "keymap"
  <2>1. src = desc.keymap.entries
    BY <1>1 DEF Sources
  <2>2. build.how = "cbor" /\ Single => Counted(src)[Len(src)] <= CORECONF_MAX_LOOP + 2
    BY <1>1, <2>1 DEF DescSound, WellFormed, Single
  <2> QED  BY <1>1, <2>1, <2>2, KeymapFacts DEF BuildOK, Single
<1>2. CASE build.into = "clookup" /\ build.how = "static"
  BY <1>2, LifecycleAssumption DEF Sources, ParentSources, DescSound
<1>3. CASE build.into = "clookup" /\ build.how = "walk"
  BY <1>3, LifecycleAssumption DEF Sources, ParentSources, DescSound
<1> QED  BY <1>1, <1>2, <1>3 DEF BuildOK

LEMMA Below ==
  \A n \in Nat : \A i \in 0 .. n : (i = n \/ i < n) /\ (i # n => i + 1 \in 1 .. n)
OBVIOUS

\* The entry that is next.
LEMMA EntryFacts ==
  ASSUME NEW src \in Seq(Entries), NEW i \in 0 .. Len(src),
         build.entries = SubSeq(src, i + 1, Len(src))
  PROVE  /\ build.entries = <<>> => i = Len(src)
         /\ build.entries # <<>> =>
              /\ i + 1 \in 1 .. Len(src) /\ i + 1 \in DOMAIN src
              /\ entry = src[i + 1] /\ entry \in Entries
              /\ Tail(build.entries) = SubSeq(src, (i + 1) + 1, Len(src))
<1>1. Len(src) \in Nat /\ DOMAIN src = 1 .. Len(src)
  OBVIOUS
<1>2. build.entries = <<>> <=> i = Len(src)
  <2>1. CASE i = Len(src)
    <3>1. SubSeq(src, Len(src) + 1, Len(src)) = <<>>
      BY <1>1
    <3> QED  BY ONLY <2>1, <3>1, build.entries = SubSeq(src, i + 1, Len(src))
  <2>2. CASE i < Len(src)
    <3>1. i + 1 \in Int /\ Len(src) \in Int /\ i + 1 <= Len(src)
          /\ \A k \in i + 1 .. Len(src) : src[k] \in Entries
      BY <1>1, <2>2
    <3>2. Len(build.entries) = Len(src) - (i + 1) + 1
      BY <3>1, SubSeqProperties
    <3>3. i \in Nat /\ Len(src) \in Nat
      OBVIOUS
    <3>4. Len(build.entries) # 0
      BY ONLY <2>2, <3>2, <3>3
    <3>5. Len(<<>>) = 0
      OBVIOUS
    <3>6. build.entries # <<>>
      BY ONLY <3>4, <3>5
    <3> QED  BY ONLY <2>2, <3>3, <3>6
  <2>3. i = Len(src) \/ i < Len(src)
    BY <1>1, Below
  <2> QED  BY ONLY <2>1, <2>2, <2>3
<1>3. ASSUME build.entries # <<>>
      PROVE  i + 1 \in 1 .. Len(src)
  <2>1. i # Len(src)
    BY ONLY <1>2, <1>3
  <2> QED  BY <1>1, <2>1, Below
<1>4. ASSUME build.entries # <<>>
      PROVE  entry = src[i + 1] /\ entry \in Entries
  BY <1>1, <1>3, <1>4 DEF entry
<1>5. ASSUME build.entries # <<>>
      PROVE  Tail(build.entries) = SubSeq(src, (i + 1) + 1, Len(src))
  <2>1. i + 1 \in 1 .. Len(src)
    BY <1>3, <1>5
  <2> QED  BY <1>1, <2>1
<1> QED  BY <1>1, <1>2, <1>3, <1>4, <1>5

\* A list that a value is added to and that has its memory.
LEMMA AppendsLong ==
  ASSUME IsList(list), Accounted, NEW j, IsList(j), Filled(j), NEW v \in Int,
         NEW m \in Grows(j, v), Allocated(j, m), faults \in Nat, faults' = 0
  PROVE  /\ m.id = j.id /\ m.buffer # 0 /\ m.longs = Append(j.longs, v)
         /\ Filled(m) /\ lost' = lost
<1> DEFINE b == j.buffer
           i == j.id
           values == j.longs
           longs == Append([z \in DOMAIN values |-> NULL], v)
           more == Append(values, v)
<1>1. j = [id |-> i, buffer |-> b, longs |-> values]
  BY DEF IsList
<1>2. b = 0 => longs = more
  <2>1. b = 0 => values = <<>>
    BY DEF Filled
  <2>2. [z \in DOMAIN <<>> |-> NULL] = <<>>
    OBVIOUS
  <2> QED  BY <2>1, <2>2
<1>3. more \in Seq(Int)
  BY DEF Filled
<1> HIDE DEF b, i, values, longs, more
<1>4. \/ b = 0 /\ m = [id |-> i, buffer |-> fresh, longs |-> longs]
      \/ b # 0 /\ m = [id |-> i, buffer |-> b, longs |-> more]
      \/ m = [id |-> i, buffer |-> 0, longs |-> values]
  BY <1>1 DEF Grows, longs, more
<1>5. fresh # 0
  BY DEF Accounted, Accounts, fresh
<1>6. m.buffer # 0
  BY <1>5 DEF Allocated
<1>7. m.id = i /\ m.longs = more /\ (m.buffer = fresh \/ m.buffer = b)
  BY <1>2, <1>4, <1>6
<1>8. lost' = lost
  <2>1. CASE m.buffer = fresh
    BY <2>1 DEF Allocated, Allocate
  <2>2. CASE m.buffer # fresh
    BY <1>7, <2>2 DEF Allocated, b
  <2> QED  BY <2>1, <2>2
<1>9. Filled(m)
  BY <1>3, <1>6, <1>7 DEF Filled
<1> QED  BY <1>6, <1>7, <1>8, <1>9 DEF i, more, values

LEMMA AddedTo ==
  ASSUME NEW s \in Seq(Int), NEW v \in Int
  PROVE  /\ ToSet(Append(s, v)) = ToSet(s) \cup {v}
         /\ IsInjective(s) /\ v \notin ToSet(s) => IsInjective(Append(s, v))
<1> DEFINE t == Append(s, v)
           n == Len(s)
<1>1. /\ n \in Nat /\ DOMAIN s = 1 .. n /\ DOMAIN t = 1 .. n + 1
      /\ t[n + 1] = v /\ \A i \in 1 .. n : t[i] = s[i]
  OBVIOUS
<1> HIDE DEF t, n
<1>2. ToSet(t) = ToSet(s) \cup {v}
  BY <1>1 DEF ToSet
<1>3. IsInjective(s) /\ v \notin ToSet(s) => IsInjective(t)
  BY <1>1 DEF ToSet, IsInjective
<1> QED  BY <1>2, <1>3 DEF t

\* A parent is added if it is not there.
LEMMA AddsParent ==
  ASSUME IsList(list), Accounted, NEW j, IsList(j), Filled(j), IsInjective(j.longs), NEW v \in Int,
         NEW m \in GrowsUnique(j, v), Allocated(j, m), faults \in Nat, faults' = 0
  PROVE  /\ m.id = j.id /\ Filled(m) /\ lost' = lost
         /\ IsInjective(m.longs) /\ ToSet(m.longs) = ToSet(j.longs) \cup {v}
<1>1. NULL \notin ToSet(j.longs)
  BY LifecycleAssumption DEF Filled, ToSet
<1>2. CASE m \in Grows(j, v) /\ v \notin ToSet(j.longs)
  <2>1. m.id = j.id /\ m.longs = Append(j.longs, v) /\ Filled(m) /\ lost' = lost
    BY <1>2, AppendsLong
  <2>2. j.longs \in Seq(Int)
    BY DEF Filled
  <2> QED  BY <1>2, <2>1, <2>2, AddedTo
<1>3. CASE m = j /\ v \in ToSet(j.longs)
  <2>1. lost' = lost
    BY <1>3 DEF Allocated, Allocate
  <2> QED  BY <1>3, <2>1
<1> QED  BY <1>1, <1>2, <1>3 DEF GrowsUnique

-----------------------------------------------------------------------------
(* One entry more *)

LEMMA ParentsNext ==
  ASSUME NEW src \in Seq(Entries), NEW i \in Nat, i + 1 \in 1 .. Len(src), NEW sid
  PROVE  ParentsUpTo(src, i + 1, sid)
           = ParentsUpTo(src, i, sid) \cup (IF src[i + 1].sid = sid THEN ToSet(src[i + 1].longs) ELSE {})
<1>1. ToSet(src[i + 1].longs) \subseteq Int
  <2>1. src[i + 1] \in Entries
    OBVIOUS
  <2>2. src[i + 1].longs \in Seq(Int)
    BY <2>1 DEF Entries
  <2> QED  BY <2>2 DEF ToSet
<1>2. \A j : j \in 1 .. i + 1 <=> j \in 1 .. i \/ j = i + 1
  OBVIOUS
<1> QED  BY <1>1, <1>2 DEF ParentsUpTo

LEMMA HasMore ==
  ASSUME NEW src \in Seq(Entries), NEW i \in Nat, i + 1 \in 1 .. Len(src),
         NEW into, NEW t, NEW u, NEW m, Has(t, into, src, i), Put(u, t, src[i + 1].sid, m),
         Filled(m),
         into = "keymap" => m.longs = src[i + 1].longs,
         into = "clookup" =>
           /\ IsInjective(m.longs)
           /\ ToSet(m.longs) = (IF src[i + 1].sid \in DOMAIN t.items
                                THEN ToSet(t.items[src[i + 1].sid].longs) ELSE {})
                               \cup ToSet(src[i + 1].longs)
  PROVE  Has(u, into, src, i + 1)
<1> DEFINE k == src[i + 1].sid
<1>1. \A j : j \in 1 .. i + 1 <=> j \in 1 .. i \/ j = i + 1
  OBVIOUS
<1>2. SIDsIn(u, src, i + 1)
  BY <1>1 DEF Has, SIDsIn, Put
<1>3. \A sid \in DOMAIN u.items : Filled(u.items[sid])
  BY DEF Has, Put
<1>4. ASSUME into = "keymap"
      PROVE  HasKeys(u, src, i + 1)
  <2>1. SUFFICES ASSUME NEW j \in 1 .. i + 1, \A l \in j + 1 .. i + 1 : src[l].sid # src[j].sid
                 PROVE  u.items[src[j].sid].longs = src[j].longs
    BY DEF HasKeys
  <2>2. CASE j = i + 1
    BY <1>4, <2>2 DEF Put
  <2>3. CASE j \in 1 .. i
    <3>1. i + 1 \in j + 1 .. i + 1 /\ \A l \in j + 1 .. i : l \in j + 1 .. i + 1
      BY <2>3
    <3>2. src[j].sid # src[i + 1].sid /\ \A l \in j + 1 .. i : src[l].sid # src[j].sid
      BY <2>1, <3>1
    <3>3. src[j].sid \in DOMAIN t.items /\ t.items[src[j].sid].longs = src[j].longs
      BY <1>4, <2>3, <3>2 DEF Has, HasKeys, SIDsIn
    <3> QED  BY <3>2, <3>3 DEF Put
  <2> QED  BY <1>1, <2>2, <2>3
<1>5. ASSUME into = "clookup"
      PROVE  HasParents(u, src, i + 1)
  <2>1. HasParents(t, src, i)
    BY <1>5 DEF Has
  <2>2. SUFFICES ASSUME NEW sid \in DOMAIN u.items
                 PROVE  /\ IsInjective(u.items[sid].longs)
                        /\ ToSet(u.items[sid].longs) = ParentsUpTo(src, i + 1, sid)
    BY DEF HasParents
  <2>3. ParentsUpTo(src, i + 1, sid)
          = ParentsUpTo(src, i, sid) \cup (IF k = sid THEN ToSet(src[i + 1].longs) ELSE {})
    BY ParentsNext
  <2>4. CASE sid # k
    <3>1. sid \in DOMAIN t.items /\ u.items[sid] = t.items[sid]
      BY <2>4 DEF Put
    <3> QED  BY <2>1, <2>3, <2>4, <3>1 DEF HasParents
  <2>5. CASE sid = k
    <3>1. u.items[sid] = m
      BY <2>5 DEF Put
    <3>2. ParentsUpTo(src, i, k) = IF k \in DOMAIN t.items THEN ToSet(t.items[k].longs) ELSE {}
      <4>1. k \in DOMAIN t.items => ToSet(t.items[k].longs) = ParentsUpTo(src, i, k)
        BY <2>1 DEF HasParents
      <4>2. k \notin DOMAIN t.items => ParentsUpTo(src, i, k) = {}
        BY DEF Has, SIDsIn, ParentsUpTo
      <4> QED  BY <4>1, <4>2
    <3> QED  BY <1>5, <2>3, <2>5, <3>1, <3>2
  <2> QED  BY <2>4, <2>5
<1> QED  BY <1>2, <1>3, <1>4, <1>5 DEF Has

\* The table being built, when an item is put in it.
LEMMA TableNext ==
  ASSUME Shapes, build.into \in {"keymap", "clookup"}, build'.into = build.into,
         NEW items, SetItems(items)
  PROVE  /\ table'.items = items /\ table'.id = table.id
         /\ build.into = "keymap" => clookup' = clookup
         /\ build.into = "clookup" => keymap' = keymap
<1>1. CASE build.into = "keymap"
  <2>1. keymap = [id |-> keymap.id, items |-> keymap.items]
    BY DEF Shapes, IsTable
  <2>2. keymap' = [keymap EXCEPT !.items = items] /\ clookup' = clookup
    BY <1>1 DEF SetItems
  <2> QED  BY <1>1, <2>1, <2>2 DEF table
<1>2. CASE build.into = "clookup"
  <2>1. clookup = [id |-> clookup.id, items |-> clookup.items]
    BY DEF Shapes, IsTable
  <2>2. clookup' = [clookup EXCEPT !.items = items] /\ keymap' = keymap
    BY <1>2 DEF SetItems
  <2> QED  BY <1>2, <2>1, <2>2 DEF table
<1> QED  BY <1>1, <1>2

-----------------------------------------------------------------------------
(* The loops that build a table, without a fault *)

\* What all of them leave alone.
BuildStep ==
  /\ HasEntry /\ pc' = "entries" /\ SameTable(build, build')
  /\ UNCHANGED <<desc, model, root, identifierSID, SIDIdentifier, malformed>>
  /\ build.into = "keymap" => clookup' = clookup
  /\ build.into = "clookup" => keymap' = keymap

Ready ==
  IInv /\ Whole /\ faults = 0 /\ model # 0 /\ pc # "halted" /\ Arrays(desc.keymap.entries)

\* What is known of the entry that is next.
LEMMA NextEntryFacts ==
  ASSUME Ready, HasEntry, NEW src \in Sources, NEW i \in 0 .. Len(src), Built(src, i)
  PROVE  /\ src \in Seq(Entries) /\ i \in Nat /\ i + 1 \in 1 .. Len(src) /\ i + 1 \in DOMAIN src
         /\ entry = src[i + 1] /\ entry \in Entries /\ entry.longs \in Seq(Int)
         /\ Tail(build.entries) = SubSeq(src, (i + 1) + 1, Len(src))
         /\ BuildOK /\ IsBuild(build) /\ build.into \in {"keymap", "clookup"}
         /\ build.how # "walk" /\ Single => Once(src)
         /\ build.how = "walk" => build.into = "clookup" /\ Len(entry.longs) = 1
         /\ build.into = "keymap" => entry.longs # <<>> /\ build.how # "walk"
         /\ build.into = "clookup" => Single
         /\ build.how = "cbor" /\ Single => Counted(src)[i + 1] <= CORECONF_MAX_LOOP + 2
         /\ Counted(src)[i + 1] = Counted(src)[i] + (Len(entry.longs) + 1)
         /\ Counted(src)[i] \in Nat /\ Counted(src)[i + 1] \in Nat
<1>1. /\ DescSound /\ BuildSound /\ BuildOK /\ build.entries # <<>>
      /\ Arrays(desc.keymap.entries)
  BY DEF Ready, Whole, TablesSound, HasEntry, IInv, Progress
<1>2. /\ build.into = "keymap" => build.how = desc.keymap.how
      /\ build.into = "clookup" /\ build.how = "static" => desc.clookup.how = "static"
  BY <1>1 DEF BuildSound, Building, HasEntry
<1>3. /\ src \in Seq(Entries)
      /\ build.how # "walk" /\ Single => Once(src)
      /\ build.how = "walk" => \A j \in DOMAIN src : Len(src[j].longs) = 1
      /\ build.into = "keymap" => \A j \in DOMAIN src : src[j].longs # <<>>
      /\ build.how = "cbor" /\ Single => Counted(src)[Len(src)] <= CORECONF_MAX_LOOP + 2
  BY <1>1, <1>2, SourceFacts
<1>4. /\ i + 1 \in 1 .. Len(src) /\ i + 1 \in DOMAIN src
      /\ entry = src[i + 1] /\ entry \in Entries
      /\ Tail(build.entries) = SubSeq(src, (i + 1) + 1, Len(src))
  <2>1. build.entries = SubSeq(src, i + 1, Len(src))
    BY DEF Built
  <2> QED  BY <1>1, <1>3, <2>1, EntryFacts
<1>5. /\ Counted(src)[i] \in Nat /\ Counted(src)[i + 1] \in Nat
      /\ Counted(src)[i + 1] <= Counted(src)[Len(src)]
      /\ Counted(src)[i + 1] = Counted(src)[i] + (Len(entry.longs) + 1)
  <2>1. i + 1 \in 0 .. Len(src) /\ (i + 1) - 1 = i
    BY <1>4
  <2> QED  BY <1>3, <1>4, <2>1, CountedSteps, CountedRises
<1>6. build.how = "cbor" /\ Single => Counted(src)[i + 1] <= CORECONF_MAX_LOOP + 2
  <2>1. Counted(src)[Len(src)] \in Nat
    <3>1. Len(src) \in 0 .. Len(src)
      BY <1>3
    <3> QED  BY <1>3, <3>1, CountedSteps
  <2> QED  BY <1>3, <1>5, <2>1, LifecycleAssumption
<1>7. entry.longs \in Seq(Int)
  BY <1>4 DEF Entries
<1>8. IsBuild(build)
  BY DEF Ready, IInv, Shapes, IsBuild
<1>9. i \in Nat
  OBVIOUS
<1>10. /\ build.into \in {"keymap", "clookup"} /\ (build.how = "walk" => build.into = "clookup")
       /\ build.into = "clookup" => Single
  BY <1>1 DEF BuildOK, Single
<1> QED  BY <1>1, <1>3, <1>4, <1>5, <1>6, <1>7, <1>8, <1>9, <1>10

LEMMA BuildsOn ==
  ASSUME Ready, BuildStep, faults' = 0, malformed = {} => lost' = lost,
         \E src \in Sources : \E i \in 0 .. Len(src) : Built(src, i)'
  PROVE  Whole'
<1>1. /\ DescSound /\ BuildSound /\ KeymapSound /\ ParentsSound /\ NamesSound
      /\ BuildOK /\ pc = "entries" /\ pc' = "entries"
  BY DEF Ready, Whole, TablesSound, BuildStep, HasEntry, IInv, Progress
<1>2. build'.into = build.into /\ build'.how = build.how
  BY DEF BuildStep, SameTable
<1>3. DescSound'
  BY <1>1 DEF BuildStep, DescSound
<1>4. Sources' = Sources
  BY <1>2 DEF BuildStep, Sources
<1>5. BuildSound'
  BY <1>1, <1>2, <1>4 DEF BuildStep, BuildSound, Building
<1>6. KeymapSound'
  BY <1>1, <1>2 DEF BuildStep, KeymapSound, Building, BuildOK
<1>7. ParentsSound'
  BY <1>1, <1>2 DEF BuildStep, ParentsSound, Building, BuildOK
<1>8. NamesSound'
  BY <1>1 DEF BuildStep, NamesSound, Named
<1> QED  BY <1>3, <1>5, <1>6, <1>7, <1>8 DEF Ready, Whole, TablesSound, BuildStep

LEMMA CreateListWhole ==
  ASSUME Ready, CreateList
  PROVE  Whole'
<1>1. HasEntry /\ list = NoList /\ ~Existing /\ list' = NewList /\ faults' = 0 /\ lost' = lost
      /\ build' = [build EXCEPT !.left = entry.longs]
      /\ UNCHANGED <<pc, desc, model, root, keymap, clookup, identifierSID, SIDIdentifier, malformed>>
  BY DEF CreateList, Allocate, tables, Ready
<1>2. pc = "entries" /\ BuildSound
  BY <1>1 DEF HasEntry, Ready, Whole, TablesSound
<1>3. PICK src \in Sources : \E i \in 0 .. Len(src) : Built(src, i)
  BY <1>2 DEF BuildSound
<1>4. PICK i \in 0 .. Len(src) : Built(src, i)
  BY <1>3
<1> DEFINE e == src[i + 1]
           longs == entry.longs
<1>5. /\ src \in Seq(Entries) /\ i \in Nat /\ i + 1 \in DOMAIN src
      /\ entry = e /\ longs \in Seq(Int) /\ IsBuild(build)
      /\ build.how # "walk" /\ Single => Once(src)
      /\ Counted(src)[i + 1] = Counted(src)[i] + (Len(longs) + 1) /\ Counted(src)[i] \in Nat
      /\ build.into \in {"keymap", "clookup"}
  BY <1>1, <1>4, NextEntryFacts
<1> HIDE DEF longs
<1>6. SameTable(build, build') /\ build'.entries = build.entries
      /\ build'.left = longs /\ build'.loopCounter = build.loopCounter
  <2>1. build' = [build EXCEPT !.left = longs]
    BY <1>1 DEF longs
  <2>2. /\ [build EXCEPT !.left = longs].left = longs
        /\ [build EXCEPT !.left = longs].loopCounter = build.loopCounter
    BY <1>5 DEF IsBuild
  <2> QED  BY <1>5, <2>1, <2>2, OneField
<1>7. table' = table
  BY <1>1, <1>6 DEF table, SameTable
<1>8. Single => e.sid \notin DOMAIN table.items
  <2>1. CASE build.how = "walk"
    BY <1>1, <1>5, <2>1 DEF Existing
  <2>2. CASE build.how # "walk" /\ Single
    <3>1. SUFFICES ASSUME NEW j \in 1 .. i, src[j].sid = e.sid
                   PROVE  FALSE
      BY <1>4 DEF Built, Has, SIDsIn
    <3>2. j \in DOMAIN src /\ j # i + 1
      BY <1>5
    <3> QED  BY <1>5, <2>2, <3>1, <3>2 DEF Once
  <2> QED  BY <2>1, <2>2
<1>9. list'.id # 0 /\ list'.longs = <<>> /\ list'.buffer = 0
  BY <1>1 DEF NewList, fresh, Ready, IInv, Accounted, Accounts
<1>10. Filling(list', build'.left, build.into, e)
  <2>1. e.longs = longs
    BY <1>5 DEF longs
  <2> HIDE DEF e
  <2>2. <<>> \o longs = longs /\ IsInjective(<<>>) /\ ToSet(<<>>) = {} /\ <<>> \in Seq(Int)
    BY <1>5 DEF IsInjective, ToSet
  <2>3. Filled(list')
    BY <1>9, <2>2 DEF Filled
  <2>4. list'.longs \o build'.left = e.longs
    BY <1>6, <1>9, <2>1, <2>2
  <2> QED  BY <1>5, <1>6, <1>9, <2>1, <2>2, <2>3, <2>4 DEF Filling
<1>11. list' # NoList
  BY <1>9 DEF NoList
<1>12. build.how = "cbor" => build'.loopCounter = Counted(src)[i + 1] - (Len(build'.left) + 1)
  <2>1. Len(longs) \in Nat
    BY <1>5
  <2>2. build.how = "cbor" => build.loopCounter = Counted(src)[i]
    BY <1>1, <1>4 DEF Built
  <2> QED  BY <1>5, <1>6, <2>1, <2>2
<1>13. Built(src, i)'
  BY <1>1, <1>4, <1>6, <1>7, <1>8, <1>10, <1>11, <1>12 DEF Built, SameTable, Single
<1>14. BuildStep
  BY <1>1, <1>2, <1>6 DEF BuildStep
<1> QED  BY <1>1, <1>13, <1>14, BuildsOn

\* A sequence without its head.
LEMMA HeadAndTail ==
  ASSUME NEW f \in Seq(Int), f # <<>>
  PROVE  /\ Head(f) \in Int /\ Tail(f) \in Seq(Int) /\ Len(f) = Len(Tail(f)) + 1
         /\ ToSet(f) = {Head(f)} \cup ToSet(Tail(f))
         /\ \A s \in Seq(Int) : Append(s, Head(f)) \o Tail(f) = s \o f
<1>1. /\ Head(f) \in Int /\ Tail(f) \in Seq(Int) /\ Len(f) = Len(Tail(f)) + 1
      /\ Head(f) = f[1] /\ \A i \in 1 .. Len(Tail(f)) : Tail(f)[i] = f[i + 1]
  OBVIOUS
<1>2. ToSet(f) = {Head(f)} \cup ToSet(Tail(f))
  <2> DEFINE h == Head(f)
             t == Tail(f)
             n == Len(t)
  <2>1. DOMAIN f = 1 .. n + 1 /\ DOMAIN t = 1 .. n /\ n \in Nat /\ f[1] = h
        /\ \A i \in 1 .. n : t[i] = f[i + 1]
    BY <1>1
  <2> HIDE DEF h, t, n
  <2>2. \A i \in 1 .. n + 1 : i # 1 => i - 1 \in 1 .. n /\ t[i - 1] = f[i]
    BY <2>1
  <2>3. \A i \in 1 .. n : i + 1 \in 1 .. n + 1
    BY <2>1
  <2>4. 1 \in 1 .. n + 1
    BY <2>1
  <2>5. ToSet(f) = {f[i] : i \in 1 .. n + 1} /\ ToSet(t) = {t[i] : i \in 1 .. n}
    BY <2>1 DEF ToSet
  <2>6. ToSet(f) \subseteq {h} \cup ToSet(t)
    BY <2>1, <2>2, <2>5
  <2>7. {h} \cup ToSet(t) \subseteq ToSet(f)
    BY <2>1, <2>3, <2>4, <2>5
  <2> QED  BY <2>6, <2>7 DEF h, t
<1>3. ASSUME NEW s \in Seq(Int)
      PROVE  Append(s, Head(f)) \o Tail(f) = s \o f
  <2> DEFINE one == <<Head(f)>>
             t == Tail(f)
             more == Append(s, Head(f))
  <2>1. f = one \o t
    BY HeadTailProperties, AppendIsConcat
  <2>2. more = s \o one
    BY <1>1, <1>3, AppendIsConcat
  <2>3. one \in Seq(Int) /\ t \in Seq(Int)
    BY <1>1
  <2> HIDE DEF one, t, more
  <2>4. (s \o one) \o t = s \o (one \o t)
    BY ONLY s \in Seq(Int), <2>3, ConcatAssociative, SMTT(30)
  <2>5. more \o t = s \o f
    BY ONLY <2>1, <2>2, <2>4
  <2> QED  BY ONLY <2>5 DEF more, t
<1> QED  BY <1>1, <1>2, <1>3

LEMMA AddLongWhole ==
  ASSUME Ready, AddLong, faults' = 0
  PROVE  Whole'
<1> DEFINE f == build.left
           v == Head(f)
           rest == Tail(f)
<1>1. HasEntry /\ list # NoList /\ f # <<>>
      /\ build' = [build EXCEPT !.left = rest, !.loopCounter = build.loopCounter + 1]
      /\ UNCHANGED <<pc, desc, model, root, keymap, clookup, identifierSID, SIDIdentifier, malformed>>
  BY DEF AddLong, tables
<1>2. pc = "entries" /\ BuildSound
  BY <1>1 DEF HasEntry, Ready, Whole, TablesSound
<1>3. PICK src \in Sources : \E i \in 0 .. Len(src) : Built(src, i)
  BY <1>2 DEF BuildSound
<1>4. PICK i \in 0 .. Len(src) : Built(src, i)
  BY <1>3
<1> DEFINE e == src[i + 1]
<1>5. /\ src \in Seq(Entries) /\ i \in Nat /\ i + 1 \in DOMAIN src /\ IsBuild(build)
      /\ Counted(src)[i + 1] \in Nat /\ build.into \in {"keymap", "clookup"}
  BY <1>1, <1>4, NextEntryFacts
<1>6. Filling(list, f, build.into, e) /\ (Single => e.sid \notin DOMAIN table.items)
  BY <1>1, <1>4 DEF Built
<1>7. /\ v \in Int /\ rest \in Seq(Int) /\ Len(f) = Len(rest) + 1 /\ Len(rest) \in Nat
      /\ ToSet(f) = {v} \cup ToSet(rest)
      /\ \A s \in Seq(Int) : Append(s, v) \o rest = s \o f
  <2>1. f \in Seq(Int)
    BY <1>6 DEF Filling
  <2> HIDE DEF f
  <2> QED  BY <1>1, <2>1, HeadAndTail
<1>8. IsList(list) /\ Accounted /\ faults \in Nat
  BY DEF Ready, IInv, Shapes, Whole
<1>9. Filled(list) /\ list.id # 0
  BY <1>6 DEF Filling
<1> HIDE DEF rest, v, e, f
<1>10. SameTable(build, build') /\ build'.entries = build.entries
       /\ build'.left = rest /\ build'.loopCounter = build.loopCounter + 1
  <2> DEFINE y == build.loopCounter + 1
             b == [build EXCEPT !.left = rest, !.loopCounter = y]
  <2>1. build' = b
    BY <1>1
  <2> HIDE DEF y
  <2>2. b.left = rest /\ b.loopCounter = y
    BY <1>5 DEF IsBuild
  <2>3. SameTable(build, b) /\ b.entries = build.entries
    BY <1>5, MoreBuilt
  <2> QED  BY <2>1, <2>2, <2>3 DEF y
<1>11. table' = table
  BY <1>1, <1>10 DEF table, SameTable
<1>12. Filling(list', rest, build.into, e) /\ lost' = lost
  <2>1. CASE build.into = "keymap"
    <3>1. list' \in Grows(list, v) /\ Allocated(list, list')
      BY <2>1 DEF AddLong, v, f
    <3>2. list'.id = list.id /\ list'.longs = Append(list.longs, v) /\ Filled(list') /\ lost' = lost
      BY <1>7, <1>8, <1>9, <3>1, AppendsLong
    <3>3. list.longs \o f = e.longs /\ list.longs \in Seq(Int)
      BY <1>6, <2>1 DEF Filling, Filled
    <3>4. list'.longs \o rest = e.longs
      BY ONLY <1>7, <3>2, <3>3
    <3> QED  BY <1>7, <1>9, <2>1, <3>2, <3>4 DEF Filling
  <2>2. CASE build.into = "clookup"
    <3>1. list' \in GrowsUnique(list, v) /\ Allocated(list, list')
      BY <2>2 DEF AddLong, v, f
    <3>2. IsInjective(list.longs) /\ ToSet(list.longs) \cup ToSet(f) = ToSet(e.longs)
      BY <1>6, <2>2 DEF Filling
    <3>3. /\ list'.id = list.id /\ Filled(list') /\ lost' = lost
          /\ IsInjective(list'.longs) /\ ToSet(list'.longs) = ToSet(list.longs) \cup {v}
      BY <1>7, <1>8, <1>9, <3>1, <3>2, AddsParent
    <3>4. ToSet(list'.longs) \cup ToSet(rest) = ToSet(e.longs)
      BY ONLY <1>7, <3>2, <3>3
    <3> QED  BY <1>7, <1>9, <2>2, <3>3, <3>4 DEF Filling
  <2> QED  BY <1>5, <2>1, <2>2
<1>13. list' # NoList
  BY <1>12 DEF Filling, NoList
<1>14. build.how = "cbor" => build'.loopCounter = Counted(src)[i + 1] - (Len(rest) + 1)
  <2>1. build.how = "cbor" => build.loopCounter = Counted(src)[i + 1] - (Len(f) + 1)
    BY <1>1, <1>4 DEF Built, f
  <2> QED  BY ONLY <1>5, <1>7, <1>10, <2>1
<1>15. Built(src, i)'
  BY <1>1, <1>4, <1>6, <1>10, <1>11, <1>12, <1>13, <1>14 DEF Built, SameTable, Single, e
<1>16. BuildStep
  BY <1>1, <1>2, <1>10 DEF BuildStep
<1> QED  BY <1>12, <1>15, <1>16, BuildsOn

LEMMA SetEntryWhole ==
  ASSUME Ready, SetEntry
  PROVE  Whole'
<1> DEFINE items == [sid \in DOMAIN table.items \cup {entry.sid} |->
                       IF sid = entry.sid THEN list ELSE table.items[sid]]
<1>1. /\ HasEntry /\ list # NoList /\ build.left = <<>> /\ list' = NoList /\ SetItems(items)
      /\ lost' = lost \cup (IF entry.sid \in DOMAIN table.items
                            THEN ListBlocks(table.items[entry.sid]) ELSE {})
      /\ build' = [build EXCEPT !.entries = Tail(build.entries), !.loopCounter = build.loopCounter + 1]
      /\ faults' = 0
      /\ UNCHANGED <<pc, desc, model, root, identifierSID, SIDIdentifier, malformed>>
  BY DEF SetEntry, NextEntry, Ready
<1>2. pc = "entries" /\ BuildSound
  BY <1>1 DEF HasEntry, Ready, Whole, TablesSound
<1>3. PICK src \in Sources : \E i \in 0 .. Len(src) : Built(src, i)
  BY <1>2 DEF BuildSound
<1>4. PICK i \in 0 .. Len(src) : Built(src, i)
  BY <1>3
<1> DEFINE e == src[i + 1]
           rest == Tail(build.entries)
<1>5. /\ src \in Seq(Entries) /\ i \in Nat /\ i + 1 \in 1 .. Len(src) /\ IsBuild(build)
      /\ entry = e /\ entry.longs \in Seq(Int)
      /\ rest = SubSeq(src, (i + 1) + 1, Len(src))
      /\ build.into = "clookup" => Single
      /\ Counted(src)[i + 1] \in Nat /\ build.into \in {"keymap", "clookup"}
  BY <1>1, <1>4, NextEntryFacts
<1>6. Filling(list, <<>>, build.into, e) /\ (Single => e.sid \notin DOMAIN table.items)
  BY <1>1, <1>4 DEF Built
<1>7. malformed = {} => lost' = lost
  BY <1>1, <1>5, <1>6 DEF Single
<1> HIDE DEF rest
<1>8. SameTable(build, build') /\ build'.entries = rest /\ build'.loopCounter = build.loopCounter + 1
  <2> DEFINE y == build.loopCounter + 1
             b == [build EXCEPT !.entries = rest, !.loopCounter = y]
  <2>1. build' = b
    BY <1>1 DEF rest
  <2> HIDE DEF y
  <2>2. b.entries = rest /\ b.loopCounter = y
    BY <1>5 DEF IsBuild
  <2>3. SameTable(build, b)
    BY <1>5, MoreBuilt
  <2> QED  BY <2>1, <2>2, <2>3 DEF y
<1>9. /\ table'.items = items /\ table'.id = table.id
      /\ build.into = "keymap" => clookup' = clookup
      /\ build.into = "clookup" => keymap' = keymap
  <2> HIDE DEF items
  <2> QED  BY <1>1, <1>5, <1>8, TableNext DEF Ready, IInv, SameTable
<1>10. Put(table', table, e.sid, list)
  BY <1>5, <1>9 DEF Put
<1>11. /\ Filled(list)
       /\ build.into = "keymap" => list.longs = e.longs
       /\ build.into = "clookup" => IsInjective(list.longs) /\ ToSet(list.longs) = ToSet(e.longs)
  <2>1. list.longs \in Seq(Int) /\ ToSet(<<>>) = {}
    BY <1>6 DEF Filling, Filled, ToSet
  <2>2. list.longs \o <<>> = list.longs
    BY <2>1
  <2> QED  BY <1>6, <2>1, <2>2 DEF Filling
<1> HIDE DEF items
<1>12. Has(table', build.into, src, i + 1)
  <2>1. Has(table, build.into, src, i)
    BY <1>4 DEF Built
  <2> HIDE DEF e
  <2>2. build.into = "clookup" =>
          /\ IsInjective(list.longs)
          /\ ToSet(list.longs) = (IF e.sid \in DOMAIN table.items THEN ToSet(table.items[e.sid].longs)
                                  ELSE {}) \cup ToSet(e.longs)
    BY <1>5, <1>6, <1>11
  <2> QED  BY <1>5, <1>10, <1>11, <2>1, <2>2, HasMore DEF e
<1>13. build.how = "cbor" => build'.loopCounter = Counted(src)[i + 1]
  <2>1. build.how = "cbor" => build.loopCounter = Counted(src)[i + 1] - (Len(<<>>) + 1)
    BY <1>1, <1>4 DEF Built
  <2> DEFINE c == Counted(src)[i + 1]
  <2>2. Len(<<>>) = 0 /\ c \in Nat
    BY <1>5
  <2> HIDE DEF c
  <2>3. build.how = "cbor" => build.loopCounter = c - 1
    BY <2>1, <2>2 DEF c
  <2> QED  BY <1>8, <2>2, <2>3 DEF c
<1>14. Built(src, i + 1)'
  BY <1>1, <1>5, <1>8, <1>12, <1>13 DEF Built, SameTable
<1>15. BuildStep
  BY <1>1, <1>2, <1>8, <1>9 DEF BuildStep
<1>16. i + 1 \in 0 .. Len(src)
  BY <1>5
<1>17. \E k \in 0 .. Len(src) : Built(src, k)'
  BY <1>14, <1>16
<1> QED  BY <1>1, <1>7, <1>15, <1>17, BuildsOn

LEMMA AddParentWhole ==
  ASSUME Ready, AddParent, faults' = 0
  PROVE  Whole'
<1> DEFINE j == table.items[entry.sid]
           v == entry.longs[1]
<1>1. /\ HasEntry /\ list = NoList /\ list' = NoList /\ build.how = "walk"
      /\ entry.sid \in DOMAIN table.items
      /\ build' = [build EXCEPT !.entries = Tail(build.entries), !.loopCounter = build.loopCounter + 1]
      /\ UNCHANGED <<pc, desc, model, root, identifierSID, SIDIdentifier, malformed>>
  BY DEF AddParent, NextEntry, Existing
<1>2. pc = "entries" /\ BuildSound
  BY <1>1 DEF HasEntry, Ready, Whole, TablesSound
<1>3. PICK src \in Sources : \E i \in 0 .. Len(src) : Built(src, i)
  BY <1>2 DEF BuildSound
<1>4. PICK i \in 0 .. Len(src) : Built(src, i)
  BY <1>3
<1> DEFINE e == src[i + 1]
           rest == Tail(build.entries)
<1>5. /\ src \in Seq(Entries) /\ i \in Nat /\ i + 1 \in 1 .. Len(src) /\ IsBuild(build)
      /\ entry = e /\ entry.longs \in Seq(Int) /\ Len(entry.longs) = 1
      /\ rest = SubSeq(src, (i + 1) + 1, Len(src))
      /\ build.into = "clookup"
  BY <1>1, <1>4, NextEntryFacts
<1>6. Has(table, "clookup", src, i)
  BY <1>4, <1>5 DEF Built
<1>7. Filled(j) /\ IsInjective(j.longs)
  BY <1>1, <1>6 DEF Has, HasParents
<1>8. v \in Int /\ ToSet(entry.longs) = {v}
  <2> DEFINE longs == entry.longs
  <2>1. longs \in Seq(Int) /\ Len(longs) = 1
    BY <1>5
  <2> HIDE DEF longs
  <2>2. DOMAIN longs = {1} /\ longs[1] \in Int
    BY <2>1
  <2>3. ToSet(longs) = {longs[1]}
    BY <2>2 DEF ToSet
  <2> QED  BY <2>2, <2>3 DEF longs
<1>9. IsList(list) /\ IsList(j) /\ Accounted /\ faults \in Nat
  <2>1. Shapes
    BY DEF Ready, IInv
  <2> QED  BY <1>1, <2>1, TableLists DEF Ready, IInv, Shapes, Whole
<1>10. PICK m \in GrowsUnique(j, v) : SetItems([table.items EXCEPT ![entry.sid] = m]) /\ Allocated(j, m)
  BY DEF AddParent
<1> DEFINE items == [table.items EXCEPT ![entry.sid] = m]
<1> HIDE DEF j, v
<1>11. Filled(m) /\ lost' = lost /\ IsInjective(m.longs) /\ ToSet(m.longs) = ToSet(j.longs) \cup {v}
  BY <1>7, <1>8, <1>9, <1>10, AddsParent
<1> HIDE DEF rest
<1>12. SameTable(build, build') /\ build'.entries = rest
  <2> DEFINE y == build.loopCounter + 1
             b == [build EXCEPT !.entries = rest, !.loopCounter = y]
  <2>1. build' = b
    BY <1>1 DEF rest
  <2> HIDE DEF y
  <2>2. b.entries = rest
    BY <1>5 DEF IsBuild
  <2>3. SameTable(build, b)
    BY <1>5, MoreBuilt
  <2> QED  BY <2>1, <2>2, <2>3
<1>13. table'.items = items /\ table'.id = table.id /\ keymap' = keymap
  <2>1. SetItems(items)
    BY <1>10
  <2> HIDE DEF items
  <2> QED  BY <1>5, <1>12, <2>1, TableNext DEF Ready, IInv, SameTable
<1>14. Put(table', table, e.sid, m)
  <2>1. /\ DOMAIN items = DOMAIN table.items /\ (entry.sid \in DOMAIN table.items => items[entry.sid] = m)
        /\ \A sid \in DOMAIN table.items \ {entry.sid} : items[sid] = table.items[sid]
    OBVIOUS
  <2> HIDE DEF items
  <2> QED  BY <1>1, <1>5, <1>13, <2>1 DEF Put
<1> HIDE DEF items
<1>15. Has(table', "clookup", src, i + 1)
  <2>1. ToSet(m.longs) = (IF e.sid \in DOMAIN table.items THEN ToSet(table.items[e.sid].longs) ELSE {})
                         \cup ToSet(e.longs)
    BY <1>1, <1>5, <1>8, <1>11 DEF j
  <2> HIDE DEF e
  <2> QED  BY <1>5, <1>6, <1>11, <1>14, <2>1, HasMore DEF e
<1>16. Built(src, i + 1)'
  BY <1>1, <1>5, <1>12, <1>15 DEF Built, SameTable
<1>17. BuildStep
  BY <1>1, <1>2, <1>5, <1>12, <1>13 DEF BuildStep
<1>18. i + 1 \in 0 .. Len(src)
  BY <1>5
<1>19. \E k \in 0 .. Len(src) : Built(src, k)'
  BY <1>16, <1>18
<1> QED  BY <1>11, <1>17, <1>19, BuildsOn

\* The decoder comes to the end of a keymap that is not malformed.
LEMMA NeverFails ==
  ASSUME Ready, malformed = {}
  PROVE  ~KeymapFails
<1>1. SUFFICES ASSUME HasEntry, build.how = "cbor",
                      (LoopExceeded /\ (list = NoList \/ build.left # <<>>))
                        \/ (list = NoList /\ entry.longs = NULL)
               PROVE  FALSE
  BY DEF KeymapFails
<1>2. pc = "entries" /\ BuildSound
  BY <1>1 DEF HasEntry, Ready, Whole, TablesSound
<1>3. PICK src \in Sources : \E i \in 0 .. Len(src) : Built(src, i)
  BY <1>2 DEF BuildSound
<1>4. PICK i \in 0 .. Len(src) : Built(src, i)
  BY <1>3
<1>5. /\ entry.longs \in Seq(Int) /\ build.into = "keymap" /\ entry.longs # <<>>
      /\ Counted(src)[i + 1] <= CORECONF_MAX_LOOP + 2
      /\ Counted(src)[i + 1] = Counted(src)[i] + (Len(entry.longs) + 1)
      /\ Counted(src)[i] \in Nat /\ Counted(src)[i + 1] \in Nat
  <2>1. BuildOK
    BY <1>1, <1>4, NextEntryFacts
  <2>2. build.into = "keymap"
    BY <1>1, <2>1 DEF BuildOK
  <2> QED  BY <1>1, <1>4, <2>2, NextEntryFacts DEF Single
<1>6. entry.longs # NULL
  BY <1>5, LifecycleAssumption
<1>7. build.loopCounter > CORECONF_MAX_LOOP /\ (list = NoList \/ build.left # <<>>)
  BY <1>1, <1>6 DEF LoopExceeded
<1>8. CORECONF_MAX_LOOP \in Nat
  BY LifecycleAssumption
<1>9. CASE list = NoList
  <2>1. build.loopCounter = Counted(src)[i]
    BY <1>1, <1>4, <1>9 DEF Built
  <2>2. Len(entry.longs) \in Nat /\ Len(entry.longs) # 0
    BY <1>5
  <2> QED  BY ONLY <1>5, <1>7, <1>8, <2>1, <2>2
<1>10. CASE list # NoList /\ build.left # <<>>
  <2>1. build.loopCounter = Counted(src)[i + 1] - (Len(build.left) + 1)
    BY <1>1, <1>4, <1>10 DEF Built
  <2>2. build.left \in Seq(Int)
    BY <1>4, <1>10 DEF Built, Filling
  <2>3. Len(build.left) \in Nat /\ Len(build.left) # 0
    BY <1>10, <2>2
  <2> QED  BY ONLY <1>5, <1>7, <1>8, <2>1, <2>3
<1> QED  BY <1>7, <1>9, <1>10

-----------------------------------------------------------------------------
(* The other steps, without a fault *)

\* A table is begun.
LEMMA BuiltAtFirst ==
  ASSUME NEW src \in Seq(Entries), NEW t, t.items = <<>>, NEW into
  PROVE  /\ 0 \in 0 .. Len(src) /\ SubSeq(src, 0 + 1, Len(src)) = src
         /\ Has(t, into, src, 0) /\ Counted(src)[0] = 0
<1>1. Len(src) \in Nat /\ SubSeq(src, 1, Len(src)) = src
  OBVIOUS
<1>2. DOMAIN t.items = {} /\ \A i : i \notin 1 .. 0
  OBVIOUS
<1>3. Has(t, into, src, 0)
  BY <1>2 DEF Has, SIDsIn, HasKeys, HasParents
<1> QED  BY <1>1, <1>3, CountedSteps

LEMMA BeginsBuild ==
  ASSUME NEW src \in Seq(Entries), src \in Sources', build'.entries = src,
         table'.items = <<>>, list' = NoList, build'.how = "cbor" => build'.loopCounter = 0
  PROVE  (\E s \in Sources : \E i \in 0 .. Len(s) : Built(s, i))'
<1>1. /\ 0 \in 0 .. Len(src) /\ SubSeq(src, 0 + 1, Len(src)) = src
      /\ Has(table', build'.into, src, 0) /\ Counted(src)[0] = 0
  BY BuiltAtFirst
<1>2. Built(src, 0)'
  <2>1. /\ (build.entries = SubSeq(src, 0 + 1, Len(src)))'
        /\ Has(table, build.into, src, 0)'
        /\ (list = NoList)'
        /\ (build.how = "cbor" => build.loopCounter = Counted(src)[0])'
    BY <1>1 DEF NoList, Has, SIDsIn, HasKeys, HasParents, ParentsUpTo, Filled
  <2> QED  BY <2>1 DEF Built
<1> QED  BY <1>1, <1>2

LEMMA NewKeymapWhole ==
  ASSUME Ready, NewKeymap
  PROVE  Whole'
<1> DEFINE src == desc.keymap.entries
<1>1. /\ DescSound /\ desc.instance /\ NoTables /\ list = NoList /\ faults \in Nat
  BY DEF Ready, Whole, TablesSound, NewKeymap, DescSound, IInv, Progress
<1>2. /\ pc' = "entries" /\ keymap' = NewTable /\ faults' = 0 /\ lost' = lost
      /\ UNCHANGED <<desc, model, clookup, identifierSID, SIDIdentifier, list, malformed>>
      /\ build'.into = "keymap" /\ build'.how = desc.keymap.how /\ build'.entries = src
      /\ build'.loopCounter = 0
  BY DEF NewKeymap, Allocate, Begin, Ready
<1>3. src \in Seq(Entries)
  BY <1>1, KeymapFacts DEF Ready
<1>4. table'.items = <<>>
  BY <1>2 DEF table, NewTable
<1>5. src \in Sources'
  BY <1>2 DEF Sources
<1>6. (\E s \in Sources : \E i \in 0 .. Len(s) : Built(s, i))'
  BY <1>1, <1>2, <1>3, <1>4, <1>5, BeginsBuild
<1>8. BuildSound'
  BY <1>2, <1>6 DEF BuildSound, Building
<1>9. KeymapSound' /\ ParentsSound' /\ NamesSound' /\ DescSound'
  BY <1>1, <1>2 DEF KeymapSound, ParentsSound, NamesSound, DescSound, Building, NoTables, Unnamed
<1> QED  BY <1>1, <1>2, <1>8, <1>9 DEF Whole, TablesSound, Ready

LEMMA BeginsClookup ==
  ASSUME Ready, pc \notin {"root", "keymap", "entries"}, pc' = "entries",
         list' = NoList, clookup'.items = <<>>, faults' = 0, lost' = lost, NamesSound',
         build'.into = "clookup", UNCHANGED <<desc, model, keymap, malformed>>,
         \/ /\ build'.how = "static" /\ desc.clookup.how = "static"
            /\ build'.entries = desc.clookup.entries
         \/ build'.how = "walk" /\ build'.entries \in desc.walks
  PROVE  Whole'
<1> DEFINE src == build'.entries
<1>1. DescSound /\ KeymapSound /\ faults \in Nat
  BY DEF Ready, Whole, TablesSound
<1>2. src \in Seq(Entries)
  BY <1>1, LifecycleAssumption DEF DescSound
<1>3. src \in Sources'
  BY DEF Sources
<1>4. table'.items = <<>>
  BY DEF table
<1>6. (\E s \in Sources : \E i \in 0 .. Len(s) : Built(s, i))'
  BY <1>2, <1>3, <1>4, BeginsBuild
<1>7. BuildSound'
  BY <1>6 DEF BuildSound, Building
<1>8. KeymapSound' /\ ParentsSound' /\ DescSound'
  BY <1>1 DEF KeymapSound, ParentsSound, DescSound, Building
<1> QED  BY <1>1, <1>7, <1>8 DEF Whole, TablesSound, Ready

LEMMA NewClookupWhole ==
  ASSUME Ready, NewClookup \/ BuildCLookup \/ BuildNewCLookup
  PROVE  Whole'
<1>1. /\ pc \in {"clookup", "idle"} /\ pc' = "entries" /\ list' = NoList
      /\ build'.into = "clookup" /\ UNCHANGED <<desc, model, keymap, malformed>>
  BY DEF NewClookup, BuildCLookup, BuildNewCLookup, Begin, Loaded, Ready, IInv, Progress
<1>2. faults' = 0 /\ lost' = lost
  BY DEF NewClookup, BuildCLookup, BuildNewCLookup, Allocate, Release, Ready
<1>3. \/ /\ build'.how = "static" /\ desc.clookup.how = "static"
         /\ build'.entries = desc.clookup.entries
      \/ build'.how = "walk" /\ build'.entries \in desc.walks
  BY DEF NewClookup, BuildCLookup, BuildNewCLookup, Begin
<1>4. clookup'.items = <<>>
  <2>1. CASE NewClookup \/ BuildNewCLookup
    BY <2>1 DEF NewClookup, BuildNewCLookup, NewTable
  <2>2. CASE BuildCLookup
    <3>1. clookup = [id |-> clookup.id, items |-> clookup.items]
      BY DEF Ready, IInv, Shapes, IsTable
    <3>2. clookup' = [clookup EXCEPT !.items = <<>>]
      BY <2>2 DEF BuildCLookup
    <3> QED  BY <3>1, <3>2
  <2> QED  BY <2>1, <2>2
<1>5. NamesSound'
  <2>1. NamesSound /\ UNCHANGED <<desc, identifierSID, SIDIdentifier>>
    BY DEF Ready, Whole, TablesSound, NewClookup, BuildCLookup, BuildNewCLookup
  <2> QED  BY <2>1 DEF NamesSound, Named
<1> QED  BY <1>1, <1>2, <1>3, <1>4, <1>5, BeginsClookup

\* A table is complete.
LEMMA EntriesDoneWhole ==
  ASSUME Ready, EntriesDone
  PROVE  Whole'
<1>1. /\ pc = "entries" /\ build.entries = <<>> /\ pc' = build.after /\ faults' = 0 /\ lost' = lost
      /\ UNCHANGED <<desc, model, keymap, clookup, identifierSID, SIDIdentifier, malformed>>
  BY DEF EntriesDone, tables, memory, Ready
<1>2. /\ DescSound /\ BuildSound /\ KeymapSound /\ ParentsSound /\ NamesSound /\ BuildOK
      /\ faults \in Nat
  BY <1>1 DEF Ready, Whole, TablesSound, IInv, Progress
<1>3. PICK src \in Sources : \E i \in 0 .. Len(src) : Built(src, i)
  BY <1>1, <1>2 DEF BuildSound
<1>4. PICK i \in 0 .. Len(src) : Built(src, i)
  BY <1>3
<1>5. src \in Seq(Entries) /\ (build.into = "clookup" => src \in ParentSources)
  BY <1>1, <1>2, SourceFacts DEF BuildSound, Building, Ready
<1>6. i = Len(src)
  <2>1. build.entries = SubSeq(src, i + 1, Len(src))
    BY <1>4 DEF Built
  <2> QED  BY <1>1, <1>5, <2>1, EntryFacts
<1>7. Has(table, build.into, src, Len(src))
  BY <1>4, <1>6 DEF Built
<1>8. DescSound' /\ NamesSound'
  BY <1>1, <1>2 DEF DescSound, NamesSound, Named
<1>9. BuildSound' /\ pc' \notin {"root", "keymap", "entries"}
  BY <1>1, <1>2 DEF BuildSound, BuildOK
<1>10. CASE build.into = "keymap"
  <2>1. KeymapSound'
    BY <1>1, <1>3, <1>7, <1>10 DEF KeymapSound, Sources, table
  <2>2. ParentsSound'
    BY <1>1, <1>2, <1>10 DEF ParentsSound, BuildOK
  <2> QED  BY <1>1, <1>2, <1>8, <1>9, <2>1, <2>2 DEF Whole, TablesSound, Ready
<1>11. CASE build.into = "clookup"
  <2>1. KeymapSound'
    BY <1>1, <1>2, <1>11 DEF KeymapSound, Building
  <2>2. ParentsSound'
    BY <1>1, <1>5, <1>7, <1>11 DEF ParentsSound, ParentSources, table
  <2> QED  BY <1>1, <1>2, <1>8, <1>9, <2>1, <2>2 DEF Whole, TablesSound, Ready
<1> QED  BY <1>2, <1>10, <1>11 DEF BuildOK

\* The load goes on, or a loaded model stays, with the tables there are.
LEMMA GoesOn ==
  ASSUME Ready, pc \notin {"root", "keymap", "entries"}, pc' \notin {"root", "keymap", "entries"},
         faults' = 0, lost' = lost, clookup' \in {clookup, NoTable}, NamesSound',
         UNCHANGED <<desc, model, keymap, malformed>>
  PROVE  Whole'
<1>1. DescSound /\ KeymapSound /\ ParentsSound /\ faults \in Nat
  BY DEF Ready, Whole, TablesSound
<1>2. DescSound' /\ BuildSound'
  BY <1>1 DEF DescSound, BuildSound
<1>3. KeymapSound'
  BY <1>1 DEF KeymapSound, Building
<1>4. ParentsSound'
  <2>1. CASE clookup' = clookup
    BY <1>1, <2>1 DEF ParentsSound, ParentSources, Building
  <2>2. CASE clookup' = NoTable
    BY <2>2 DEF ParentsSound
  <2> QED  BY <2>1, <2>2
<1> QED  BY <1>1, <1>2, <1>3, <1>4 DEF Whole, TablesSound, Ready

LEMMA QuietWhole ==
  ASSUME Ready,
         \/ NoClookup \/ SkipNames \/ NoIdentifierSID \/ NoSIDIdentifier
         \/ Register
  PROVE  Whole'
<1>1. /\ pc \in {"clookup", "identifierSID", "SIDIdentifier", "idle"}
      /\ pc' \in {"identifierSID", "SIDIdentifier", "idle"}
      /\ faults' = 0 /\ lost' = lost
      /\ UNCHANGED <<desc, model, keymap, clookup, identifierSID, SIDIdentifier, malformed>>
  BY DEF NoClookup, SkipNames, NoIdentifierSID, NoSIDIdentifier, Register, Loaded,
         Allocate, tables, memory, Ready
<1>2. NamesSound'
  BY <1>1 DEF Ready, Whole, TablesSound, NamesSound, Named
<1> QED  BY <1>1, <1>2, GoesOn

LEMMA NamesWhole ==
  ASSUME Ready, BuildIdentifierSID \/ BuildSIDIdentifier, faults' = 0
  PROVE  Whole'
<1>1. NamesSound /\ faults \in Nat /\ faults = 0
  BY DEF Ready, Whole, TablesSound
<1>2. /\ pc \in {"identifierSID", "SIDIdentifier"} /\ pc' \in {"SIDIdentifier", "idle"}
      /\ lost' = lost /\ UNCHANGED <<desc, model, keymap, clookup, malformed>>
  BY DEF BuildIdentifierSID, BuildSIDIdentifier
<1>3. CASE BuildIdentifierSID
  <2>1. identifierSID'.items = [i \in {e.identifier : e \in Named} |->
                                  (CHOOSE e \in Named : e.identifier = i).sid]
        /\ SIDIdentifier' = SIDIdentifier
    <3> DEFINE Table(kept) == [i \in {e.identifier : e \in kept} |->
                                 (CHOOSE e \in kept : e.identifier = i).sid]
    <3>1. PICK kept : identifierSID' = [id |-> fresh, items |-> Table(kept)]
                      /\ faults' = IF kept = Named THEN faults ELSE faults + 1
      BY <1>3 DEF BuildIdentifierSID
    <3>2. kept = Named
      BY <1>1, <3>1
    <3>3. identifierSID'.items = Table(Named)
      BY <3>1, <3>2
    <3> QED  BY <1>3, <3>3 DEF BuildIdentifierSID
  <2>2. NamesSound'
    BY <1>1, <1>2, <2>1 DEF NamesSound, Named
  <2> QED  BY <1>2, <2>2, GoesOn
<1>4. CASE BuildSIDIdentifier
  <2>1. SIDIdentifier'.items = [s \in {e.sid : e \in Named} |->
                                  (CHOOSE e \in Named : e.sid = s).identifier]
        /\ identifierSID' = identifierSID
    <3> DEFINE Table(kept) == [s \in {e.sid : e \in kept} |->
                                 (CHOOSE e \in kept : e.sid = s).identifier]
    <3>1. PICK kept : SIDIdentifier' = [id |-> fresh, items |-> Table(kept)]
                      /\ faults' = IF kept = Named THEN faults ELSE faults + 1
      BY <1>4 DEF BuildSIDIdentifier
    <3>2. kept = Named
      BY <1>1, <3>1
    <3>3. SIDIdentifier'.items = Table(Named)
      BY <3>1, <3>2
    <3> QED  BY <1>4, <3>3 DEF BuildSIDIdentifier
  <2>2. NamesSound'
    BY <1>1, <1>2, <2>1 DEF NamesSound, Named
  <2> QED  BY <1>2, <2>2, GoesOn
<1> QED  BY <1>3, <1>4

\* A load begins.
LEMMA LoadWhole ==
  ASSUME IInv, Whole, NEW d \in Descs, Load(d), faults' = 0
  PROVE  Whole'
<1>1. /\ pc' = "root" /\ desc' = d /\ faults \in Nat /\ faults = 0 /\ lost' = lost
      /\ UNCHANGED <<keymap, clookup, identifierSID, SIDIdentifier>>
      /\ malformed' = {} => malformed = {} /\ WellFormed(d.keymap)
  BY DEF Load, Allocate, Whole, tables
<1>2. NoTables
  BY DEF Load, IInv, Progress
<1> QED
  BY <1>1, <1>2 DEF Whole, TablesSound, DescSound, BuildSound, KeymapSound, ParentsSound, NamesSound, NoTables, Unnamed

\* Nothing is left, or nothing will be used.
LEMMA EndsWhole ==
  ASSUME Whole, faults' = faults, malformed' = malformed, malformed = {} => lost' = lost,
         model' = 0 \/ pc' = "halted"
  PROVE  Whole'
BY DEF Whole

LEMMA FailsWhole ==
  ASSUME Ready, \/ RootFails \/ NewKeymapFails \/ NewClookupFails \/ ModelFree \/ Halt
                \/ CreateListFails
  PROVE  Whole'
<1>1. faults' = faults /\ lost' = lost /\ malformed' = malformed
  BY DEF RootFails, NewKeymapFails, NewClookupFails, ModelFree, Halt, CreateListFails, LoadFails,
         Release, memory
<1>2. CASE model' = 0 \/ pc' = "halted"
  BY <1>1, <1>2, EndsWhole DEF Ready
<1>3. CASE CreateListFails /\ clookup' = NoTable /\ pc' = "identifierSID"
           /\ UNCHANGED <<desc, model, keymap, identifierSID, SIDIdentifier>>
  <2>1. /\ DescSound /\ BuildSound /\ KeymapSound /\ NamesSound /\ faults \in Nat
        /\ build.into = "clookup" /\ pc = "entries"
    BY <1>3 DEF Ready, Whole, TablesSound, CreateListFails, LoadFails, HasEntry
  <2>2. DescSound' /\ NamesSound'
    BY <1>1, <1>3, <2>1 DEF DescSound, NamesSound, Named
  <2>4. BuildSound' /\ ParentsSound'
    BY <1>3 DEF BuildSound, ParentsSound
  <2>3. KeymapSound'
    BY <1>3, <2>1 DEF KeymapSound, Building, CreateListFails, HasEntry
  <2> QED  BY <1>1, <2>1, <2>2, <2>3, <2>4 DEF Whole, TablesSound, Ready
<1> QED
  BY <1>2, <1>3 DEF RootFails, NewKeymapFails, NewClookupFails, ModelFree, Halt, CreateListFails,
                    LoadFails

LEMMA KeymapFailsWhole ==
  ASSUME Ready, KeymapFails
  PROVE  Whole'
<1>1. faults' = faults /\ malformed' = malformed /\ model' = 0 /\ malformed # {}
  BY NeverFails DEF KeymapFails, LoadFails
<1> QED  BY <1>1, EndsWhole DEF Ready

-----------------------------------------------------------------------------
(* Every step *)

\* A fault is not forgotten before the program begins anew, and what a model is
\* loaded from, and the malformed keymaps so far, change when one is loaded.
LEMMA FaultsRise ==
  ASSUME faults \in Nat, [Next]_vars
  PROVE  \/ faults' \in {faults, faults + 1} /\ malformed' = malformed /\ desc' = desc
         \/ faults' = faults /\ \E d \in Descs : Load(d)
         \/ Restart
<1>1. CASE AddLong \/ AddParent
  BY <1>1 DEF AddLong, AddParent, Allocated, Allocate
<1>2. CASE SetEntry \/ SetEntryFails \/ CreateList \/ CreateListFails \/ KeymapFails \/ Halt
           \/ EntriesDone
  BY <1>2 DEF SetEntry, SetEntryFails, CreateList, CreateListFails, KeymapFails, Halt, EntriesDone,
              Allocate, Release, LoadFails, memory
<1>3. CASE BuildIdentifierSID \/ BuildSIDIdentifier
  BY <1>3 DEF BuildIdentifierSID, BuildSIDIdentifier
<1>4. CASE DecodeRoot \/ RootFails \/ NewKeymap \/ NewKeymapFails \/ NewClookup \/ NewClookupFails
           \/ NoClookup \/ SkipNames \/ NoIdentifierSID \/ NoSIDIdentifier
  BY <1>4 DEF DecodeRoot, RootFails, NewKeymap, NewKeymapFails, NewClookup, NewClookupFails,
              NoClookup, SkipNames, NoIdentifierSID, NoSIDIdentifier, Allocate, Release, LoadFails,
              memory
<1>5. CASE UNCHANGED vars \/ BuildCLookup \/ BuildNewCLookup \/ Register \/ ModelFree
  BY <1>5 DEF vars, BuildCLookup, BuildNewCLookup, Register, ModelFree, Allocate, Release, memory
<1>6. ASSUME NEW d \in Descs, Load(d)
      PROVE  faults' = faults
  BY <1>6 DEF Load, Allocate
<1> QED  BY <1>1, <1>2, <1>3, <1>4, <1>5, <1>6 DEF Next, Client, Step

\* The steps of a load, of a rebuild and of a loaded model.
LEMMA ReadyWhole ==
  ASSUME Ready, [Next]_vars, faults' = 0, ~Restart
  PROVE  Whole'
<1>1. CASE UNCHANGED vars
  BY <1>1 DEF Ready, vars, tables, memory, Whole, TablesSound, DescSound, BuildSound, KeymapSound, ParentsSound,
              NamesSound, Building, Named, ParentSources, Sources, Built, table, Single
<1>2. CASE DecodeRoot
  <2>1. /\ pc = "root" /\ pc' = "keymap" /\ desc.instance /\ NoTables /\ faults \in Nat
        /\ DescSound /\ lost' = lost
        /\ UNCHANGED <<desc, model, keymap, clookup, identifierSID, SIDIdentifier, malformed>>
    BY <1>2 DEF DecodeRoot, Allocate, tables, Ready, Whole, IInv, Progress
  <2>2. DescSound' /\ BuildSound' /\ KeymapSound'
    BY <2>1 DEF DescSound, BuildSound, KeymapSound
  <2>3. ParentsSound' /\ NamesSound'
    BY <2>1 DEF ParentsSound, NamesSound, NoTables, Unnamed
  <2> QED  BY <2>1, <2>2, <2>3 DEF Whole, TablesSound, Ready
<1>3. CASE NewKeymap \/ NewClookup \/ BuildCLookup \/ BuildNewCLookup
  BY <1>3, NewKeymapWhole, NewClookupWhole
<1>4. CASE CreateList \/ AddLong \/ SetEntry \/ AddParent \/ KeymapFails
  BY <1>4, CreateListWhole, AddLongWhole, SetEntryWhole, AddParentWhole,
                KeymapFailsWhole
<1>5. CASE EntriesDone \/ BuildIdentifierSID \/ BuildSIDIdentifier
  BY <1>5, EntriesDoneWhole, NamesWhole
<1>6. CASE NoClookup \/ SkipNames \/ NoIdentifierSID \/ NoSIDIdentifier
           \/ Register
  BY <1>6, QuietWhole
<1>7. CASE RootFails \/ NewKeymapFails \/ NewClookupFails \/ ModelFree \/ Halt \/ CreateListFails
  BY <1>7, FailsWhole
<1>8. ~SetEntryFails
  BY DEF SetEntryFails, Ready
<1>9. ~(\E d \in Descs : Load(d))
  BY DEF Load, Ready
<1> QED
  BY <1>1, <1>2, <1>3, <1>4, <1>5, <1>6, <1>7, <1>8, <1>9 DEF Next, Client, Step

\* The steps of a load whose keymap has an entry that is not an array.
LEMMA StuckWhole ==
  ASSUME IInv, Whole, model # 0, pc # "halted", ~Arrays(desc.keymap.entries), faults = 0,
         faults' = 0, [Next]_vars, ~Restart
  PROVE  Whole'
<1>1. DescSound /\ malformed # {}
  BY LifecycleAssumption DEF Whole, DescSound, WellFormed
<1>2. ~(\E d \in Descs : Load(d))
  BY DEF Load
<1>3. desc' = desc /\ malformed' = malformed
  BY <1>2, FaultsRise
<1>4. pc = "root" => pc' = "root" \/ desc.instance \/ model' = 0
  <2>1. SUFFICES ASSUME pc = "root", pc' # "root"
                 PROVE  desc.instance \/ model' = 0
    OBVIOUS
  <2>2. DecodeRoot \/ RootFails
    BY <1>2, <2>1 DEF Next, Client, Step, NewKeymap, NewKeymapFails, NewClookup,
       NewClookupFails, NoClookup, CreateList, CreateListFails, AddLong, SetEntry,
       SetEntryFails, AddParent, KeymapFails, Halt, EntriesDone, HasEntry, SkipNames,
       BuildIdentifierSID, NoIdentifierSID, BuildSIDIdentifier, NoSIDIdentifier,
       BuildCLookup, BuildNewCLookup, ModelFree, Register, Loaded, vars
  <2> QED  BY <2>2 DEF DecodeRoot, RootFails, LoadFails
<1> QED  BY <1>1, <1>3, <1>4 DEF Whole, DescSound

LEMMA StepWhole ==
  ASSUME IInv, Whole, [Next]_vars
  PROVE  Whole'
<1>1. faults \in Nat
  BY DEF Whole
<1>2. CASE Restart
  BY <1>2 DEF Restart, Whole
<1>3. ASSUME ~Restart, faults' # 0
      PROVE  Whole'
  BY <1>1, <1>3, FaultsRise DEF Whole
<1>4. ASSUME ~Restart, faults' = 0
      PROVE  Whole'
  <2>1. faults = 0
    BY <1>1, <1>4, FaultsRise
  <2>2. CASE model # 0 /\ pc # "halted"
    BY <1>4, <2>1, <2>2, ReadyWhole, StuckWhole DEF Ready
  <2>3. CASE UNCHANGED vars /\ (model = 0 \/ pc = "halted")
    BY <2>1, <2>3 DEF Whole, vars, memory
  <2>4. CASE ~(UNCHANGED vars) /\ (model = 0 \/ pc = "halted")
    <3>1. pc \in {"idle", "halted"}
      BY <2>4 DEF IInv, Progress
    <3>2. ~Step /\ ~BuildCLookup /\ ~BuildNewCLookup /\ ~Register /\ ~ModelFree
      BY <2>4, <3>1 DEF Step, DecodeRoot, RootFails, NewKeymap, NewKeymapFails, NewClookup,
           NewClookupFails, NoClookup, CreateList, CreateListFails, AddLong, SetEntry,
           SetEntryFails, AddParent, KeymapFails, Halt, EntriesDone, HasEntry, SkipNames,
           BuildIdentifierSID, NoIdentifierSID, BuildSIDIdentifier, NoSIDIdentifier,
           BuildCLookup, BuildNewCLookup, ModelFree, Register, Loaded
    <3>3. PICK d \in Descs : Load(d)
      BY <1>4, <2>4, <3>2 DEF Next, Client
    <3> QED  BY <1>4, <3>3, LoadWhole
  <2> QED  BY <2>2, <2>3, <2>4
<1> QED  BY <1>2, <1>3, <1>4

LEMMA AtFirstWhole ==
  Init => Whole
BY DEF Init, Whole

-----------------------------------------------------------------------------
(* A keymap with an entry that is not an array *)

\* The entries after the first one.
LEMMA TailEntries ==
  ASSUME Unfinished, build.entries # <<>>, entry.longs # NULL
  PROVE  /\ Tail(build.entries) \in Seq([sid : Int, longs : (Seq(Int) \ {<<>>}) \cup {NULL}])
         /\ ~Arrays(Tail(build.entries))
<1> DEFINE Rows == [sid : Int, longs : (Seq(Int) \ {<<>>}) \cup {NULL}]
           e == build.entries
           t == Tail(e)
<1>1. e \in Seq(Rows) /\ e # <<>> /\ ~Arrays(e) /\ Head(e).longs # NULL
  BY DEF Unfinished, entry
<1> HIDE DEF Rows, e
<1>2. /\ t \in Seq(Rows) /\ Len(e) = Len(t) + 1 /\ Len(t) \in Nat /\ Head(e) = e[1]
      /\ DOMAIN e = 1 .. Len(e) /\ DOMAIN t = 1 .. Len(t) /\ \A i \in 1 .. Len(t) : t[i] = e[i + 1]
  BY <1>1
<1> HIDE DEF t
<1>3. PICK i \in DOMAIN e : e[i].longs = NULL
  BY <1>1 DEF Arrays
<1>4. i # 1
  BY <1>1, <1>2, <1>3
<1>5. i - 1 \in DOMAIN t /\ t[i - 1] = e[i]
  <2>1. i \in Nat /\ i - 1 \in 1 .. Len(t) /\ (i - 1) + 1 = i
    BY <1>2, <1>3, <1>4
  <2> QED  BY <1>2, <2>1
<1>6. ~Arrays(t)
  BY <1>3, <1>5 DEF Arrays
<1> QED  BY <1>2, <1>6 DEF t, e, Rows

LEMMA StepStuck ==
  ASSUME IInv, Stuck, [Next]_vars
  PROVE  Stuck'
<1> USE DEF IInv
<1>1. SUFFICES ASSUME model' # 0, pc' # "halted", ~Arrays(desc'.keymap.entries)
               PROVE  pc' \in {"root", "keymap"} \/ (Building("keymap") /\ Unfinished)'
  BY DEF Stuck
<1>2. CASE UNCHANGED vars
  BY <1>1, <1>2 DEF vars, tables, Stuck, Building, Unfinished, entry
<1>3. CASE Restart \/ ModelFree \/ RootFails \/ NewKeymapFails \/ NewClookupFails \/ KeymapFails
           \/ Halt
  BY <1>1, <1>3 DEF Restart, ModelFree, RootFails, NewKeymapFails, NewClookupFails, KeymapFails,
                    Halt, LoadFails
<1>4. CASE (\E d \in Descs : Load(d)) \/ DecodeRoot
  BY <1>4 DEF Load, DecodeRoot
<1>5. CASE NewKeymap
  <2>1. desc \in Descs /\ list' = NoList /\ desc' = desc
    BY <1>5 DEF NewKeymap, Progress
  <2>2. pc' = "entries" /\ build'.into = "keymap" /\ build'.entries = desc.keymap.entries
    BY <1>5 DEF NewKeymap, Begin
  <2>3. build'.entries \in Seq([sid : Int, longs : (Seq(Int) \ {<<>>}) \cup {NULL}])
    BY <2>1, <2>2, LifecycleAssumption
  <2> QED  BY <1>1, <2>1, <2>2, <2>3 DEF Building, Unfinished
<1>6. CASE pc \notin {"root", "keymap"} /\ ~Building("keymap") /\ model # 0 /\ pc # "halted"
           /\ desc' = desc
  BY <1>1, <1>6 DEF Stuck
<1>7. CASE NewClookup \/ NoClookup \/ SkipNames \/ BuildIdentifierSID \/ NoIdentifierSID
           \/ BuildSIDIdentifier \/ NoSIDIdentifier \/ BuildCLookup \/ BuildNewCLookup \/ Register
  <2>1. pc \in {"clookup", "identifierSID", "SIDIdentifier", "idle"} /\ desc' = desc /\ model # 0
    BY <1>7 DEF NewClookup, NoClookup, SkipNames, BuildIdentifierSID, NoIdentifierSID,
                BuildSIDIdentifier, NoSIDIdentifier, BuildCLookup, BuildNewCLookup, Register,
                Loaded, Progress
  <2> QED  BY <1>6, <2>1 DEF Building
<1>8. CASE CreateList \/ CreateListFails \/ AddLong \/ SetEntry \/ SetEntryFails \/ AddParent
           \/ EntriesDone
  <2>1. pc = "entries" /\ desc' = desc /\ model # 0 /\ BuildOK
    BY <1>1, <1>8 DEF CreateList, CreateListFails, LoadFails, AddLong, SetEntry, SetEntryFails,
                      AddParent, EntriesDone, HasEntry, Progress
  <2>2. SUFFICES ASSUME Building("keymap"), Unfinished
                 PROVE  (Building("keymap") /\ Unfinished)'
    BY <1>1, <1>6, <2>1 DEF Stuck
  <2>3. build.into = "keymap" /\ build.how # "walk" /\ IsBuild(build)
    BY <2>1, <2>2 DEF Building, BuildOK, Shapes, IsBuild
  <2>4. ~EntriesDone
    <3>1. build.entries = <<>> => Arrays(build.entries)
      BY DEF Arrays
    <3> QED  BY <2>2, <3>1 DEF EntriesDone, Unfinished
  <2>5. ~AddParent /\ ~CreateListFails
    BY <1>1, <2>3 DEF AddParent, Existing, CreateListFails, LoadFails
  <2>6. CASE CreateList \/ AddLong
    <3>1. entry.longs # NULL /\ pc' = "entries"
      BY <2>2, <2>6 DEF CreateList, AddLong, Unfinished, HasEntry
    <3>2. build'.entries = build.entries /\ build'.into = build.into
      <4>1. CASE CreateList
        <5>1. build' = [build EXCEPT !.left = entry.longs]
          BY <4>1 DEF CreateList
        <5> QED  BY <2>3, <5>1, OneField DEF SameTable
      <4>2. CASE AddLong
        <5> DEFINE x == Tail(build.left)
                   y == build.loopCounter + 1
        <5>1. build' = [build EXCEPT !.left = x, !.loopCounter = y]
          BY <4>2 DEF AddLong
        <5> HIDE DEF x, y
        <5>2. SameTable(build, build') /\ build'.entries = build.entries
          BY <2>3, <5>1, MoreBuilt
        <5> QED  BY <5>2 DEF SameTable
      <4> QED  BY <2>6, <4>1, <4>2
    <3> QED  BY <2>2, <2>3, <3>1, <3>2 DEF Building, Unfinished, entry
  <2>7. CASE SetEntry \/ SetEntryFails
    <3>1. build.entries # <<>> /\ list' = NoList /\ pc' = "entries" /\ entry.longs # NULL
          /\ build' = NextEntry
      BY <2>2, <2>7 DEF SetEntry, SetEntryFails, HasEntry, Unfinished
    <3> DEFINE x == Tail(build.entries)
               y == build.loopCounter + 1
               b == [build EXCEPT !.entries = x, !.loopCounter = y]
    <3>2. /\ x \in Seq([sid : Int, longs : (Seq(Int) \ {<<>>}) \cup {NULL}])
          /\ ~Arrays(x)
      BY <2>2, <3>1, TailEntries
    <3>3. build' = b
      BY <3>1 DEF NextEntry
    <3> HIDE DEF x, y
    <3>4. b.entries = x
      BY <2>3 DEF IsBuild
    <3>5. b.into = build.into
      <4>1. SameTable(build, b)
        BY <2>3, MoreBuilt
      <4> QED  BY <4>1 DEF SameTable
    <3> QED  BY <2>3, <3>1, <3>2, <3>3, <3>4, <3>5 DEF Building, Unfinished
  <2> QED  BY <1>8, <2>4, <2>5, <2>6, <2>7
<1> QED
  BY <1>2, <1>3, <1>4, <1>5, <1>7, <1>8 DEF Next, Client, Step

-----------------------------------------------------------------------------
(* What a complete table says *)

\* Some entry for a SID is the last one.
LEMMA LastIndex ==
  ASSUME NEW n \in Nat, NEW S, S \subseteq 1 .. n, S # {}
  PROVE  \E m \in S : \A j \in S : j <= m
<1> DEFINE T == {k \in Nat : \A U : U \subseteq 1 .. k /\ U # {} => \E m \in U : \A j \in U : j <= m}
<1>1. 0 \in T
  <2>1. \A U : ~(U \subseteq 1 .. 0 /\ U # {})
    OBVIOUS
  <2> QED  BY <2>1
<1>2. ASSUME NEW k \in Nat, k \in T
      PROVE  k + 1 \in T
  <2>1. SUFFICES ASSUME NEW U, U \subseteq 1 .. k + 1, U # {}
                 PROVE  \E m \in U : \A j \in U : j <= m
    OBVIOUS
  <2>2. CASE k + 1 \in U
    BY <2>1, <2>2
  <2>3. CASE k + 1 \notin U
    <3>1. U \subseteq 1 .. k
      BY <2>1, <2>3
    <3> QED  BY <1>2, <2>1, <3>1
  <2> QED  BY <2>2, <2>3
<1> HIDE DEF T
<1>3. n \in T
  BY <1>1, <1>2, NatSetInduction
<1> QED  BY <1>3 DEF T

LEMMA LastWithIs ==
  ASSUME NEW src \in Seq(Entries), NEW sid, \E i \in 1 .. Len(src) : src[i].sid = sid
  PROVE  /\ LastWith(src, sid) \in 1 .. Len(src) /\ src[LastWith(src, sid)].sid = sid
         /\ \A j \in LastWith(src, sid) + 1 .. Len(src) : src[j].sid # sid
<1> DEFINE S == {i \in 1 .. Len(src) : src[i].sid = sid}
<1>1. Len(src) \in Nat /\ DOMAIN src = 1 .. Len(src)
  OBVIOUS
<1>2. \E m \in S : \A j \in S : j <= m
  BY <1>1, LastIndex
<1>3. \E m \in DOMAIN src : src[m].sid = sid /\ \A j \in DOMAIN src : src[j].sid = sid => j <= m
  BY <1>1, <1>2
<1> DEFINE m == LastWith(src, sid)
<1>4. m \in DOMAIN src /\ src[m].sid = sid /\ \A j \in DOMAIN src : src[j].sid = sid => j <= m
  BY <1>3 DEF LastWith
<1> HIDE DEF m
<1>5. \A j \in m + 1 .. Len(src) : j \in 1 .. Len(src) /\ ~(j <= m)
  BY <1>1, <1>4
<1>6. \A j \in m + 1 .. Len(src) : src[j].sid # sid
  BY <1>1, <1>4, <1>5
<1> QED  BY <1>1, <1>4, <1>6 DEF m

\* A table with all of the entries.
LEMMA AllKeys ==
  ASSUME NEW src \in Seq(Entries), NEW t, Has(t, "keymap", src, Len(src))
  PROVE  Lists(t) = EntriesOf(src)
<1>1. DOMAIN src = 1 .. Len(src) /\ ToSet(src) = {src[i] : i \in 1 .. Len(src)}
  BY DEF ToSet
<1>2. DOMAIN t.items = {e.sid : e \in ToSet(src)}
  BY <1>1 DEF Has, SIDsIn
<1>3. \A sid \in DOMAIN t.items : t.items[sid].longs = src[LastWith(src, sid)].longs
  <2> TAKE sid \in DOMAIN t.items
  <2>1. PICK i \in 1 .. Len(src) : sid = src[i].sid
    BY DEF Has, SIDsIn
  <2> DEFINE m == LastWith(src, sid)
  <2>2. m \in 1 .. Len(src) /\ src[m].sid = sid /\ \A j \in m + 1 .. Len(src) : src[j].sid # sid
    BY <2>1, LastWithIs
  <2> HIDE DEF m
  <2>3. t.items[src[m].sid].longs = src[m].longs
    BY <2>2 DEF Has, HasKeys
  <2> QED  BY <2>2, <2>3 DEF m
<1> DEFINE Of(sid) == src[LastWith(src, sid)].longs
           sids == {e.sid : e \in ToSet(src)}
<1>4. EntriesOf(src) = [sid \in sids |-> Of(sid)]
  BY DEF EntriesOf
<1>5. \A sid \in sids : t.items[sid].longs = Of(sid)
  BY <1>2, <1>3
<1>6. Lists(t) = [sid \in sids |-> t.items[sid].longs]
  BY <1>2 DEF Lists
<1> HIDE DEF Of, sids
<1> QED  BY <1>4, <1>5, <1>6

LEMMA AllParents ==
  ASSUME NEW src \in Seq(Entries), NEW t, Has(t, "clookup", src, Len(src))
  PROVE  [sid \in DOMAIN t.items |-> ToSet(t.items[sid].longs)] = ParentsIn(src)
<1>1. DOMAIN src = 1 .. Len(src) /\ ToSet(src) = {src[i] : i \in 1 .. Len(src)}
  BY DEF ToSet
<1>2. DOMAIN t.items = {e.sid : e \in ToSet(src)}
  BY <1>1 DEF Has, SIDsIn
<1>3. \A sid \in DOMAIN t.items :
        ToSet(t.items[sid].longs) = UNION {ToSet(e.longs) : e \in {e \in ToSet(src) : e.sid = sid}}
  <2> TAKE sid \in DOMAIN t.items
  <2>1. ToSet(t.items[sid].longs) = ParentsUpTo(src, Len(src), sid)
    BY DEF Has, HasParents
  <2>2. \A i \in 1 .. Len(src) : ToSet(src[i].longs) \subseteq Int
    <3> TAKE i \in 1 .. Len(src)
    <3>1. src[i] \in Entries
      OBVIOUS
    <3>2. src[i].longs \in Seq(Int)
      BY <3>1 DEF Entries
    <3> QED  BY <3>2 DEF ToSet
  <2>3. ParentsUpTo(src, Len(src), sid)
          = UNION {ToSet(e.longs) : e \in {e \in ToSet(src) : e.sid = sid}}
    BY <1>1, <2>2 DEF ParentsUpTo
  <2> QED  BY <2>1, <2>3
<1> QED  BY <1>2, <1>3 DEF ParentsIn

\* Names lead to their SIDs and back.
LEMMA NamesLead ==
  ASSUME DescSound, NamesSound, NEW e \in Named
  PROVE  /\ identifierSID # NoTable => ccoreconfModelLookupSID(e.identifier) = e.sid
         /\ SIDIdentifier # NoTable => ccoreconfModelLookupIdentifier(e.sid) = e.identifier
<1>1. \A f \in Named : (e.identifier = f.identifier \/ e.sid = f.sid) => e = f
  BY LifecycleAssumption DEF DescSound, Named
<1>2. /\ (CHOOSE f \in Named : f.identifier = e.identifier) = e
      /\ (CHOOSE f \in Named : f.sid = e.sid) = e
  BY <1>1
<1>3. ASSUME identifierSID # NoTable
      PROVE  ccoreconfModelLookupSID(e.identifier) = e.sid
  BY <1>2, <1>3 DEF NamesSound, ccoreconfModelLookupSID
<1>4. ASSUME SIDIdentifier # NoTable
      PROVE  ccoreconfModelLookupIdentifier(e.sid) = e.identifier
  BY <1>2, <1>4 DEF NamesSound, ccoreconfModelLookupIdentifier
<1> QED  BY <1>3, <1>4

-----------------------------------------------------------------------------
(* The theorems on what is left and what is loaded *)

\* Without a fault no block is lost by any step, unless a keymap was malformed,
\* the tables under way and those that are done hold what their sources say, and
\* a keymap with an entry that is not an array is never done.
THEOREM WholeInvariance == Spec => [](IInv /\ Whole /\ Stuck)
<1>1. Init => Whole /\ Stuck
  BY AtFirstWhole DEF Init, Stuck
<1>2. IInv /\ Whole /\ Stuck /\ [Next]_vars => Whole' /\ Stuck'
  BY StepWhole, StepStuck
<1> QED  BY <1>1, <1>2, Invariance, PTL DEF Spec

\* ccoreconfModelLoadDesc frees everything on each of its ways to fail, and
\* ccoreconfModelFree after any history of the model: nothing is left, as long
\* as no list or set ran out of memory and no keymap was malformed.
THEOREM NothingIsLeft == Spec => []NothingLeft
<1>1. IInv /\ Whole => NothingLeft
  <2>1. SUFFICES ASSUME IInv, Whole, pc = "idle", model = 0, faults = 0, malformed = {}
                 PROVE  heap = {}
    BY DEF NothingLeft
  <2>2. Owners = {}
    BY <2>1, Nothing DEF IInv, Progress
  <2>3. lost = {}
    BY <2>1 DEF Whole
  <2> QED  BY <2>1, <2>2, <2>3 DEF IInv, Accounted, Accounts, BlocksOf
<1> QED  BY <1>1, WholeInvariance, PTL

\* A load that succeeds, with whatever allocations failed on its way, and each
\* rebuild of the table of parents after it: the keymap has every list of keys,
\* from the static table as from CBOR (whose loopCounter never stops a keymap of
\* its size), of a malformed one too (else it is not loaded), the parents are
\* those of the static table or of a walk, each once, and names and SIDs lead to
\* each other.
THEOREM LoadedWhole == Spec => []LoadedIsWhole
<1>1. IInv /\ Whole /\ Stuck => LoadedIsWhole
  <2>1. SUFFICES ASSUME IInv, Whole, Stuck, Loaded, faults = 0
                 PROVE  LoadedIsWhole
    BY DEF LoadedIsWhole
  <2>2. Arrays(desc.keymap.entries)
    BY <2>1 DEF Stuck, Loaded, Building
  <2>7. DescSound /\ KeymapSound /\ ParentsSound /\ NamesSound /\ pc = "idle"
    BY <2>1, <2>2 DEF Whole, TablesSound, Loaded
  <2>3. desc.instance
    BY <2>7 DEF DescSound
  <2>4. Lists(keymap) = EntriesOf(desc.keymap.entries)
    <3>1. Has(keymap, "keymap", desc.keymap.entries, Len(desc.keymap.entries))
      BY <2>7 DEF KeymapSound, Building
    <3> QED  BY <2>2, <2>7, <3>1, KeymapFacts, AllKeys
  <2>5. ASSUME clookup # NoTable
        PROVE  /\ \A sid \in DOMAIN clookup.items : IsInjective(clookup.items[sid].longs)
               /\ \E src \in ParentSources :
                    [sid \in DOMAIN clookup.items |-> ToSet(clookup.items[sid].longs)]
                      = ParentsIn(src)
    <3>1. PICK src \in ParentSources : Has(clookup, "clookup", src, Len(src))
      BY <2>5, <2>7 DEF ParentsSound, Building
    <3>2. src \in Seq(Entries)
      BY <2>7, LifecycleAssumption DEF ParentSources, DescSound
    <3>3. \A sid \in DOMAIN clookup.items : IsInjective(clookup.items[sid].longs)
      BY <3>1 DEF Has, HasParents
    <3> QED  BY <3>1, <3>2, <3>3, AllParents
  <2>6. \A e \in Named :
          /\ identifierSID # NoTable => ccoreconfModelLookupSID(e.identifier) = e.sid
          /\ SIDIdentifier # NoTable => ccoreconfModelLookupIdentifier(e.sid) = e.identifier
    BY <2>7, NamesLead
  <2> QED  BY <2>3, <2>4, <2>5, <2>6 DEF LoadedIsWhole, ParentSources
<1> QED  BY <1>1, WholeInvariance, PTL

=============================================================================
