# Verification of ccoreconf

ccoreconf is a C library that keeps YANG data as a CORECONF model: a tree of
values addressed by SIDs, decoded from and encoded to CBOR, read and written
through handlers that Python tools generate from `.sid` files. This directory
holds TLA+ modules translated from that code, the TLC configurations that
check them on small instances, and proofs of their main properties, checked by
TLAPS for every instance.

Every definition that models code is listed in `PROJECT.json` under `map`,
with the lines it was translated from. Paths below are relative to the
repository.

## The system

### Components, their state and their operations

| Component | State | Operations |
|---|---|---|
| `CoreconfValueT` (`src/coreconfTypes.c`) | A tree: maps from deltas (child SID minus own SID) to values, arrays of values, typed leaves. A map owns its values and an array its elements. | constructors, `getCoreconfHashMap`, `insertCoreconfHashMap`, `updateCoreconfArrayByKeys`, `addToCoreconfArray`, `freeCoreconf`, `getCoreconfValueAsUint64` |
| `CoreconfHashMapT` (same file) | 100 chains of objects, newest first, and a size | insert (create or replace), get, free |
| Datastore (`src/coreconfManipulation.c`, query part of `src/coreconfModel.c`) | The root value, the table from a SID to its parent SIDs (`clookup`) and from a list SID to its key SIDs (`keymap`); per request the path of a SID and the list of keys left | `findRequirementForSID`, `examineCoreconfValue`, `navigateToParentContainer`, `buildCLookupHashmapFromCoreconf` |
| Generated handlers (`tools/templates/`, `tools/generateStubs.py`) | The request context: SID, keys, path, model | `handler_read_<SID>`, `handler_write_<SID>` |
| Schema tables (`tools/prepareModel.py`, `tools/generateStubs.py`) | Static parents and key-mapping, keys each node needs | computed once, at build time |
| Model life cycle (`src/coreconfModel.c`) | The five tables of a model | load from a descriptor, free, look up names |
| Handler registry (`src/sid_handlers.c`) | SID to handlers, in a growing table | register (or replace), look up, count |
| `hashmap.c` | Buckets with Robin Hood probing; grows, shrinks, clears | set, get, delete, clear, iterate |
| `DynamicLongListT` (`src/dynamicLongList.c`) | A growing list of `long` | add, add if new, pop, peek, clone, compare |
| Serialization (`src/serialization.c`) | none | value to CBOR and back, key-mapping to CBOR and back |

### How they interact

The application loads a model (root from CBOR, tables static, decoded, or
walked from the instance), and the generated code registers its handlers. For
each request it asks `findRequirementForSID` for the *path*: the chain of
nodes from the top of the schema to the SID, with the key SIDs of every list
on it. A read walks the path down from the root with `examineCoreconfValue`,
subtracting SIDs to get deltas and consuming keys from the **end** of the
request's list at every YANG list. A write handler checks the value, pops keys
for the user's function, calls it (this is where the device changes), and if
it returns 0 walks down a *copy* of the keys with `navigateToParentContainer`
to the parent and inserts there; a list's handler replaces or appends an entry
with `updateCoreconfArrayByKeys`. Everything is a direct call on shared
pointers: a result points into the model, and a write frees what it replaces.

### What is hard

There are no threads, no clock and no persistence. What is hard here is:

- **arithmetic along a path**: deltas relative to a parent whose SID may be
  larger, list entries that count as their list, several keys per list and
  several lists per path, consumed from the end;
- **long sequences of writes** that replace containers and entries, after
  which paths and tables found earlier must still mean the same;
- **partial failure**: a user function that has succeeded before the model
  turns out to have no such node, an insert that gives up, no memory;
- **ownership**: who frees a value that was accepted, refused or replaced;
- **limits**: the length of a chain, the depth of a walk, the growth of tables.

## Modules

| Module | Models | State and actions |
|---|---|---|
| `CoreconfTree` | `CoreconfValueT` as a function from positions to cells, and its operations as operators on trees | none |
| `YangSchema` | The schema, what the tools compute from it, and what it is to be an instance of it (`Conforms`, `UniqueKeys`) | none |
| `Datastore` | A loaded model and a client: every call of `coreconfManipulation.c` as one action per loop iteration, and the generated handlers | `root` is `model->root`, `clookup` the table of parents, `ctx` the handler context, `pc` the loop that runs, the other variables its locals; `asked` (the keys the client gave, less those its reads took) and `result` are history |
| `DatastoreAbs` | What a datastore promises: nodes addressed by SID and keys, writes replace | `data`, `answer` |
| `DatastoreMap` | The refinement mapping from `Datastore` to `DatastoreAbs` | |
| `CoreconfHashMap` | The chained map under every `CORECONF_HASHMAP`, with its limits, and who owns its values | `table`, `size` are the fields; `allocated`, `held`, `lost` who owns what; `key` (of the last call) is history; one action per call |
| `OwningMap` | What a map promises its callers: a call is answered for the key it was called with | `map`, `held`, `key`, `answer` |
| `RobinHood` | `hashmap.c`, the table behind `clookup`, the key-mapping, the names and the handlers | the fields of `struct hashmap`; `pc` the loop that runs, `entry`, `i`, `j`, `spare`, `buckets2` (`map2`) its locals; one action per iteration |
| `ItemMap` | What `hashmap.c` promises its callers: a call begins with an item, and returns what is right for that item | `map`, `op`, `item`, `answer`, `oom` |
| `GeneratedHandlers` | A client of `Datastore` that goes through handlers generated for one YANG model: what each SID's handler fixes in its own text, and the key arguments it gives the user's function | `called` is history |
| `SchcHandlers`, `SchcModel` | The handlers, the tables and (a cut of) the instance generated for ietf-schc in `examples/multi_sid`, and the queries its `main.c` makes | none: data |
| `Serialization` | `serialization.c`: the encoder, another encoder that uses indefinite lengths, the decoder with its recursion as a stack of frames, every allocation failing; the type checks of union leaves | `todo`, `buf` the encoder's, `at`, `stack`, `ret` the decoder's; `heap` its blocks; `dropped`, `oom` history |
| `ModelLifecycle` | `coreconfModel.c`, `sid_handlers.c` and the lists of the tables (`dynamicLongList.c`), every allocation failing | `model`, `root` and the five tables are the fields of `CoreconfModelT`, `pc` the part of a load that runs, `build`, `list` its locals; `heap` the blocks; `lost`, `faults`, `malformed` history |
| `TreeConstructors` | Trees written out by hand | none |
| `DatastoreMC`, `FindingsMC`, `HashMapMC`, `RobinHoodMC`, `SchcMC`, `SerializationMC`, `LifecycleMC` | Instances for TLC | |
| `SeqLemmas` | Lemmas about sequences | |
| `DatastoreProofs`, `RefinementProofs`, `HashMapProofs`, `RobinHoodProofs`, `LifecycleProofs`, `SerializationProofs`, `RoundTripProofs` | Proofs about the module each extends; `RoundTripProofs` extends `SerializationProofs` | |

`Datastore` extends `YangSchema`, which extends `CoreconfTree`. In
`CoreconfTree` a map is a function; that a chained map behaves as one, for as
long as its inserts return 0, is what `CoreconfHashMap` implementing
`OwningMap` shows, so the two fit together. When an insert returns -1 the
datastore takes its failing branch (`StoreFails`).

How the code maps to `Datastore`:

- `FindRequirementForSID`, `FindParent`, `FindFails`, `FindReturns`: entry,
  loop body, early return and end of `findRequirementForSID`;
- `ExamineCoreconfValue`, `ExamineStep`, `ExamineFails`, `ExamineReturns`: the
  same for `examineCoreconfValue`, where left-over keys make the call fail;
- `Write` starts a handler: `HandlerRejects` (wrong type, too few keys, entry
  without its keys), `UserFunctionFails`, or `UserFunctionSucceeds`, after
  which `NavigateStep` runs until `NavigateFails`, or the parent is found and
  `InsertValue`, `UpdateListEntry` or `StoreFails` ends the call. An
  enumeration has no generated handler: `UpdateValueBySID` is what the
  example does instead;
- `BuildCLookupHashmap`, `WalkNode`, `WalkReturns`: the recursive walk, as a
  set of calls still to make. The order of the calls does not matter to the
  table they build, because every SID has one parent, which `TablesAgree`
  states; TLC's and the proofs' choice is an arbitrary one (`CHOOSE`).

A position stands for a pointer. Integer types are merged into signed and
unsigned; what a key compares as (`getCoreconfValueAsUint64`) is modelled for
every type, modulo 2^64. Names, logging and printing are left out.

`GeneratedHandlers` extends `Datastore` without changing it: a handler's step
is a step of `Datastore` with the handler's own type, counts and deltas in
place of those the templates would compute. That every one of the 34 handlers
generated for ietf-schc agrees with its template is `ImplementsTemplates`. In
`SchcHandlers` one definition stands for the handlers of neighbouring SIDs
whose text differs in nothing but the SID. A union of unsigned types or a
binary leaf is written and read as a `CoreconfValueT`; the read of a plain leaf
answers with the user's value and never with the model's.

`Serialization` has one action for each CBOR item that is read or written and
for each early return. A frame of `stack` is a running call of `parseArray`,
`parseMap` or of the tag branch; a block of memory is named by what it is for
and the item that made it be allocated, so that a leak, a double free and two
owners of one block are visible. Where the code uses a fresh allocation without
looking at it (most constructors), running out of memory either stops the
program (`Halt`) or the constructor returns NULL, as it does on a
microcontroller where writing to address 0 does no harm.

`ModelLifecycle` numbers allocations. `Load`, `DecodeRoot`, `NewKeymap`,
`NewClookup`, `BuildIdentifierSID`, `BuildSIDIdentifier` follow
`ccoreconfModelLoadDesc`, each with the action for its failure; between them
`CreateList`, `AddLong`, `SetEntry`, `AddParent` build one table, be it from a
static table, from CBOR or by a walk, which differ in what happens when
something fails (`CreateListFails`, `KeymapFails`, `Halt`). The instance and a
hashmap count as one block each: `Serialization` and `RobinHood` say what is
inside. So does the registry: its items point to functions and own nothing, so
that a registration is `hashmap_new` the first time (`Register`; one that fails
changes nothing) and a set of `RobinHood` ever after, one that replaces or has no
memory to grow included.

`CoreconfHashMap` gives one action to each outcome of
`insertCoreconfHashMap`: `Replace` (the key is among the objects it looks at),
`Prepend` (it has seen the whole chain), `GiveUp` (it stops at the limit and
leaves its new object behind) and `OutOfMemory`.

`RobinHood` starts a call with `Set`, `SetOutOfMemory` (the map must grow and
cannot), `Get`, `Delete` or `Clear`; then one action is one iteration of one
loop: `SetPlaces`, `SetReplaces`, `SetPasses`; `FindPasses`, `FindFails`,
`GetReturns`; `DeleteFinds`, `Shift`, `ShiftEnds`; and in `resize0`
`ResizeSkips`, `ResizeMoves`, `MovePlaces`, `MovePasses`, `ResizeEnds`. A
shrink that has no memory is the branch of `ShiftEnds` that returns. What
`resize0` writes into the old array (`dib`, displaced items) is in `entry`
instead: it looks at no bucket of it twice. Empty buckets hold stale bytes in
the code and nothing in the model. `dib` is a bit-field of 16 bits
(`hashmap.c`:30) and unbounded in the model: only a probe past 65535 buckets
would tell.

## Runs

| Run | Module | Shows |
|---|---|---|
| `datastore` | `DatastoreMC` | All seven properties of the datastore, below |
| `hashmap` | `HashMapMC` | All five properties of the chained map, below |
| `robin_hood` | `RobinHoodMC` | All six properties of the Robin Hood table, below |
| `schc_requests` | `SchcMC` | The generated handlers agree with their templates, and users' functions are told the right keys |
| `serialization` | `SerializationMC` | All four properties of the codec, below |
| `lifecycle` | `LifecycleMC` | All four properties of a model's life, below |
| `updates_if_function_returns_0`, `replaces_or_adds`, `replaced_has_the_keys`, `keeps_the_array` | `FindingsMC` | Four texts the code does not follow |
| `can_be_replaced` | `HashMapMC` | A comment that fails at the limit of a chain |
| `accepts_any_member` | `SerializationMC` | A docstring that fails for decoded values |

### `datastore`

Properties:

- `TypeOK`: the instance remains an instance of its schema, and the locals of
  the running call fit together: the node reached, `previousSID` and what is
  left of the path agree at every iteration (`DescentOK`).
- `TablesAgree`: a table of parents walked from the instance says what the
  static table says, at any moment of the walk and after any writes.
- `UniqueEntries`: no list ever has two entries with equal keys.
- `Refines`: `Datastore` implements `DatastoreAbs`. Reads return exactly the
  node at the address and nothing else, writes that return 0 replace exactly
  it, and every failure leaves the data alone. The address is made of the keys
  the client gave: a call that leaves the context with fewer keys than it came
  with makes the next one read or write elsewhere, unless it is a
  read, which takes keys from its context in the code.
- `OnlyTargetChanges`: only the last step of a successful write changes the
  instance, and nothing outside the node but the size of its list.
- `WalkIsComplete`: after a walk every node of the instance can be found.
- `CallReturns`: every call ends. This is so for an instance of the schema
  (`InstanceAssumption`): where a decoded map has a child under delta 0, a walk
  makes a SID its own parent, and `findRequirementForSID` on that table does not
  end (`coreconfManipulation.c`:170).

Bounds. The schema has the shape of SCHC's rules: a container, a list with two
keys, inside it a list with one key whose leaf has a SID *below* its parent's,
and an enumeration elsewhere. Two list levels with a different number of keys
are the least in which the order of the keys, the number consumed per list and
the delta across an entry can each go wrong separately. A list holds at most
`MaxEntries` = 2 entries, so that an append, a replacement of the first and of
the last entry and the choice of the wrong one all happen. `KeyLists` has, per
SID, the right keys, too few, too many, keys of another entry and of none;
`Values` has values of a wrong type, entries without a key, and containers that
drop the list below them. `UINT64` = 256 stands for 2^64: no key is near it.
`MaxRecursion` = 5 stands for the code's 50 and is reached: the call for an inner
entry is at the limit and still gives its leaves, the deepest nodes, their
parent; the calls for the leaves are beyond it. A node below these would not be
found, which is the hypothesis of the theorem `WalksComplete`.

Fairness. `WF_vars(Step)`: sequential code that has been called goes on. A
client need not call anything, so `Call` is not fair. A user function and the
allocator may fail at every call.

### `hashmap`

- `HashMapOK`: objects are in the bucket of their key, and no chain outgrows
  what an insert looks at by more than one object.
- `OneObjectPerKey`: no key is twice in a chain, although an insert does not
  look at all of a long one.
- `OneOwner`: a value that is allocated is owned by the caller or by one
  object of the map, never both, never neither.
- `SizeCounts`: the size, which the encoder announces before the pairs, is
  their number.
- `IsOwningMap`: the map implements `OwningMap`, call for call and key for key.

`MAX_LOOP` = 1 stands for 50, so that a chain has at most 3 objects; four keys
fall into one bucket, one more than a chain takes, and a fifth key has a bucket
of its own. Four values let three be in the map while the caller holds another.
`MaxLost` = 1 bounds how many objects are lost, and with it the only counter.

### `robin_hood`

- `TypeOK`: every item, and every item that is carried, knows its distance from
  home; the array never has fewer buckets than the capacity a clear returns to.
- `RobinHoodOrder`: an item is at most one further from home than the item
  before it. This is what makes two shortcuts of the code right: a set that
  has displaced an item no longer looks for its own key, and a delete stops
  shifting at the first item at home.
- `AlwaysAnEmptyBucket`: no array a loop probes is full.
- `CountsItems`: `count` is the number of items, whatever was replaced, moved,
  or failed.
- `IsItemMap`: the table implements `ItemMap`. In the middle of a set, the map
  is what is in the buckets with the carried item in place of the new one; in
  the middle of a delete it still has the deleted item. A call ends with the
  answer for the item it began with.
- `CallReturns`: every loop ends.

Bounds. `MinCap` = 4 stands for 16 and `SHRINK_AT` = 25 for 10 percent, so that
five keys make the table grow to 8 and to 16 buckets and a shrink has several
items to move; the growth shares (`GROW_AT` = 60, and 75 after a clear) are the
code's. Three keys have home 3 of 4 buckets, the last one, so that probes wrap
around; two of them have the same hash, which only `compare` tells apart. One
key has two values, to see a replacement. Fairness as in `datastore`.

### `schc_requests`

- `ImplementsTemplates`: every step of a generated handler is the step of
  `Datastore` the template and the schema ask for: the right type check, the
  right number of keys, the right deltas.
- `KeysTold`: the keys the user's function was given are those of the entries
  that enclose the node the model then reads or changes, outermost list first
  (README.md:259), and whenever it is called, be it to read a leaf the model is
  not asked for, it is given one for each enclosing list, under their names.
  Handler and datastore count keys from the end of one list
  in two different places; a user who acts on a rule while the model changes
  another is what this excludes.
- `DeepQueries`: on the instance as loaded, the queries of `main.c` are answered
  as it expects, the unsatisfiable ones with nothing.

Bounds. All 34 handlers, all parents and key-mappings of the module; of the 26
field entries of the first rule those that `main.c` asks for, and the second
rule. Each handler is asked for a rule that is not there, with as many keys as
it takes and with one less, and eleven of them for nodes that are there.
`MaxEntries` = 5 leaves room for an append in each list that is written. There
is no fairness here: `CallReturns` is checked in `datastore`.

### `serialization`

- `TypeOK`: every block the decoder has allocated is in exactly one of the
  value just returned, the containers under way, and the values that were
  dropped.
- `RoundTrip`: what the encoder accepted is decoded as the same value, integers
  at their least width and with no sign if they have none, or as NULL if it is
  too deep, has too many entries or a tag above 32 bits; never as a part of
  itself. Indefinite lengths, and the order of a map's entries, make no
  difference. A run out of memory gives NULL, except in an append to an array of
  indefinite length and in an insert, which lose the element or entry in
  silence (`oom` = "ignored").
- `NothingLost`: NULL leaves nothing allocated, and a value nothing else,
  except in those two cases. In particular the limit of `parseMap` comes before
  `insertCoreconfHashMap` gives up, whose -1 it does not look at.
- `CallReturns`: every call ends, whatever the input.

Bounds. Depth 2 for 20 and entries 1 for 50, with values at each limit and one
beyond; integers of 2, 3, 4 and 5 bits for 8, 16, 32 and 64, with each boundary
of each width; a buffer of 7 items, which some values exceed. All keys but one
share a bucket, so that chains come as near to their limit as a decoder can
bring them. Malformed input ends too early, has a key that is no integer, a
length larger than the input, or what is no value. `AtEnd` is true at the end of
the input as well, as `nanocbor_at_end` is: a container cut short there is
returned with the elements it has. `RoundTrip` is about what the encoder wrote
and never meets it; `NothingLost` and `TypeOK` do.

### `lifecycle`

- `OneOwner`: every block is owned by one place of the model or of the table
  under way, or is lost: nothing in reach is freed and nothing can be freed
  twice, whichever allocation fails.
- `NothingLeft`: a failed load and a freed model leave nothing, unless a list
  or a set ran out of memory (`faults`) or a load was given a malformed keymap
  (`malformed`), in which cases the code loses blocks.
- `LoadedIsWhole`: unless a list or a set ran out of memory, what loaded has the
  whole keymap, from static table and CBOR alike, and a malformed keymap, whose
  decoding stops at a SID without an array, never loads in part; a table of parents that is the static one or that of one walk (an old
  one leaves no trace in a rebuild), each parent once; names and SIDs that lead
  to each other. A table of names, or a *static* table of parents, that could
  not be built is missing as a whole: `coreconfModel.h`:120 promises NULL on an
  allocation failure, but a model without these tables is returned.
- `CallReturns`: loads and rebuilds end.

Bounds. `CORECONF_MAX_LOOP` = 6 for 50, with keymaps at the limit, one value
and one entry beyond; two lists with two keys and one; a walk that meets SIDs
again, with the same parent and with another. `MaxBlocks` = 13 lets a rebuild
follow a load and a second load follow one that failed; `MaxFaults` = 2 bounds
the lists and sets that run out of memory (a list needs one to lose its buffer
and a second to lose it again), and no load begins after so many of
these and malformed keymaps together; any number of other allocations fails. The
keymaps of CBOR are whole, too long, with a SID twice, and malformed after
an entry that is whole.

### Disagreements

- **A write that the user function accepted may not be stored**
  (`write_handler.c.jinja`:68, README.md:257-258): the function runs before the
  node is looked for.
- **The first entry of an absent list cannot be added**
  (`write_handler_list.c.jinja`:39, README.md:244-245).
- **Entries keyed by strings overwrite each other**
  (`coreconfTypes.c`:506, comment at 477): keys are compared as numbers. The
  README's limitations say that string-keyed lists cannot be *addressed*; here
  a write of a whole entry, which needs no address, destroys another one.
- **A comment of an example is out of date**
  (`examples/multi_sid/main.c`:108-111): keys that select no entry give NULL.
- **A value of a leaf's own type is rejected** (`generateStubs.py`:494, docstring
  at 485): the check for a signed member of a union is `isTypeInt`, but the
  decoder makes non-negative integers `CORECONF_UINT_*`; the check for an
  identityref is `isTypeUint`, but a tagged one is a `CORECONF_TAG`. The first
  is as true of plain signed leaves (`write_handler.c.jinja`:26).
- **The oldest key of a full chain cannot be replaced**
  (`coreconfTypes.c`:230, comment at 210): a chain can grow to 52 objects, an
  insert compares 51. The object that was allocated is lost as well.

## Proofs

TLAPS proves, for every schema, instance, client, hash and bound:

| Theorem | Says |
|---|---|
| `DatastoreProofs!TypeCorrect` | `Spec => []TypeOK` |
| `DatastoreProofs!ParentsAgree` | `Spec => []TablesAgree` |
| `DatastoreProofs!KeysStayUnique` | `Spec => []UniqueEntries` |
| `DatastoreProofs!WritesAreLocal` | `Spec => OnlyTargetChanges` |
| `DatastoreProofs!WalksComplete` | `Spec => WalkIsComplete`, for a schema no deeper than `MaxRecursion` + 1 |
| `RefinementProofs!Refinement` | `Spec => Refines` (of `Datastore`) |
| `DatastoreProofs!UpdateConforms`, `PutConforms` | what an update by keys and an insert make of an instance |
| `HashMapProofs!ChainsAreInOrder` | `Spec => []HashMapOK` |
| `HashMapProofs!KeysHaveOneObject` | `Spec => []OneObjectPerKey` |
| `HashMapProofs!ValuesHaveOneOwner` | `Spec => []OneOwner` |
| `HashMapProofs!SizeIsRight` | `Spec => []SizeCounts` |
| `HashMapProofs!ImplementsOwningMap` | `Spec => IsOwningMap` |
| `RobinHoodProofs!TypeCorrect` | `Spec => []TypeOK` |
| `RobinHoodProofs!OrderKept` | `Spec => []RobinHoodOrder` |
| `RobinHoodProofs!NeverFull` | `Spec => []AlwaysAnEmptyBucket` |
| `RobinHoodProofs!CountIsRight` | `Spec => []CountsItems` |
| `RobinHoodProofs!ImplementsItemMap` | `Spec => IsItemMap` |
| `SerializationProofs!TypeCorrect` | `Spec => []TypeOK` |
| `SerializationProofs!NothingIsLost` | `Spec => []NothingLost` |
| `RoundTripProofs!RoundTrips` | `Spec => []RoundTrip` |
| `LifecycleProofs!OwnedOnce` | `Spec => []OneOwner` (of `ModelLifecycle`) |
| `LifecycleProofs!NothingIsLeft` | `Spec => []NothingLeft` |
| `LifecycleProofs!LoadedWhole` | `Spec => []LoadedIsWhole` |

**Datastore.** The invariant is `IInv == TypeOK /\ IdleOK /\ TablesAgree /\
UniqueEntries`. None of the parts is inductive alone. A write keeps the tree an
instance of the schema only if it puts a value of the right shape in the right
place, so `TypeOK` has to say of every iteration that the node reached is the
one the consumed part of the path speaks of (`DescentOK`), and of a value under
way that it has the shape of the SID (`ValueOK`). That the path found is a path
of the schema needs `TablesAgree`, since `findRequirementForSID` follows a
table that may have been walked from the instance; and that a walk yields the
schema's parents needs the instance to be one of the schema. `IdleOK` says that
the locals are reset between calls. The first part of `DatastoreProofs` shows
that `Put` and `updateCoreconfArrayByKeys` preserve `Conforms` and
`UniqueKeys`; the second has one lemma per action. That a walk comes by every node
(`WalkOK`) is that each node has its SID in the table or is further down than
the node of a call still to be made. The SID of a list entry is its list's, put
there one call before, so the entry of a call that has been made may wait for
none; and where the walk gives up for its depth there must be nothing left,
which is the theorem's hypothesis. The code counts a list and each of its
entries as a level, and so do shapes.

**Datastore implements its promise.** `Refinement` adds to `IInv` the part
`KeysOK`: on the way down, the keys of the node reached followed by the keys
left, turned round, are the keys asked for. The keys of a position are a
recursive concatenation along the way to it, so the lemmas about them
(`KeysAtStep`, `KeysAtGrows`, `EqualKeys`) come first. `AddressUnique` says that
positions of one shape with the same keys are one position, which is
`UniqueEntries` at every list on the way; with it, what a call that has come to
the end has reached is the node at the address (`ReadFinds`), and what has
failed on the way had no such node (`ReadFindsNothing`). For a write,
`WriteData` says what putting a value under a position makes of the map from
addresses to nodes; `InsertWrites` and `UpdateWrites` are the two ways in which
a handler does it. All other steps map to a stutter (`NoEffectStep`).

**Chained map.** `HashMapProofs` states the invariant of a table `t` rather
than of the variable, proves what replacing a value and prepending an object
make of a table (`ReplaceIsGood`, `PrependIsGood`), and needs one lemma per
action. An insert that has seen a whole chain without its key may add it, and
by `KeyOnce` and `WellHashed` that is all the map has of the key; with
`ValueOnce` the value that is freed is in no other object. The refinement
follows from the same two lemmas, read as what they make of the function from
keys to values.

**Robin Hood table.** The invariant is `IInv == CallOK /\ SizesOK /\ ArrayOK /\
SetOK /\ FindOK /\ ShiftOK /\ ResizeOK /\ MoveOK`. `ArrayOK` is about an array
alone: every item is at its distance from home, an item is at most one further
than the item before it, and no key is there twice. A delete breaks the order
for as long as it shifts, at one bucket: the *hole*, the bucket it looks at,
which the invariant leaves out and about which `ShiftOK` says what it still is.
The shortcuts of the code rest on two lemmas: where the order holds, the
buckets from an item's home to where it is are full (`NoGap`), and so a probe
that meets a bucket nearer to its home than itself has seen every bucket its
key could be in (`ProbeTells`, `PassKeys`). A set carries an item: until it
displaces one, no bucket passed has its key; afterwards the new key is in the
map and the carried one nowhere (`SetOK`). A resize splits the items in those
left, those moved and the one under way (`ResizeOK`, `MoveOK`). That there is
always an empty bucket is arithmetic of shares (`Limits`): a map that doubles
has room under its new limit, and so does one that is halved.

**Serialization.** The invariant is `IInv == PCOK /\ EncoderOK /\ FreshOK /\
DecoderOK /\ Accounted`. `DecoderOK` gives every running call its kind: a tag
that owns nothing yet, an array in which what is there and what is to come make
up the allocated slots (and one that has slots does not come to the end of the
input without an element, `Reached`), or a map that has no more entries than its loop has had
turns. `Accounted` (`Owned`) says that the running calls, the value just
returned and the blocks dropped own the heap, and that no two of them own
anything made from the same item of the input. One lemma stands for each way in
which ownership changes: a call begins (`Push`), a value is made (`Make`), a
call returns its container (`PopReturns`), or frees it (`PopFreed`,
`PopFreesValue`), a container takes in a value (`TakeIn`). What a container is
after it took a value in is `GrownTree`, `MapTree` and `TagTree`. `NeverGivesUp`
is where the limits of the two files meet: the loop of `parseMap` ends after
`CORECONF_MAX_LOOP` + 1 turns, so no chain is long enough for
`insertCoreconfHashMap` to give up.

**The round trip.** Both directions recurse over a value, and the two meet only
in the buffer. So the invariant adds to `IInv` the part `Faithful == SourceOK /\
WrittenOK /\ DecodedOK`. For the encoder, `Written` says that the buffer has a
history: the positions still to be written before each of its items, of which
every item takes the first and puts its children in front (`Writes`). This
history outlives the encoder, and the decoder reads along it (`Reading`). A call
of the decoder that waits for a value has a *plan*: the position it is at, which
of its children are still to be read, and what comes after it (`Plans`). `Fills`
says that its container has what was read and no more, `Awaits` that the call
above reads the first child of the plan, and `Stacked` ties all calls of the
stack together. When a call returns, what it has built is the whole value at its
position, normalised (`IsWhole`), so the caller's container grows by one child
of the source (`ContainerTakes`). That NULL means a limit or the memory, and never a
misread item, is the other half: at a position within the limits of depth, map
size and tag number no call gives up (`WithinLimits`, `LimitAt`). The theorem
assumes of a value what the constructors ensure (`IsValue`): the size of a
container is the number of its children, an integer fits its width.

**Model life cycle.** The invariant is `IInv == Accounted /\ Shapes /\ Progress`. `Accounted` is `OneOwner` with what it needs to survive an
allocation: every block is a number up to `count`, so the next one is new.
`LifecycleProofs` first says what can happen to any accounts of owners, heap and
lost blocks: an owner gets a new block (`Acquire`), owners go and their blocks
are freed (`Free`) or lost (`Lose`), a list moves from one owner to another
(`Move`). Each action is then one of these, or `Lose` and `Move` one after the
other when `SetEntry` replaces an entry. Which one it is depends on what is
already there: a load that fails frees three of the tables and may do so only
because it has not come to the others, which is `Progress`.

What is left and what is loaded need a second invariant, `Whole`, which speaks
only of behaviours without a fault: nothing is lost, and a load holds what its
sources say as far as it has come. Of a table under way (`BuildSound`, `Built`)
that is the first i entries of its source in the table, in the list the values
of the next one that are not in `left` any more, and for CBOR a `loopCounter`
that is what the entries so far count (`Counted`). From the last part follows
`NeverFails`: the decoder does not give up on a keymap that counts no more than
its loop allows. A SID that a keymap of CBOR has twice has the
list that came last (`EntriesOf`). A malformed keymap is not a fault: the third
part of the invariant, `Stuck`, says that a load given one never comes past its
keymap, since the entry without an array stays among those to be
read (`Unfinished`) until the load gives up. A table that is done stays as it is (`KeymapSound`,
`ParentsSound`, `NamesSound`) or is freed as a whole. `HasMore` is what all
four ways to put an entry into a table come down to. `LifecycleAssumption`
says what tables are made of: SIDs and lists of SIDs; a static table has a SID
once, since `tools/prepareModel.py` writes it from a dictionary; what a walk
finds has one parent each time; SIDs and names of a `.sid` file are unique.

Assumptions, all named in the modules and evaluated by TLC on the instances:
`SchemaAssumption` and `KeyMappingAssumption` (what pyang guarantees of a
`.sid` file: SIDs are unique, a list has keys, a child is stored under the
difference of the SIDs), `InstanceAssumption` (what is loaded is an instance
of the schema, with unique keys), `ClientAssumption` (a value that passes the
handler's checks is otherwise well-formed below its top level, and key leaves
are written only with their entry), `TreeAssumption`, `HashMapAssumption`,
`LifecycleAssumption` (above), `RobinHoodAssumption` (an array starts with at least 2 buckets, the
code's 16; a map grows at a share of its buckets of at least a half and shrinks
at no more than half of that share, the code's 0.60 and 0.10), `SerializationAssumption` (values are what the constructors
build, malformed input is made of CBOR items, no integer is wider than 64 bits).
`InstanceAssumption` and `ClientAssumption` are obligations of the application:
the code checks only the type of the top of a value and the keys of an entry.

**Only model-checked**: `CallReturns` (liveness is out of the prover's reach);
the properties of the handlers of ietf-schc (`ImplementsTemplates` and
`KeysTold`, proofs planned, and `DeepQueries`, which is about one instance); and
the violations, which are single behaviours. Where a proof above needs an induction over numbers or
sequences it is over a *set* of them (`NatSetInduction`, `SeqSetInduction` in
`SeqLemmas`), which needs no operator as a parameter.

## Not modelled

- Hash functions (SipHash, Murmur, xxHash): arithmetic on which nothing depends
  but that they are functions. `hashKey` is a constant.
- NanoCBOR, an external library: `Serialization` has its items.
- `keyMappingHashMapToCBOR`, which only writes, and the parts of
  `dynamicLongList.c` no code of the repository calls (comparing by sorting, and
  cloning but for the copy of a request's keys).
- `errno`, which `char2uint64` (`coreconfTypes.c`:45) reads and never resets:
  after one string key out of range, later ones read as 0 until something else
  resets it. `StrToUmax` is a function of the string. Only string keys are read
  this way, and two that would be told apart would then be equal; `UniqueEntries`
  and `Refines` compare keys as the same function does.
- `freeExaminedCoreconfValue`, and a client that keeps a pointer into the model
  across a write: positions stand for pointers.
- The user functions in `examples/*/stubs/*-impl-template.c`, stubs for a user to
  fill in: a handler may get any answer from them.
- The handlers and tables of `examples/temperature_sensor`, which the templates'
  model in `Datastore` covers: it has no list.
- Printing, the parsing of `.sid` files, the naming of C symbols and the text
  the generators write.
- RIOT packaging, CMake, the contents of `archive/`.

## Plan

1. `CoreconfTree`, `YangSchema`, `Datastore`, `DatastoreAbs` and their proofs,
   as the most important behaviour of the system (done).
2. `CoreconfHashMap` and `OwningMap` with proofs (done).
3. `RobinHood` and `ItemMap` with proofs (done).
4. `ModelLifecycle` with proofs of all its invariants (done).
5. `Serialization` with proofs of the accounting of blocks and of the round
   trip (done).
6. The generated handlers of ietf-schc (done).
7. `Ownership`: pointers a read returned and writes that free what they point
   to; `freeExaminedCoreconfValue`.
8. Proofs left: `KeysTold` and `ImplementsTemplates` of 6.
