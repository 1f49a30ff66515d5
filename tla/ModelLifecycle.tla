--------------------------- MODULE ModelLifecycle ---------------------------
(***************************************************************************)
(* The life of one CoreconfModelT (src/coreconfModel.c), its registry of   *)
(* handlers (src/sid_handlers.c) and the lists its tables hold             *)
(* (src/dynamicLongList.c), where every allocation may fail.               *)
(*                                                                         *)
(* A block of memory is the number of the allocation that made it, 0 is    *)
(* the null pointer.  The decoded instance counts as one block             *)
(* (Serialization says what its decoder leaves), and so does a hashmap,    *)
(* whose set may replace an item or run out of memory (RobinHood).  The    *)
(* registry's items own nothing: what it holds is a hashmap's alone.       *)
(***************************************************************************)
EXTENDS Integers, SequencesExt, FiniteSetsExt

CONSTANTS
  NULL,
  Descs,             \* CoreconfModelDescT: [instance, keymap, clookup, walks, SIDTable]
  CORECONF_MAX_LOOP, \* 50
  MaxBlocks,         \* bound on allocations: no call begins after so many
  MaxFaults          \* bound on faults, and on what no load begins after

\* A table's source: [how, entries], an entry [sid, longs] the SID of a list and
\* of its keys, or a SID and parents of it; longs is NULL for what is not an
\* array.  walks: what a walk of the instance finds, at one time or another.
Entries == [sid : Int, longs : Seq(Int)]
Arrays(entries) == \A i \in DOMAIN entries : entries[i].longs # NULL
Once(entries) == \A i, j \in DOMAIN entries : entries[i].sid = entries[j].sid => i = j

\* The static tables are made from Python dictionaries (tools/prepareModel.py),
\* so a SID is there once; SIDs and names of a .sid file are unique.
ASSUME LifecycleAssumption ==
  /\ CORECONF_MAX_LOOP \in Nat /\ MaxBlocks \in Nat /\ MaxFaults \in Nat
  /\ NULL \notin Int /\ NULL \notin Seq(Int)
  /\ \A d \in Descs :
       /\ d.keymap.how \in {"static", "cbor"} /\ d.clookup.how \in {"static", "walk"}
       /\ d.keymap.entries \in Seq([sid : Int, longs : (Seq(Int) \ {<<>>}) \cup {NULL}])
       /\ d.keymap.how = "static" => Arrays(d.keymap.entries) /\ Once(d.keymap.entries)
       /\ d.clookup.how = "static" =>
            d.clookup.entries \in Seq(Entries) \ {<<>>} /\ Once(d.clookup.entries)
       /\ \A w \in d.walks : w \in Seq(Entries) /\ \A i \in DOMAIN w : Len(w[i].longs) = 1
       /\ \A e, f \in d.SIDTable :
            NULL \notin {e.identifier, f.identifier} /\ (e.identifier = f.identifier \/ e.sid = f.sid)
              => e = f

VARIABLES
  pc,             \* "idle", the part of the model to build next, "entries" or "halted"
  desc,           \* what the model is loaded from
  model, root,    \* blocks of the struct and of the instance
  keymap, clookup, identifierSID, SIDIdentifier, \* tables, or NoTable
  handlers,       \* block of the registry
  build,          \* the table being built: [into, how, after, entries, left, loopCounter]
  list,           \* the list being built, or NoList
  heap, count,    \* the blocks allocated, the number of allocations
  lost,           \* history: blocks nothing points to any more
  faults,         \* history: how many lists and sets ran out of memory
  malformed       \* history: the malformed keymaps a load was given

tables == <<keymap, clookup, identifierSID, SIDIdentifier, handlers>>
memory == <<heap, count, lost, faults>>
vars == <<pc, desc, model, root, tables, build, list, memory, malformed>>

-----------------------------------------------------------------------------
(* Blocks *)

fresh == count + 1
Allocate == heap' = heap \cup {fresh} /\ count' = fresh /\ UNCHANGED <<lost, faults>>
Release(blocks) == heap' = heap \ blocks /\ UNCHANGED <<count, lost, faults>>

NewTable == [id |-> fresh, items |-> <<>>]
NoTable == [id |-> 0, items |-> <<>>]

\* DynamicLongListT: size is Len(longs), buffer the block of longList.
NewList == [id |-> fresh, buffer |-> 0, longs |-> <<>>]
NoList == [id |-> 0, buffer |-> 0, longs |-> <<>>]
ListBlocks(l) == {l.id, l.buffer} \ {0}

\* Each block that something points to, and what does: <<place, block>>.
Pointer(name, sid, part, block) == IF block = 0 THEN {} ELSE {<<<<name, sid, part>>, block>>}
ListOwners(name, sid, l) == Pointer(name, sid, "list", l.id) \cup Pointer(name, sid, "longs", l.buffer)
TableOwners(name, t) ==
  Pointer(name, 0, "table", t.id)
  \cup UNION {ListOwners(name, sid, t.items[sid]) : sid \in DOMAIN t.items}

Owners ==
  Pointer("model", 0, "block", model) \cup Pointer("root", 0, "block", root)
  \cup TableOwners("keymap", keymap) \cup TableOwners("clookup", clookup)
  \cup Pointer("identifierSID", 0, "table", identifierSID.id)
  \cup Pointer("SIDIdentifier", 0, "table", SIDIdentifier.id)
  \cup Pointer("handlers", 0, "table", handlers)
  \cup ListOwners("new", 0, list)

BlocksOf(owners) == {o[2] : o \in owners}
keymapBlocks == BlocksOf(TableOwners("keymap", keymap))
clookupBlocks == BlocksOf(TableOwners("clookup", clookup))

-----------------------------------------------------------------------------
(* ccoreconfModelLoadDesc *)

\* loopCounter of cborToKeyMappingHashMap after so many entries.
Counted(entries) ==
  LET upTo[i \in 0 .. Len(entries)] ==
        IF i = 0 THEN 0 ELSE upTo[i - 1] + (Len(entries[i].longs) + 1)
  IN upTo

WellFormed(km) ==
  km.how = "cbor" =>
    /\ Arrays(km.entries) /\ Once(km.entries)
    /\ Counted(km.entries)[Len(km.entries)] <= CORECONF_MAX_LOOP + 2

Load(d) ==
  /\ pc = "idle" /\ model = 0 /\ count < MaxBlocks
  /\ faults + Cardinality(malformed) < MaxFaults
  /\ pc' = "root" /\ desc' = d /\ model' = fresh /\ Allocate
  /\ malformed' = malformed \cup (IF WellFormed(d.keymap) THEN {} ELSE {d.keymap})
  /\ UNCHANGED <<root, tables, build, list>>

\* What was built so far is freed, and NULL returned.
LoadFails ==
  /\ pc' = "idle" /\ model' = 0 /\ root' = 0 /\ keymap' = NoTable
  /\ UNCHANGED <<desc, clookup, identifierSID, SIDIdentifier, handlers, malformed>>

DecodeRoot ==
  /\ pc = "root" /\ desc.instance
  /\ pc' = "keymap" /\ root' = fresh /\ Allocate
  /\ UNCHANGED <<desc, model, tables, build, list, malformed>>

RootFails ==
  /\ pc = "root"
  /\ LoadFails /\ Release({model})
  /\ UNCHANGED <<build, list>>

Begin(into, how, entries, after) ==
  /\ pc' = "entries"
  /\ build' = [into |-> into, how |-> how, after |-> after, entries |-> entries, left |-> <<>>,
               loopCounter |-> 0]

NewKeymap ==
  /\ pc = "keymap"
  /\ keymap' = NewTable /\ Allocate
  /\ Begin("keymap", desc.keymap.how, desc.keymap.entries, "clookup")
  /\ UNCHANGED <<desc, model, root, clookup, identifierSID, SIDIdentifier, handlers, list, malformed>>

\* The decoder does not notice that it has no hashmap until it sets the first entry.
NeedsKeymap(km) ==
  IF km.how = "static" \/ km.entries = <<>> THEN FALSE
  ELSE IF Head(km.entries).longs = NULL THEN FALSE
  ELSE Len(Head(km.entries).longs) <= CORECONF_MAX_LOOP + 1

NewKeymapFails ==
  /\ pc = "keymap" /\ ~NeedsKeymap(desc.keymap)
  /\ LoadFails /\ Release({model, root})
  /\ UNCHANGED <<build, list>>

NewClookup ==
  /\ pc = "clookup"
  /\ clookup' = NewTable /\ Allocate
  /\ \/ desc.clookup.how = "static" /\ Begin("clookup", "static", desc.clookup.entries, "identifierSID")
     \/ desc.clookup.how = "walk" /\ \E w \in desc.walks : Begin("clookup", "walk", w, "identifierSID")
  /\ UNCHANGED <<desc, model, root, keymap, identifierSID, SIDIdentifier, handlers, list, malformed>>

NewClookupFails ==
  /\ pc = "clookup" /\ desc.clookup.how = "walk"
  /\ LoadFails /\ Release({model, root} \cup keymapBlocks)
  /\ UNCHANGED <<build, list>>

\* That buildClookupFromStatic returned NULL is not noticed.
NoClookup ==
  /\ pc = "clookup" /\ desc.clookup.how = "static"
  /\ pc' = "identifierSID"
  /\ UNCHANGED <<desc, model, root, tables, build, list, memory, malformed>>

-----------------------------------------------------------------------------
(* buildKeymapFromStatic, cborToKeyMappingHashMap, buildClookupFromStatic  *)
(* and buildCLookupHashmapFromCoreconf: one list for each entry, filled    *)
(* and put into the table.                                                 *)

table == IF build.into = "keymap" THEN keymap ELSE clookup
entry == Head(build.entries)
HasEntry == pc = "entries" /\ build.entries # <<>>

\* A walk adds a parent to the list of a SID that has one.
Existing == build.how = "walk" /\ entry.sid \in DOMAIN table.items

SetItems(items) ==
  /\ keymap' = IF build.into = "keymap" THEN [keymap EXCEPT !.items = items] ELSE keymap
  /\ clookup' = IF build.into = "clookup" THEN [clookup EXCEPT !.items = items] ELSE clookup

\* Safety mechanism of the decoder: keys and values count alike.
LoopExceeded == build.how = "cbor" /\ build.loopCounter > CORECONF_MAX_LOOP

CreateList ==
  /\ HasEntry /\ list = NoList /\ ~Existing /\ ~LoopExceeded /\ entry.longs # NULL
  /\ list' = NewList /\ Allocate
  /\ build' = [build EXCEPT !.left = entry.longs]
  /\ UNCHANGED <<pc, desc, model, root, tables, malformed>>

\* Mutant: addLong begins a new buffer for each value.
GrowsAnew(l, value) ==
  {[l EXCEPT !.longs = Append(@, value), !.buffer = fresh]}

\* addLong: after a realloc that failed the list has no buffer, and its size is
\* the old one; the values up to there have no value when the next one succeeds.
Grows(l, value) ==
  {IF l.buffer = 0
   THEN [l EXCEPT !.longs = Append([i \in DOMAIN @ |-> NULL], value), !.buffer = fresh]
   ELSE [l EXCEPT !.longs = Append(@, value)],
   [l EXCEPT !.buffer = 0]}

\* Mutant: addUniqueLong adds each value.
GrowsAlways(l, value) == Grows(l, value)

\* addUniqueLong, unless it finds the value; NULL may be equal to anything.
GrowsUnique(l, value) ==
  (IF {value, NULL} \cap ToSet(l.longs) # {} THEN {l} ELSE {})
  \cup (IF value \in ToSet(l.longs) THEN {} ELSE Grows(l, value))

\* addUniqueLong reads the values: those of a list without a buffer are at NULL.
Readable(l) == l.buffer # 0 \/ l.longs = <<>>

Allocated(l, m) ==
  IF m.buffer = fresh THEN Allocate
  ELSE /\ lost' = lost \cup ({l.buffer} \ {m.buffer})
       /\ IF m.buffer # 0 THEN UNCHANGED faults ELSE faults < MaxFaults /\ faults' = faults + 1
       /\ UNCHANGED <<heap, count>>

AddLong ==
  /\ HasEntry /\ list # NoList /\ build.left # <<>> /\ ~LoopExceeded
  /\ build.into = "clookup" => Readable(list)
  /\ \E m \in IF build.into = "clookup" THEN GrowsUnique(list, Head(build.left))
             ELSE Grows(list, Head(build.left)) :
       list' = m /\ Allocated(list, m)
  /\ build' = [build EXCEPT !.left = Tail(@), !.loopCounter = @ + 1]
  /\ UNCHANGED <<pc, desc, model, root, tables, malformed>>

\* Mutant: a walk goes on only past a SID that is new.
StaysAtKnown ==
  IF Existing THEN build ELSE [build EXCEPT !.entries = Tail(@), !.loopCounter = @ + 1]

NextEntry == [build EXCEPT !.entries = Tail(@), !.loopCounter = @ + 1]

\* hashmap_set copies the entry and returns the one it replaces, whose list
\* nobody frees.
SetEntry ==
  /\ HasEntry /\ list # NoList /\ build.left = <<>>
  /\ SetItems([sid \in DOMAIN table.items \cup {entry.sid} |->
                 IF sid = entry.sid THEN list ELSE table.items[sid]])
  /\ lost' = lost \cup IF entry.sid \in DOMAIN table.items THEN ListBlocks(table.items[entry.sid])
                       ELSE {}
  /\ list' = NoList /\ build' = NextEntry
  /\ UNCHANGED <<pc, desc, model, root, identifierSID, SIDIdentifier, handlers, heap, count, faults,
                 malformed>>

\* hashmap_set has no memory to grow: nobody asks hashmap_oom.
SetEntryFails ==
  /\ HasEntry /\ list # NoList /\ build.left = <<>>
  /\ faults < MaxFaults /\ faults' = faults + 1 /\ lost' = lost \cup ListBlocks(list)
  /\ list' = NoList /\ build' = NextEntry
  /\ UNCHANGED <<pc, desc, model, root, tables, heap, count, malformed>>

\* A walk meets a SID again: addUniqueLong on the list in the table.
AddParent ==
  /\ HasEntry /\ list = NoList /\ Existing
  /\ Readable(table.items[entry.sid])
  /\ \E m \in GrowsUnique(table.items[entry.sid], entry.longs[1]) :
       /\ SetItems([table.items EXCEPT ![entry.sid] = m])
       /\ Allocated(table.items[entry.sid], m)
  /\ build' = NextEntry
  /\ UNCHANGED <<pc, desc, model, root, identifierSID, SIDIdentifier, handlers, list, malformed>>

\* A table of the static data cannot have its list: the table is freed, and
\* only without a keymap is there no model.
CreateListFails ==
  /\ HasEntry /\ list = NoList /\ build.how = "static"
  /\ \/ /\ build.into = "keymap"
        /\ LoadFails /\ Release({model, root} \cup keymapBlocks)
     \/ /\ build.into = "clookup"
        /\ clookup' = NoTable /\ pc' = "identifierSID" /\ Release(clookupBlocks)
        /\ UNCHANGED <<desc, model, root, keymap, identifierSID, SIDIdentifier, handlers, malformed>>
  /\ UNCHANGED <<build, list>>

\* The decoder gives up: it frees the list it was filling, but not the table,
\* and the model is freed without it.
KeymapFails ==
  /\ HasEntry /\ build.how = "cbor"
  /\ (LoopExceeded /\ (list = NoList \/ build.left # <<>>)) \/ (list = NoList /\ entry.longs = NULL)
  /\ LoadFails
  /\ lost' = lost \cup keymapBlocks
  /\ heap' = heap \ ({model, root} \cup ListBlocks(list))
  /\ list' = NoList
  /\ UNCHANGED <<build, count, faults>>

\* A null pointer is used: the decoder's hashmap, the list of a walk or of the
\* decoder, the values of a list whose realloc failed before.
Halt ==
  /\ \/ pc = "keymap" /\ NeedsKeymap(desc.keymap)
     \/ HasEntry /\ list = NoList /\ build.how \in {"cbor", "walk"} /\ ~Existing
     \/ HasEntry /\ list # NoList /\ build.left # <<>> /\ build.into = "clookup" /\ ~Readable(list)
     \/ HasEntry /\ list = NoList /\ Existing /\ ~Readable(table.items[entry.sid])
  /\ pc' = "halted"
  /\ UNCHANGED <<desc, model, root, tables, build, list, memory, malformed>>

EntriesDone ==
  /\ pc = "entries" /\ build.entries = <<>>
  /\ pc' = build.after
  /\ UNCHANGED <<desc, model, root, tables, build, list, memory, malformed>>

-----------------------------------------------------------------------------
(* buildIdentifierSIDHashmap and buildSIDIdentifierHashmap: a model without *)
(* them, or with a part of them, is still usable.                           *)

Named == {e \in desc.SIDTable : e.identifier # NULL}

SkipNames ==
  /\ pc = "identifierSID" /\ desc.SIDTable = {}
  /\ pc' = "idle"
  /\ UNCHANGED <<desc, model, root, tables, build, list, memory, malformed>>

BuildIdentifierSID ==
  /\ pc = "identifierSID" /\ desc.SIDTable # {}
  /\ pc' = "SIDIdentifier"
  /\ \E kept \in SUBSET Named :
       /\ identifierSID' = [id |-> fresh, items |->
            [i \in {e.identifier : e \in kept} |-> (CHOOSE e \in kept : e.identifier = i).sid]]
       /\ kept # Named => faults < MaxFaults
       /\ faults' = IF kept = Named THEN faults ELSE faults + 1
  /\ heap' = heap \cup {fresh} /\ count' = fresh /\ UNCHANGED lost
  /\ UNCHANGED <<desc, model, root, keymap, clookup, SIDIdentifier, handlers, build, list, malformed>>

NoIdentifierSID ==
  /\ pc = "identifierSID" /\ desc.SIDTable # {}
  /\ pc' = "SIDIdentifier"
  /\ UNCHANGED <<desc, model, root, tables, build, list, memory, malformed>>

BuildSIDIdentifier ==
  /\ pc = "SIDIdentifier"
  /\ pc' = "idle"
  /\ \E kept \in SUBSET Named :
       /\ SIDIdentifier' = [id |-> fresh, items |->
            [s \in {e.sid : e \in kept} |-> (CHOOSE e \in kept : e.sid = s).identifier]]
       /\ kept # Named => faults < MaxFaults
       /\ faults' = IF kept = Named THEN faults ELSE faults + 1
  /\ heap' = heap \cup {fresh} /\ count' = fresh /\ UNCHANGED lost
  /\ UNCHANGED <<desc, model, root, keymap, clookup, identifierSID, handlers, build, list, malformed>>

NoSIDIdentifier ==
  /\ pc = "SIDIdentifier"
  /\ pc' = "idle"
  /\ UNCHANGED <<desc, model, root, tables, build, list, memory, malformed>>

ccoreconfModelLookupSID(i) ==
  IF identifierSID # NoTable /\ i \in DOMAIN identifierSID.items THEN identifierSID.items[i] ELSE 0
ccoreconfModelLookupIdentifier(s) ==
  IF SIDIdentifier # NoTable /\ s \in DOMAIN SIDIdentifier.items THEN SIDIdentifier.items[s] ELSE NULL

-----------------------------------------------------------------------------
(* A loaded model *)

Loaded == pc = "idle" /\ model # 0

\* ccoreconfModelBuildCLookupHashmap.  The instance may have changed since it
\* was walked last.
BuildCLookup ==
  /\ Loaded /\ clookup # NoTable /\ count < MaxBlocks
  /\ clookup' = [clookup EXCEPT !.items = <<>>] /\ Release(clookupBlocks \ {clookup.id})
  /\ \E w \in desc.walks : Begin("clookup", "walk", w, "idle")
  /\ UNCHANGED <<desc, model, root, keymap, identifierSID, SIDIdentifier, handlers, list, malformed>>

\* Without memory for the hashmap, it returns.
BuildNewCLookup ==
  /\ Loaded /\ clookup = NoTable /\ count < MaxBlocks
  /\ clookup' = NewTable /\ Allocate
  /\ \E w \in desc.walks : Begin("clookup", "walk", w, "idle")
  /\ UNCHANGED <<desc, model, root, keymap, identifierSID, SIDIdentifier, handlers, list, malformed>>

\* ccoreconfModelRegisterHandler: the first call makes the registry, which
\* stays whether or not its hashmap has memory for the entry.  A later call
\* is a set of that hashmap and touches no block of the model.
Register ==
  /\ Loaded /\ handlers = 0 /\ count < MaxBlocks
  /\ handlers' = fresh /\ Allocate
  /\ UNCHANGED <<pc, desc, model, root, keymap, clookup, identifierSID, SIDIdentifier, build, list,
                 malformed>>

\* Mutant: the registry is forgotten.
ModelFreeKeepsHandlers ==
  /\ Loaded
  /\ model' = 0 /\ root' = 0
  /\ keymap' = NoTable /\ clookup' = NoTable /\ identifierSID' = NoTable /\ SIDIdentifier' = NoTable
  /\ handlers' = 0
  /\ Release(BlocksOf(Owners) \ {handlers})
  /\ UNCHANGED <<pc, desc, build, list, malformed>>

\* ccoreconfModelFree
ModelFree ==
  /\ Loaded
  /\ model' = 0 /\ root' = 0
  /\ keymap' = NoTable /\ clookup' = NoTable /\ identifierSID' = NoTable /\ SIDIdentifier' = NoTable
  /\ handlers' = 0
  /\ Release(BlocksOf(Owners))
  /\ UNCHANGED <<pc, desc, build, list, malformed>>

-----------------------------------------------------------------------------
NoBuild == [into |-> "keymap", how |-> "static", after |-> "idle", entries |-> <<>>, left |-> <<>>,
            loopCounter |-> 0]

Init ==
  /\ pc = "idle" /\ desc = NULL /\ model = 0 /\ root = 0
  /\ keymap = NoTable /\ clookup = NoTable /\ identifierSID = NoTable /\ SIDIdentifier = NoTable
  /\ handlers = 0 /\ build = NoBuild /\ list = NoList
  /\ heap = {} /\ count = 0 /\ lost = {} /\ faults = 0 /\ malformed = {}

\* The program ends, or has stopped, and begins anew.
Restart ==
  /\ pc \in {"idle", "halted"}
  /\ pc' = "idle" /\ desc' = NULL /\ model' = 0 /\ root' = 0
  /\ keymap' = NoTable /\ clookup' = NoTable /\ identifierSID' = NoTable /\ SIDIdentifier' = NoTable
  /\ handlers' = 0 /\ build' = NoBuild /\ list' = NoList
  /\ heap' = {} /\ count' = 0 /\ lost' = {} /\ faults' = 0 /\ malformed' = {}

Client ==
  \/ \E d \in Descs : Load(d)
  \/ BuildCLookup \/ BuildNewCLookup
  \/ Register \/ ModelFree \/ Restart

Step ==
  \/ DecodeRoot \/ RootFails
  \/ NewKeymap \/ NewKeymapFails \/ NewClookup \/ NewClookupFails \/ NoClookup
  \/ CreateList \/ CreateListFails \/ AddLong \/ SetEntry \/ SetEntryFails
  \/ AddParent \/ KeymapFails \/ Halt \/ EntriesDone
  \/ SkipNames \/ BuildIdentifierSID \/ NoIdentifierSID \/ BuildSIDIdentifier \/ NoSIDIdentifier

Next == Client \/ Step

\* One thread: a call that was begun goes on.
Spec == Init /\ [][Next]_vars /\ WF_vars(Step)

-----------------------------------------------------------------------------
(* Properties *)

\* Every block that is allocated has one owner, or is lost: nothing that is
\* reachable from the model, or from the table or list being built, was freed,
\* and nothing can be freed twice, whichever allocation fails.
OneOwner ==
  /\ heap = BlocksOf(Owners) \cup lost /\ BlocksOf(Owners) \cap lost = {}
  /\ \A o, p \in Owners : o[2] = p[2] => o = p

\* A load that fails and a model that is freed leave nothing, whatever was built
\* by then: unless a list or a set ran out of memory before, or a keymap was
\* malformed (its decoder loses the table, or the list of a SID it has twice).
NothingLeft == pc = "idle" /\ model = 0 /\ faults = 0 /\ malformed = {} => heap = {}

Lists(t) == [sid \in DOMAIN t.items |-> t.items[sid].longs]
LastWith(entries, sid) ==
  CHOOSE i \in DOMAIN entries :
    entries[i].sid = sid /\ \A j \in DOMAIN entries : entries[j].sid = sid => j <= i
EntriesOf(entries) ==
  [sid \in {e.sid : e \in ToSet(entries)} |-> entries[LastWith(entries, sid)].longs]
ParentsIn(entries) ==
  [sid \in {e.sid : e \in ToSet(entries)} |->
     UNION {ToSet(e.longs) : e \in {e \in ToSet(entries) : e.sid = sid}}]

\* What was loaded has all of the keymap, the same from the static table as from
\* CBOR, and of a malformed one too: one that is too large or has an entry
\* without an array is not loaded in part, and of two entries for a SID the last
\* one counts; a table of parents that is the static one or that of some walk,
\* each parent once; and names that lead to their SIDs and back.  A table that
\* could not be made is missing altogether.
LoadedIsWhole ==
  Loaded /\ faults = 0 =>
    /\ desc.instance /\ Lists(keymap) = EntriesOf(desc.keymap.entries)
    /\ clookup # NoTable =>
         /\ \A sid \in DOMAIN clookup.items : IsInjective(clookup.items[sid].longs)
         /\ \E entries \in desc.walks \cup (IF desc.clookup.how = "static" THEN {desc.clookup.entries}
                                          ELSE {}) :
              [sid \in DOMAIN clookup.items |-> ToSet(clookup.items[sid].longs)] = ParentsIn(entries)
    /\ \A e \in Named :
         /\ identifierSID # NoTable => ccoreconfModelLookupSID(e.identifier) = e.sid
         /\ SIDIdentifier # NoTable => ccoreconfModelLookupIdentifier(e.sid) = e.identifier

\* A load or a rebuild ends.
CallReturns == pc \notin {"idle", "halted"} ~> pc \in {"idle", "halted"}
=============================================================================
